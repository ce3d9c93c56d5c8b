--------------------------- MODULE BoardTxnProofs ---------------------------
(***************************************************************************)
(* Proofs about the transactions of the Board, for any tasks, actors,      *)
(* dependencies, bound on the tokens, and any number of faults: what their *)
(* row locks protect, and that every COMMIT respects the contract, so that *)
(* what BoardProofs shows of Board holds of the transactions too.          *)
(***************************************************************************)
EXTENDS BoardTxn, BoardProofs, FiniteSetTheorems

(* The inductive invariant. *)

\* Where a transaction holds the lock of its task, of its claim, of its artifact.
WithTask == {"claim.deps", "claim.lease", "claim.insert", "release.claim",
             "complete.claim", "complete.artifact", "sweep.claim", "sweep.artifact"}
WithClaim == {"complete.artifact", "sweep.artifact", "drain.task"}
WithArt == {"write.commit", "baseline.commit"}

Recovering == {"sweep.task", "sweep.claim", "sweep.artifact"}
Lapsing == {"drain.claim", "drain.task"}
Draining == {"drain.scan", "drain.next", "close.seal"} \cup Lapsing
Working == ClientPCs \cup Recovering \cup Lapsing

\* A transaction is about a task that is posted; only postTask's is not yet.
Placed(p) ==
    LET x == txn[p] IN
    /\ x.pc \in Working => x.t \in Tasks
    /\ x.pc \in Working \ {"post"} => task[x.t] # "none"
    /\ p \in Actors /\ x.pc = "post" => task[x.t] = "none"

\* The locks it has taken are its own until it ends.
Locked(p) ==
    LET x == txn[p] IN
    /\ x.pc \in WithTask => lock[TaskRow(x.t)] = p
    /\ x.pc \in WithClaim => lock[ClaimRow(x.k)] = p
    /\ x.pc \in WithArt => lock[ArtRow(x.t)] = p
    /\ x.pc = "claim.insert" => \A c \in Lapsed(p) : lock[ClaimRow(c.token)] = p

\* claimTask: the task stays open to claims, and when the claim goes in, the
\* only claims in its way are those it deletes, and its token is the newest.
Claiming(p) ==
    LET x == txn[p] IN
    /\ x.pc \in {"claim.deps", "claim.lease", "claim.insert"} => task[x.t] # "completed"
    /\ x.pc \in {"claim.lease", "claim.insert"} /\ Topology[x.t] = "sequential" =>
          \A d \in DependsOn[x.t] : task[d] = "completed"
    /\ x.pc = "claim.insert" =>
          /\ ClaimsOf(x.t) \subseteq Lapsed(p)
          /\ x.k \in 1..fence
          /\ barrier[x.t] <= x.k
          /\ \A u \in Tasks : x.k \notin granted[u]

\* writeArtifact and baselineArtifact: what the guard saw is still so.
Writing(p) ==
    LET x == txn[p] IN
    /\ x.pc \in {"write", "baseline"} \cup WithArt => x.n \in Numbers
    /\ x.pc \in WithArt =>
          /\ x.k \in granted[x.t]
          /\ barrier[x.t] <= x.k
          /\ accepted[x.t] <= x.n
          /\ artState[x.t] \in WritableStates
          /\ x.pc = "baseline.commit" => artState[x.t] \in {"draft", "working"}

\* Sweep and drain: the token is one of the task, expired if the sweep found it.
Removing(p) ==
    LET x == txn[p] IN
    /\ x.pc \in Recovering \cup Lapsing => x.k \in granted[x.t]
    /\ x.pc \in Recovering => \A c \in claims : c.token = x.k => c.token \in expired
    /\ x.pc \in Draining => topic # "active"
    /\ x.pc \in WithClaim => \E c \in claims : c.task = x.t /\ c.token = x.k

\* What was expired when the transaction began is expired or gone.
DeadStay(p) ==
    /\ \A k \in txn[p].dead : \E u \in Tasks : k \in granted[u]
    /\ \A c \in claims : c.token \in txn[p].dead => c.token \in expired

ProcInv(p) ==
    /\ Placed(p)
    /\ Locked(p)
    /\ Claiming(p)
    /\ Writing(p)
    /\ Removing(p)
    /\ DeadStay(p)

\* What a scan found was a claim, and what the sweep's found had expired.
ScanInv(p) ==
    \A c \in scan[p] :
        /\ c.token \in granted[c.task]
        /\ txn[p].pc \in Recovering \cup {"sweep.next"} =>
              \A d \in claims : d.token = c.token => d.token \in expired

\* The sequence is ahead of every token granted.
Sequenced ==
    \A u \in Tasks :
        /\ granted[u] \subseteq 1..fence
        /\ barrier[u] <= fence + 1
        /\ granted[u] # {} => task[u] # "none"

\* No two claims draw one token, no two calls post one task.
DrawnOnce ==
    \A p, q \in Procs :
        At(p, "claim.insert") /\ At(q, "claim.insert") /\ txn[p].k = txn[q].k => p = q
PostedOnce ==
    \A p, q \in Actors : At(p, "post") /\ txn[q].t = txn[p].t => p = q

\* The bound leaves a token for every claim that may still draw one.
Room == IsFiniteSet(Drawing) /\ fence + Cardinality(Drawing) <= MaxToken

TxnInv ==
    /\ TxnTypeOK
    /\ BoardInv
    /\ \A p \in Procs : ProcInv(p)
    /\ \A p \in System : ScanInv(p)
    /\ Sequenced
    /\ DrawnOnce
    /\ PostedOnce
    /\ Room

-----------------------------------------------------------------------------
(* What a step of the Board does to rows that others rely on. *)

\* What holds of a row stays so: tokens granted, tasks posted and completed,
\* claims expired, a topic that began to close; and a new claim is new.
Grows ==
    /\ \A u \in Tasks :
          /\ granted[u] \subseteq granted'[u]
          /\ task[u] # "none" => task'[u] # "none"
          /\ task[u] = "completed" => task'[u] = "completed"
    /\ topic # "active" => topic' # "active"
    /\ \A c \in claims \cap claims' : c.token \in expired => c.token \in expired'
    /\ \A c \in claims' \ claims : \A u \in Tasks : c.token \notin granted[u]

\* A claim is known by its token.
LEMMA OneToken ==
  ASSUME IInv, NEW c \in claims, NEW d \in claims, c.token = d.token
  PROVE  c = d
<1>1. c.task \in Tasks /\ d.task \in Tasks
  BY ClaimFacts
<1>2. c.token \in granted[c.task] \cap granted[d.task]
  BY DEF IInv, BoardInv, TokensInOrder
<1>3. c.task = d.task
  BY <1>1, <1>2 DEF IInv, BoardInv, TokensInOrder
<1> QED
  BY <1>3 DEF IInv, BoardInv, OneClaimPerArtifact

\* Deleting claims forgets the expiry of no other.
LEMMA DeleteGrows ==
  ASSUME IInv, NEW gone \in SUBSET claims, expired' = expired \ {c.token : c \in gone}
  PROVE  \A c \in claims \ gone : c.token \in expired => c.token \in expired'
<1> SUFFICES ASSUME NEW c \in claims \ gone, c.token \in expired
             PROVE  c.token \in expired'
  OBVIOUS
<1>1. \A d \in gone : d.token # c.token
  BY OneToken
<1> QED
  BY <1>1

\* Every step of the Board keeps what Grows says.
LEMMA BoardGrows ==
  ASSUME IInv, [Next]_boardVars
  PROVE  Grows
<1> USE DEF artVars, logVars, histVars, Delete
<1>1. ASSUME NEW t \in Tasks, Post(t) PROVE Grows
  BY <1>1 DEF Grows, Post, PostEffect, IInv, TypeOK
<1>2. ASSUME NEW t \in Tasks, NEW a \in Actors, NEW k \in Tokens, Grant(t, a, k)
      PROVE Grows
  <2> DEFINE row == [task |-> t, actor |-> a, token |-> k]
  <2>1. \A c \in claims : c.token \in granted[c.task] /\ c.task \in Tasks
    BY ClaimFacts DEF IInv, BoardInv, TokensInOrder
  <2>2. row \notin claims /\ row.token = k
    BY <1>2, <2>1 DEF Grant
  <2>3. /\ claims' = (claims \ ClaimsOf(t)) \cup {row}
        /\ expired' = expired \ {c.token : c \in ClaimsOf(t)}
        /\ ClaimsOf(t) \in SUBSET claims
    BY <1>2 DEF Grant, GrantEffect, ClaimsOf
  <2>4. \A c \in claims \cap claims' : c.token \in expired => c.token \in expired'
    BY <2>2, <2>3, DeleteGrows
  <2>5. \A c \in claims' \ claims : \A u \in Tasks : c.token \notin granted[u]
    BY <1>2, <2>2, <2>3 DEF Grant
  <2> HIDE DEF row
  <2>6. /\ task' = [task EXCEPT ![t] = "claimed"] /\ task[t] # "completed" /\ topic' = topic
        /\ granted' = [granted EXCEPT ![t] = @ \cup {k}]
    BY <1>2 DEF Grant, GrantEffect
  <2> QED
    BY <2>4, <2>5, <2>6 DEF Grows, IInv, TypeOK
<1>3. ASSUME NEW gone \in SUBSET claims, Delete(gone), granted' = granted, topic' = topic,
             \A t \in Tasks : task[t] # "none" => task'[t] # "none",
             [Next]_boardVars
      PROVE Grows
  <2>1. \A c \in claims \cap claims' : c.token \in expired => c.token \in expired'
    BY <1>3, DeleteGrows
  <2> QED
    BY <1>3, <2>1, CompletedStays DEF Grows
<1>4. ASSUME NEW c \in claims, Release(c) \/ Complete(c) \/ Retire(c) \/ Drop(c) \/ ForceLapse(c)
      PROVE Grows
  <2>1. c.task \in Tasks /\ task \in [Tasks -> TaskStatus]
    BY ClaimFacts DEF IInv, TypeOK
  <2>2. PICK gone \in SUBSET claims : Delete(gone)
    <3>1. {c} \in SUBSET claims /\ ClaimsOf(c.task) \in SUBSET claims
      BY DEF ClaimsOf
    <3> QED
      BY <1>4, <3>1 DEF Release, ReleaseEffect, Complete, CompleteEffect, Retire, RetireEffect,
                        Drop, DropEffect, ForceLapse, ForceLapseEffect
  <2>3. /\ granted' = granted /\ topic' = topic
        /\ \A t \in Tasks : task[t] # "none" => task'[t] # "none"
    <3> HIDE DEF Delete
    <3> QED
      BY <1>4, <2>1 DEF Release, ReleaseEffect, Complete, CompleteEffect, Retire, RetireEffect,
                        Drop, DropEffect, ForceLapse, ForceLapseEffect
  <2> QED
    BY <1>3, <2>2, <2>3
<1>5. ASSUME NEW t \in Tasks, NEW k \in Tokens, NEW n \in Numbers, Write(t, k, n) \/ Baseline(t, k, n)
      PROVE Grows
  BY <1>5 DEF Grows, Accept, Write, WriteEffect, Baseline, BaselineEffect
<1>6. ASSUME NEW t \in Tasks, NEW o \in {"final", "working"}, Resolve(t, o) PROVE Grows
  BY <1>6 DEF Grows, Resolve, ResolveEffect
<1>7. ASSUME Freeze \/ Seal PROVE Grows
  BY <1>7 DEF Grows, Freeze, Seal, TopicEffect
<1>8. ASSUME NEW c \in claims, Expire(c) PROVE Grows
  BY <1>8 DEF Grows, Expire, ExpireEffect
<1>9. ASSUME UNCHANGED boardVars PROVE Grows
  BY <1>9 DEF Grows, boardVars
<1> HIDE DEF Delete
<1> QED
  BY <1>1, <1>2, <1>4, <1>5, <1>6, <1>7, <1>8, <1>9 DEF Next

-----------------------------------------------------------------------------
(* What a step leaves to the transactions it does not belong to. *)

\* The rows q has locked or found, and the row it is about to insert, stay
\* as they are.
Respects(q) ==
    LET x == txn[q] IN
    /\ x.pc \in WithTask =>
          /\ task'[x.t] = task[x.t] /\ barrier'[x.t] = barrier[x.t]
          /\ {c \in claims' : c.task = x.t} = ClaimsOf(x.t)
    /\ x.pc \in WithArt =>
          /\ artState'[x.t] = artState[x.t] /\ accepted'[x.t] = accepted[x.t]
          /\ barrier'[x.t] = barrier[x.t]
    /\ x.pc \in WithClaim => \A c \in ClaimsOf(x.t) : c.token = x.k => c \in claims'
    /\ q \in Actors /\ x.pc = "post" => task'[x.t] = task[x.t]
    /\ x.pc = "claim.insert" => \A u \in Tasks : x.k \notin granted'[u]

\* q is where it was and has what it had.
Undisturbed(q) ==
    /\ txn'[q] = txn[q]
    /\ \A r \in Rows : lock[r] = q => lock'[r] = q

\* The fields of a transaction, and the rows it names.
LEMMA TxnType ==
  ASSUME TxnTypeOK, NEW p \in Procs
  PROVE  /\ txn[p] \in Locals
         /\ txn[p].k \in 0..MaxToken /\ txn[p].k \in Nat /\ txn[p].dead \subseteq Tokens
         /\ fence \in Nat /\ fence <= MaxToken /\ MaxToken \in Nat
         /\ \A t \in Tasks : TaskRow(t) \in Rows /\ ArtRow(t) \in Rows
         /\ \A k \in Tokens : ClaimRow(k) \in Rows
  BY MaxTokenAssumption DEF TxnTypeOK, Locals, Rows

\* What the invariant says of a transaction survives the steps of the others.
LEMMA Frame ==
  ASSUME TxnInv, NEW q \in Procs, Undisturbed(q), Respects(q), Grows,
         fence' \in Nat, fence <= fence'
  PROVE  ProcInv(q)'
<1> DEFINE x == txn[q]
<1>1. /\ txn'[q] = x /\ ProcInv(q) /\ IInv
      /\ x.pc \in Working => x.t \in Tasks
      /\ WithTask \subseteq Working /\ WithArt \subseteq Working /\ WithClaim \subseteq Working
  BY DEF TxnInv, IInv, TxnTypeOK, Undisturbed, ProcInv, Placed, WithTask, WithArt, WithClaim,
         Working, ClientPCs, Recovering, Lapsing
<1>2. \A c \in claims : c.task \in Tasks /\ c.token \in Tokens /\ c.token \in granted[c.task]
  BY <1>1, ClaimFacts DEF IInv, BoardInv, TokensInOrder
<1>3. \A r \in Rows : lock[r] = q => lock'[r] = q
  BY DEF Undisturbed
<1>4. Lapsed(q)' \subseteq claims' /\ \A c \in Lapsed(q)' : c.token \in x.dead /\ c.task = x.t
  BY <1>1 DEF Lapsed, ClaimsOf
<1>5. Placed(q)'
  BY <1>1 DEF ProcInv, Placed, Respects, Grows, Working, ClientPCs
<1>6. Locked(q)'
  <2>1. x.pc \in WithTask => lock'[TaskRow(x.t)] = q
    BY <1>1, <1>3, TxnType DEF TxnInv, ProcInv, Locked
  <2>2. x.pc \in WithClaim => lock'[ClaimRow(x.k)] = q
    BY <1>1, <1>2, <1>3, TxnType DEF TxnInv, ProcInv, Locked, Removing
  <2>3. x.pc \in WithArt => lock'[ArtRow(x.t)] = q
    BY <1>1, <1>3, TxnType DEF TxnInv, ProcInv, Locked
  <2>4. ASSUME x.pc = "claim.insert", NEW c \in Lapsed(q)'
        PROVE  lock'[ClaimRow(c.token)] = q
    <3>1. c \in ClaimsOf(x.t)
      <4>1. c \in claims' /\ c.task = x.t
        BY <1>4
      <4>2. {d \in claims' : d.task = x.t} = ClaimsOf(x.t)
        BY <2>4 DEF Respects, WithTask
      <4> QED
        BY <4>1, <4>2
    <3>2. c \in Lapsed(q) /\ c \in claims
      BY <1>4, <3>1 DEF Lapsed, ClaimsOf
    <3> QED
      BY <1>1, <1>2, <1>3, <2>4, <3>2, TxnType DEF TxnInv, ProcInv, Locked
  <2> QED
    BY <1>1, <2>1, <2>2, <2>3, <2>4 DEF Locked
<1>7. Claiming(q)'
  <2>1. x.pc \in {"claim.deps", "claim.lease", "claim.insert"} => task'[x.t] # "completed"
    BY <1>1 DEF ProcInv, Claiming, Respects, WithTask
  <2>2. x.pc \in {"claim.lease", "claim.insert"} /\ Topology[x.t] = "sequential" =>
            \A d \in DependsOn[x.t] : task'[d] = "completed"
    BY <1>1, DependsOnAssumption DEF ProcInv, Claiming, Grows, WithTask
  <2>3. ASSUME x.pc = "claim.insert"
        PROVE  /\ ClaimsOf(x.t)' \subseteq Lapsed(q)'
               /\ x.k \in 1..fence' /\ barrier'[x.t] <= x.k
               /\ \A u \in Tasks : x.k \notin granted'[u]
    <3>1. {c \in claims' : c.task = x.t} = ClaimsOf(x.t) /\ barrier'[x.t] = barrier[x.t]
          /\ \A u \in Tasks : x.k \notin granted'[u]
      BY <2>3 DEF Respects, WithTask
    <3>2. ClaimsOf(x.t) \subseteq Lapsed(q) /\ x.k \in 1..fence /\ barrier[x.t] <= x.k
      BY <1>1, <2>3 DEF ProcInv, Claiming
    <3>3. \A c \in ClaimsOf(x.t) : c.token \in x.dead
      BY <3>2 DEF Lapsed
    <3>4. x.k \in 1..fence'
      BY <3>2, TxnType DEF TxnInv
    <3> QED
      BY <1>1, <3>1, <3>2, <3>3, <3>4 DEF Lapsed, ClaimsOf
  <2> QED
    BY <1>1, <2>1, <2>2, <2>3 DEF Claiming
<1>8. Writing(q)'
  BY <1>1 DEF ProcInv, Writing, Respects, Grows
<1>9. Removing(q)'
  <2>1. x.pc \in Recovering \cup Lapsing => x.k \in granted'[x.t]
    BY <1>1 DEF ProcInv, Removing, Grows, Working
  <2>2. ASSUME x.pc \in Recovering, NEW c \in claims', c.token = x.k
        PROVE  c.token \in expired'
    <3>1. x.k \in granted[x.t] /\ x.t \in Tasks
      BY <1>1, <2>2 DEF ProcInv, Removing, Working
    <3>2. c \in claims
      BY <2>2, <3>1 DEF Grows
    <3> QED
      BY <1>1, <2>2, <3>2 DEF ProcInv, Removing, Grows
  <2>3. x.pc \in Draining => topic' # "active"
    BY <1>1 DEF ProcInv, Removing, Grows
  <2>4. x.pc \in WithClaim => \E c \in claims' : c.task = x.t /\ c.token = x.k
    BY <1>1 DEF ProcInv, Removing, Respects, ClaimsOf
  <2> QED
    BY <1>1, <2>1, <2>2, <2>3, <2>4 DEF Removing
<1>10. DeadStay(q)'
  BY <1>1 DEF ProcInv, DeadStay, Grows
<1> QED
  BY <1>5, <1>6, <1>7, <1>8, <1>9, <1>10 DEF ProcInv

-----------------------------------------------------------------------------
(* The commits: steps of the Board that keep off the rows of the others. *)

\* A row that p may lock is locked by nobody else.
LEMMA Excluded ==
  ASSUME TxnInv, NEW p \in Procs \cup {None}, NEW q \in Procs \ {p}
  PROVE  /\ txn[q].pc \in WithTask => ~Free(p, TaskRow(txn[q].t))
         /\ txn[q].pc \in WithClaim => ~Free(p, ClaimRow(txn[q].k))
         /\ txn[q].pc \in WithArt => ~Free(p, ArtRow(txn[q].t))
         /\ txn[q].pc = "claim.insert" => \A c \in Lapsed(q) : ~Free(p, ClaimRow(c.token))
<1>1. Locked(q) /\ q # None /\ q # p
  BY NoneAssumption DEF TxnInv, ProcInv, Procs, System
<1> QED
  BY <1>1 DEF Locked, Free

\* A commit about task t by a transaction that has, or could have, the locks of
\* the rows it changes leaves the others what they rely on.
LEMMA Apart ==
  ASSUME TxnInv, NEW p \in Procs \cup {None}, NEW t \in Tasks, task[t] # "none",
         \A u \in Tasks \ {t} :
             /\ task'[u] = task[u] /\ barrier'[u] = barrier[u]
             /\ artState'[u] = artState[u] /\ accepted'[u] = accepted[u]
             /\ {c \in claims' : c.task = u} = ClaimsOf(u),
         \/ Free(p, TaskRow(t))
         \/ /\ task'[t] = task[t] /\ barrier'[t] = barrier[t]
            /\ {c \in claims' : c.task = t} = ClaimsOf(t),
         \/ Free(p, ArtRow(t))
         \/ /\ artState'[t] = artState[t] /\ accepted'[t] = accepted[t]
            /\ barrier'[t] = barrier[t],
         \A c \in claims \ claims' : Free(p, ClaimRow(c.token)),
         \A u \in Tasks : \A k \in granted'[u] \ granted[u] :
             p \in Procs /\ At(p, "claim.insert") /\ k = txn[p].k
  PROVE  \A q \in Procs \ {p} : Respects(q)
<1> SUFFICES ASSUME NEW q \in Procs \ {p} PROVE Respects(q)
  OBVIOUS
<1> DEFINE x == txn[q]
<1>1. ProcInv(q) /\ (x.pc \in Working => x.t \in Tasks)
      /\ WithTask \subseteq Working /\ WithArt \subseteq Working /\ WithClaim \subseteq Working
      /\ "post" \in Working
  BY DEF TxnInv, ProcInv, Placed, WithTask, WithArt, WithClaim, Working, ClientPCs,
         Recovering, Lapsing
<1>2. x.pc \in WithTask =>
        /\ task'[x.t] = task[x.t] /\ barrier'[x.t] = barrier[x.t]
        /\ {c \in claims' : c.task = x.t} = ClaimsOf(x.t)
  BY <1>1, Excluded
<1>3. x.pc \in WithArt =>
        /\ artState'[x.t] = artState[x.t] /\ accepted'[x.t] = accepted[x.t]
        /\ barrier'[x.t] = barrier[x.t]
  BY <1>1, Excluded
<1>4. x.pc \in WithClaim => \A c \in ClaimsOf(x.t) : c.token = x.k => c \in claims'
  BY Excluded DEF ClaimsOf
<1>5. q \in Actors /\ x.pc = "post" => task'[x.t] = task[x.t]
  BY <1>1 DEF ProcInv, Placed
<1>6. x.pc = "claim.insert" => \A u \in Tasks : x.k \notin granted'[u]
  BY <1>1 DEF ProcInv, Claiming, TxnInv, DrawnOnce, At
<1> QED
  BY <1>2, <1>3, <1>4, <1>5, <1>6 DEF Respects

\* A commit that changes neither a task, an artifact nor a claim.
LEMMA Aside ==
  ASSUME TxnInv, NEW q \in Procs,
         UNCHANGED <<task, artState, accepted, claims, granted, barrier>>
  PROVE  Respects(q)
  BY DEF Respects, ClaimsOf, TxnInv, ProcInv, Claiming

\* A commit of p that respects the contract and the other transactions.
Sound(p) ==
    /\ [Next]_boardVars
    /\ \A q \in Procs \ {p} : Respects(q)
    /\ Sequenced'

\* A transaction that holds a claim and its row: what the invariant says of it.
LEMMA InHand ==
  ASSUME TxnInv, NEW p \in Procs, txn[p].pc \in WithClaim
  PROVE  \E c \in claims :
             /\ c.task = txn[p].t /\ c.token = txn[p].k /\ c.task \in Tasks
             /\ \A d \in claims : d.token = txn[p].k => d = c
             /\ ClaimsOf(c.task) = {c} /\ task[c.task] = "claimed"
             /\ Free(p, ClaimRow(c.token))
             /\ c.token \in 1..fence /\ c.token \in granted[c.task]
             /\ txn[p].pc \in Recovering => c.token \in expired
<1>1. PICK c \in claims : c.task = txn[p].t /\ c.token = txn[p].k
  BY DEF TxnInv, ProcInv, Removing
<1>2. IInv
  BY DEF TxnInv, TxnTypeOK, IInv
<1>3. \A d \in claims : d.token = txn[p].k => d = c
  BY <1>1, <1>2, OneToken
<1>4. ClaimsOf(c.task) = {c} /\ task[c.task] = "claimed" /\ c.task \in Tasks
  BY <1>2, ClaimFacts
<1>5. Free(p, ClaimRow(c.token))
  BY <1>1 DEF TxnInv, ProcInv, Locked, Free
<1>6. c.token \in granted[c.task]
  BY <1>2 DEF IInv, BoardInv, TokensInOrder
<1>7. c.token \in 1..fence
  BY <1>4, <1>6 DEF TxnInv, Sequenced
<1>8. txn[p].pc \in Recovering => c.token \in expired
  BY <1>1 DEF TxnInv, ProcInv, Removing
<1> QED
  BY <1>1, <1>3, <1>4, <1>5, <1>6, <1>7, <1>8

\* postTask.
LEMMA PostSound ==
  ASSUME TxnInv, NEW p \in Actors, At(p, "post"), topic # "closed",
         PostEffect(txn[p].t), fence' = fence
  PROVE  Sound(p)
<1> DEFINE t == txn[p].t
<1>1. t \in Tasks /\ task[t] = "none"
  BY DEF TxnInv, ProcInv, Placed, Working, ClientPCs, At, Procs
<1>2. Post(t)
  BY <1>1 DEF Post
<1>3. ASSUME NEW q \in Procs \ {p} PROVE Respects(q)
  <2> DEFINE x == txn[q]
  <2>1. ProcInv(q) /\ (x.pc \in Working => x.t \in Tasks)
        /\ WithTask \subseteq Working \ {"post"} /\ "post" \in Working
    BY DEF TxnInv, ProcInv, Placed, WithTask, Working, ClientPCs, Recovering, Lapsing
  <2>2. x.pc \in WithTask => x.t # t
    BY <1>1, <2>1 DEF ProcInv, Placed
  <2>3. q \in Actors /\ x.pc = "post" => x.t # t
    BY DEF TxnInv, PostedOnce, At
  <2> HIDE DEF t
  <2>4. /\ UNCHANGED <<accepted, claims, granted, barrier>>
        /\ \A u \in Tasks \ {t} : task'[u] = task[u] /\ artState'[u] = artState[u]
    BY <1>1, <1>2 DEF Post, PostEffect, histVars, TxnInv, TxnTypeOK, TypeOK
  <2>5. x.pc \in WithArt => x.t # t
    BY <1>1, <2>1 DEF ProcInv, Placed, WithArt, Working, ClientPCs
  <2>6. x.pc \in WithArt => x.t \in Tasks
    BY <2>1 DEF WithArt, Working, ClientPCs
  <2> QED
    BY <2>1, <2>2, <2>3, <2>4, <2>5, <2>6 DEF Respects, ClaimsOf, ProcInv, Claiming
<1>4. Sequenced'
  BY <1>1, <1>2 DEF Post, PostEffect, histVars, TxnInv, TxnTypeOK, TypeOK, Sequenced
<1> QED
  BY <1>1, <1>2, <1>3, <1>4 DEF Sound, Next

\* claimTask.
LEMMA ClaimSound ==
  ASSUME TxnInv, NEW p \in Actors, At(p, "claim.insert"), topic # "closed",
         Free(p, ArtRow(txn[p].t)),
         GrantEffect(txn[p].t, p, txn[p].k, Lapsed(p)), fence' = fence
  PROVE  Sound(p)
<1> DEFINE t == txn[p].t
           k == txn[p].k
<1>1. p \in Procs /\ p \in Procs \cup {None} /\ ProcInv(p)
  BY DEF TxnInv, Procs
<1>2. t \in Tasks /\ task[t] \notin {"none", "completed"}
  BY <1>1 DEF ProcInv, Placed, Claiming, Working, ClientPCs, At
<1>3. k \in 1..fence /\ k \in Tokens /\ barrier[t] <= k /\ \A u \in Tasks : k \notin granted[u]
  <2>1. TxnTypeOK
    BY DEF TxnInv
  <2> QED
    BY <1>1, <2>1, TxnType DEF ProcInv, Claiming, At, Tokens
<1>4. Lapsed(p) = ClaimsOf(t)
  BY <1>1 DEF ProcInv, Claiming, At, Lapsed
<1>5. Free(p, TaskRow(t)) /\ \A c \in ClaimsOf(t) : Free(p, ClaimRow(c.token))
  BY <1>1, <1>4 DEF ProcInv, Locked, At, Free, WithTask
<1>6. \A c \in ClaimsOf(t) : c.token \in expired
  BY <1>1, <1>4 DEF ProcInv, DeadStay, Lapsed, ClaimsOf
<1>7. GrantEffect(t, p, k, ClaimsOf(t))
  BY <1>4
<1> HIDE DEF t, k
<1>8. Grant(t, p, k)
  <2>1. Topology[t] = "sequential" => \A d \in DependsOn[t] : task[d] = "completed"
    BY <1>1 DEF ProcInv, Claiming, At, t
  <2>2. task[t] \in {"posted", "claimed", "abandoned"}
    BY <1>2 DEF TxnInv, TxnTypeOK, TypeOK, TaskStatus
  <2> QED
    BY <1>3, <1>6, <1>7, <2>1, <2>2 DEF Grant
<1>9. /\ \A u \in Tasks \ {t} :
           /\ task'[u] = task[u] /\ barrier'[u] = barrier[u]
           /\ artState'[u] = artState[u] /\ accepted'[u] = accepted[u]
           /\ {c \in claims' : c.task = u} = ClaimsOf(u)
      /\ claims \ claims' \subseteq ClaimsOf(t)
      /\ \A u \in Tasks : \A j \in granted'[u] \ granted[u] : j = k
  BY <1>2, <1>7 DEF GrantEffect, TxnInv, TxnTypeOK, TypeOK, artVars, ClaimsOf
<1>10. \A q \in Procs \ {p} : Respects(q)
  <2>1. Free(p, ArtRow(t)) /\ k = txn[p].k
    BY DEF t, k
  <2> QED
    BY <1>1, <1>2, <1>5, <1>9, <2>1, Apart
<1>11. Sequenced'
  BY <1>2, <1>3, <1>7, TxnType DEF GrantEffect, TxnInv, TxnTypeOK, TypeOK, Sequenced
<1> QED
  BY <1>2, <1>3, <1>8, <1>10, <1>11 DEF Sound, Next

\* releaseTask.
LEMMA ReleaseSound ==
  ASSUME TxnInv, NEW p \in Actors, At(p, "release.claim"), topic # "closed",
         NEW c \in Live(p), Free(p, ClaimRow(c.token)), ReleaseEffect(c), fence' = fence
  PROVE  Sound(p)
<1> DEFINE t == c.task
<1>1. p \in Procs /\ p \in Procs \cup {None} /\ ProcInv(p) /\ IInv
  BY DEF TxnInv, TxnTypeOK, IInv, Procs
<1>2. c \in claims /\ t = txn[p].t /\ t \in Tasks /\ task[t] = "claimed"
  BY <1>1, ClaimFacts DEF Live, ClaimsOf
<1>3. Free(p, TaskRow(t))
  BY <1>1, <1>2 DEF ProcInv, Locked, At, Free, WithTask
<1>4. /\ \A u \in Tasks \ {t} : task'[u] = task[u] /\ {d \in claims' : d.task = u} = ClaimsOf(u)
      /\ claims \ claims' \subseteq {c}
      /\ UNCHANGED <<artState, accepted, barrier, granted>>
  BY <1>2 DEF ReleaseEffect, Delete, ClaimsOf, artVars, histVars, TxnInv, TxnTypeOK, TypeOK
<1>5. \A q \in Procs \ {p} : Respects(q)
  BY <1>1, <1>2, <1>3, <1>4, Apart
<1>6. Sequenced'
  BY <1>2, <1>4 DEF ReleaseEffect, TxnInv, TxnTypeOK, TypeOK, Sequenced
<1>7. Release(c)
  BY DEF Release
<1> QED
  BY <1>2, <1>5, <1>6, <1>7 DEF Sound, Next

\* completeTask.
LEMMA CompleteSound ==
  ASSUME TxnInv, NEW p \in Actors, At(p, "complete.artifact"), topic # "closed",
         artState[txn[p].t] \in WritableStates, Free(p, ArtRow(txn[p].t)),
         CompleteEffect(txn[p].t, txn[p].k), fence' = fence
  PROVE  Sound(p)
<1>1. p \in Procs /\ p \in Procs \cup {None} /\ ProcInv(p)
  BY DEF TxnInv, Procs
<1>2. PICK c \in claims :
             /\ c.task = txn[p].t /\ c.token = txn[p].k /\ c.task \in Tasks
             /\ ClaimsOf(c.task) = {c} /\ task[c.task] = "claimed"
             /\ Free(p, ClaimRow(c.token)) /\ c.token \in 1..fence
  BY <1>1, InHand DEF At, WithClaim
<1> DEFINE t == c.task
<1>3. Free(p, TaskRow(t))
  BY <1>1, <1>2 DEF ProcInv, Locked, At, Free, WithTask
<1>4. CompleteEffect(t, c.token)
  BY <1>2
<1>5. /\ \A u \in Tasks \ {t} :
           /\ task'[u] = task[u] /\ barrier'[u] = barrier[u]
           /\ artState'[u] = artState[u] /\ accepted'[u] = accepted[u]
           /\ {d \in claims' : d.task = u} = ClaimsOf(u)
      /\ claims \ claims' \subseteq {c} /\ granted' = granted
  BY <1>2, <1>4 DEF CompleteEffect, Delete, ClaimsOf, TxnInv, TxnTypeOK, TypeOK
<1>6. \A q \in Procs \ {p} : Respects(q)
  BY <1>1, <1>2, <1>3, <1>5, Apart
<1>7. Sequenced'
  BY <1>2, <1>4, TxnType DEF CompleteEffect, TxnInv, TxnTypeOK, TypeOK, Sequenced
<1>8. Complete(c)
  BY <1>2, <1>4 DEF Complete
<1> QED
  BY <1>2, <1>6, <1>7, <1>8 DEF Sound, Next

\* The row that a write or a baseline has locked, its claim and its number.
LEMMA ArtInHand ==
  ASSUME TxnInv, NEW p \in Actors, txn[p].pc \in WithArt
  PROVE  LET t == txn[p].t IN
         LET k == txn[p].k IN
         /\ t \in Tasks /\ k \in granted[t] /\ k \in Tokens /\ txn[p].n \in Numbers
         /\ barrier[t] <= k /\ accepted[t] <= txn[p].n
         /\ task[t] # "none" /\ Free(p, ArtRow(t))
         /\ artState[t] \in WritableStates
         /\ At(p, "baseline.commit") => artState[t] \in {"draft", "working"}
<1> DEFINE t == txn[p].t
           k == txn[p].k
<1>1. ProcInv(p) /\ txn[p].pc \in Working
  BY DEF TxnInv, Procs, WithArt, Working, ClientPCs
<1>2. t \in Tasks /\ k \in granted[t] /\ task[t] # "none"
  BY <1>1 DEF ProcInv, Placed, Writing, WithArt
<1>3. k \in Tokens
  BY <1>2 DEF TxnInv, TxnTypeOK, TypeOK
<1>4. Free(p, ArtRow(t))
  BY <1>1 DEF ProcInv, Locked, Free
<1>5. /\ txn[p].n \in Numbers
      /\ barrier[t] <= k /\ accepted[t] <= txn[p].n /\ artState[t] \in WritableStates
      /\ At(p, "baseline.commit") => artState[t] \in {"draft", "working"}
  BY <1>1 DEF ProcInv, Writing, At
<1> QED
  BY <1>2, <1>3, <1>4, <1>5

\* writeArtifact and baselineArtifact change one artifact row, which they hold.
LEMMA ArtApart ==
  ASSUME TxnInv, NEW p \in Actors, txn[p].pc \in WithArt, fence' = fence,
         \/ WriteEffect(txn[p].t, txn[p].k, txn[p].n)
         \/ BaselineEffect(txn[p].t, txn[p].k, txn[p].n)
  PROVE  Sequenced' /\ \A q \in Procs \ {p} : Respects(q)
<1> DEFINE t == txn[p].t
<1>1. t \in Tasks /\ task[t] # "none" /\ Free(p, ArtRow(t)) /\ p \in Procs \cup {None}
  BY ArtInHand DEF Procs
<1> HIDE DEF t
<1>2. /\ UNCHANGED <<task, claims, granted, barrier>>
      /\ \A u \in Tasks \ {t} : artState'[u] = artState[u] /\ accepted'[u] = accepted[u]
  BY <1>1 DEF WriteEffect, BaselineEffect, Accept, TxnInv, TxnTypeOK, TypeOK, t
<1>3. \A u \in Tasks : {c \in claims' : c.task = u} = ClaimsOf(u)
  BY <1>2 DEF ClaimsOf
<1>4. \A q \in Procs \ {p} : Respects(q)
  BY <1>1, <1>2, <1>3, Apart
<1>5. Sequenced'
  BY <1>2 DEF TxnInv, Sequenced
<1> QED
  BY <1>4, <1>5

\* writeArtifact.
LEMMA WriteSound ==
  ASSUME TxnInv, NEW p \in Actors, At(p, "write.commit"), topic # "closed",
         WriteEffect(txn[p].t, txn[p].k, txn[p].n), fence' = fence
  PROVE  Sound(p)
<1>1. txn[p].pc \in WithArt
  BY DEF At, WithArt
<1>2. /\ Write(txn[p].t, txn[p].k, txn[p].n)
      /\ txn[p].t \in Tasks /\ txn[p].k \in Tokens /\ txn[p].n \in Numbers
  BY <1>1, ArtInHand DEF Write
<1> QED
  BY <1>1, <1>2, ArtApart DEF Sound, Next

\* baselineArtifact.
LEMMA BaselineSound ==
  ASSUME TxnInv, NEW p \in Actors, At(p, "baseline.commit"), topic # "closed",
         BaselineEffect(txn[p].t, txn[p].k, txn[p].n), fence' = fence
  PROVE  Sound(p)
<1>1. txn[p].pc \in WithArt
  BY DEF At, WithArt
<1>2. /\ Baseline(txn[p].t, txn[p].k, txn[p].n)
      /\ txn[p].t \in Tasks /\ txn[p].k \in Tokens /\ txn[p].n \in Numbers
  BY <1>1, ArtInHand DEF Baseline
<1> QED
  BY <1>1, <1>2, ArtApart DEF Sound, Next

\* sweepAbandonedClaims.
LEMMA SweepSound ==
  ASSUME TxnInv, At(Sweeper, "sweep.artifact"), Free(Sweeper, ArtRow(txn[Sweeper].t)),
         NEW c \in Found(Sweeper),
         IF topic = "active" THEN RetireEffect(c) ELSE DropEffect(c),
         fence' = fence
  PROVE  Sound(Sweeper)
<1> DEFINE p == Sweeper
           t == c.task
<1>1. p \in Procs /\ p \in Procs \cup {None} /\ ProcInv(p)
  BY DEF TxnInv, Procs, System
<1>2. /\ c \in claims /\ t = txn[p].t /\ c.token = txn[p].k /\ t \in Tasks
      /\ ClaimsOf(t) = {c} /\ task[t] = "claimed"
      /\ Free(p, ClaimRow(c.token)) /\ c.token \in 1..fence /\ c.token \in expired
  BY <1>1, InHand DEF At, WithClaim, Recovering, Found
<1>3. Free(p, TaskRow(t)) /\ Free(p, ArtRow(t))
  BY <1>1, <1>2 DEF ProcInv, Locked, At, Free, WithTask
<1> HIDE DEF p
<1>4. /\ \A u \in Tasks \ {t} :
           /\ task'[u] = task[u] /\ barrier'[u] = barrier[u]
           /\ artState'[u] = artState[u] /\ accepted'[u] = accepted[u]
           /\ {d \in claims' : d.task = u} = ClaimsOf(u)
      /\ claims \ claims' \subseteq {c} /\ granted' = granted
  BY <1>2 DEF RetireEffect, DropEffect, Delete, ClaimsOf, artVars, TxnInv, TxnTypeOK, TypeOK
<1>5. \A q \in Procs \ {p} : Respects(q)
  BY <1>1, <1>2, <1>3, <1>4, Apart
<1>6. Sequenced'
  BY <1>2, <1>4, TxnType DEF RetireEffect, DropEffect, TxnInv, TxnTypeOK, TypeOK, Sequenced
<1>7. Retire(c) \/ Drop(c)
  BY <1>2 DEF Retire, Drop
<1> QED
  BY <1>2, <1>5, <1>6, <1>7 DEF Sound, Next, p

\* closeTopic Phase 2-A.
LEMMA DrainSound ==
  ASSUME TxnInv, NEW p \in System, At(p, "drain.task"), topic # "closed",
         Free(p, TaskRow(txn[p].t)),
         NEW c \in Found(p), ForceLapseEffect(c), fence' = fence
  PROVE  Sound(p)
<1> DEFINE t == c.task
<1>1. p \in Procs /\ p \in Procs \cup {None} /\ ProcInv(p)
  BY DEF TxnInv, Procs
<1>2. /\ c \in claims /\ t = txn[p].t /\ c.token = txn[p].k /\ t \in Tasks
      /\ ClaimsOf(t) = {c} /\ task[t] = "claimed" /\ Free(p, ClaimRow(c.token))
  BY <1>1, InHand DEF At, WithClaim, Found
<1>3. Free(p, TaskRow(t))
  BY <1>2
<1>4. /\ \A u \in Tasks \ {t} : task'[u] = task[u] /\ {d \in claims' : d.task = u} = ClaimsOf(u)
      /\ claims \ claims' \subseteq {c}
      /\ UNCHANGED <<artState, accepted, barrier, granted>>
  BY <1>2 DEF ForceLapseEffect, Delete, ClaimsOf, artVars, histVars, TxnInv, TxnTypeOK, TypeOK
<1>5. \A q \in Procs \ {p} : Respects(q)
  BY <1>1, <1>2, <1>3, <1>4, Apart
<1>6. Sequenced'
  BY <1>2, <1>4 DEF ForceLapseEffect, TxnInv, TxnTypeOK, TypeOK, Sequenced
<1>7. topic = "closing"
  BY <1>1 DEF ProcInv, Removing, Draining, Lapsing, At, TxnInv, TxnTypeOK, TypeOK, TopicStatus
<1>8. ForceLapse(c)
  BY <1>7 DEF ForceLapse
<1> QED
  BY <1>2, <1>5, <1>6, <1>8 DEF Sound, Next

\* closeTopic Phase 1 and Phase 3.
LEMMA TopicSound ==
  ASSUME TxnInv, NEW p \in Procs, NEW s \in {"closing", "closed"}, TopicEffect(s),
         s = "closing" => topic = "active",
         s = "closed" => topic # "closed" /\ At(p, "close.seal"), fence' = fence
  PROVE  Sound(p)
<1>1. UNCHANGED <<task, artState, accepted, claims, granted, barrier>>
  BY DEF TopicEffect, artVars, histVars
<1>2. Freeze \/ Seal
  BY DEF Freeze, Seal, TxnInv, TxnTypeOK, TypeOK, TopicStatus, ProcInv, Removing, Draining, At
<1>3. Sequenced'
  BY <1>1 DEF TxnInv, Sequenced
<1> QED
  BY <1>1, <1>2, <1>3, Aside DEF Sound, Next

\* A step that writes no row of the Board; it may draw a token.
LEMMA QuietSound ==
  ASSUME TxnInv, NEW p, UNCHANGED boardVars, fence' \in Nat, fence <= fence'
  PROVE  Sound(p)
<1>1. UNCHANGED <<task, artState, accepted, claims, granted, barrier>>
  BY DEF boardVars, artVars, histVars
<1>2. Sequenced'
  <2>1. /\ TxnTypeOK /\ fence \in Nat /\ 1..fence \subseteq 1..fence'
        /\ barrier \in [Tasks -> Nat]
    BY TxnType DEF TxnInv, TxnTypeOK, TypeOK
  <2> QED
    BY <1>1, <2>1 DEF TxnInv, Sequenced
<1> QED
  BY <1>1, <1>2, Aside DEF Sound

-----------------------------------------------------------------------------
(* One step of one process. *)

\* The invariant is kept, and the Board takes a step of its contract, or none.
Kept == TxnInv' /\ [Next]_boardVars

\* The invariant after a step of p, from what the step does to the Board, to the
\* locks of the others, and to p itself.
LEMMA Compose ==
  ASSUME TxnInv, NEW p \in Procs, Sound(p),
         NEW y \in Locals, txn' = [txn EXCEPT ![p] = y],
         lock' \in [Rows -> Procs \cup {None}],
         \A q \in Procs \ {p} : \A r \in Rows : lock[r] = q => lock'[r] = q,
         scan' \in [System -> SUBSET ClaimRows],
         fence' \in 0..MaxToken, fence <= fence', faults' \in 0..MaxFaults,
         ProcInv(p)', \A q \in System : ScanInv(q)', DrawnOnce', PostedOnce', Room'
  PROVE  Kept
<1>1. IInv /\ [Next]_boardVars
  BY DEF TxnInv, TxnTypeOK, IInv, Sound
<1>2. IInv' /\ Grows
  BY <1>1, NextInv, BoardGrows
<1>3. txn' \in [Procs -> Locals] /\ txn'[p] = y /\ \A q \in Procs \ {p} : txn'[q] = txn[q]
  BY DEF TxnInv, TxnTypeOK
<1>4. ASSUME NEW q \in Procs \ {p} PROVE ProcInv(q)'
  <2>1. Undisturbed(q)
    BY <1>3 DEF Undisturbed
  <2>2. Respects(q) /\ fence' \in Nat
    BY DEF Sound
  <2> QED
    BY <1>2, <2>1, <2>2, Frame
<1>5. TxnTypeOK'
  BY <1>2, <1>3 DEF TxnTypeOK, IInv
<1>6. Sequenced' /\ BoardInv'
  BY <1>2 DEF Sound, IInv
<1> QED
  BY <1>1, <1>4, <1>5, <1>6 DEF TxnInv, Kept

\* What a scan found stays claims of the past, expired if the sweep's.
LEMMA ScanKept ==
  ASSUME TxnInv, Grows, NEW q \in System, scan'[q] \subseteq scan[q],
         txn'[q].pc \in Recovering \cup {"sweep.next"} =>
             txn[q].pc \in Recovering \cup {"sweep.next"}
  PROVE  ScanInv(q)'
<1> SUFFICES ASSUME NEW c \in scan'[q]
             PROVE  /\ c.token \in granted'[c.task]
                    /\ txn'[q].pc \in Recovering \cup {"sweep.next"} =>
                          \A d \in claims' : d.token = c.token => d.token \in expired'
  BY DEF ScanInv
<1>1. c \in scan[q] /\ c.task \in Tasks /\ c.token \in granted[c.task]
  BY DEF TxnInv, TxnTypeOK, ScanInv, ClaimRows
<1>2. ASSUME txn[q].pc \in Recovering \cup {"sweep.next"}, NEW d \in claims', d.token = c.token
      PROVE  d.token \in expired'
  <2>1. d \in claims
    BY <1>1, <1>2 DEF Grows
  <2> QED
    BY <1>1, <1>2, <2>1 DEF TxnInv, ScanInv, Grows
<1> QED
  BY <1>1, <1>2 DEF Grows

\* Calls that may still draw a token are counted once.
CanDraw == {"claim.task", "claim.deps", "claim.lease"}

LEMMA RoomKept ==
  ASSUME TxnInv, fence' = fence, Drawing' \subseteq Drawing
  PROVE  Room'
<1>1. IsFiniteSet(Drawing) /\ fence + Cardinality(Drawing) <= MaxToken
  BY DEF TxnInv, Room
<1>2. /\ IsFiniteSet(Drawing') /\ Cardinality(Drawing') <= Cardinality(Drawing)
      /\ Cardinality(Drawing) \in Nat /\ Cardinality(Drawing') \in Nat
  BY <1>1, FS_Subset, FS_CardinalityType
<1>3. fence + Cardinality(Drawing') <= MaxToken
  <2>1. TxnTypeOK
    BY DEF TxnInv
  <2> QED
    BY <1>1, <1>2, <2>1, TxnType, MaxTokenAssumption DEF TxnTypeOK
<1> QED
  BY <1>2, <1>3 DEF Room

\* Steps that neither draw a token nor begin to.
LEMMA Undrawn ==
  ASSUME TxnInv, NEW p \in Procs, NEW y \in Locals, txn' = [txn EXCEPT ![p] = y],
         fence' = fence, y.pc \notin {"post", "claim.insert"},
         y.pc \in CanDraw => txn[p].pc \in CanDraw,
         p \in Actors => \/ y.t \in {txn[p].t, None}
                         \/ y.t \in Tasks /\ task[y.t] # "none"
  PROVE  DrawnOnce' /\ PostedOnce' /\ Room'
<1>1. txn'[p] = y /\ \A q \in Procs \ {p} : txn'[q] = txn[q]
  BY DEF TxnInv, TxnTypeOK
<1>2. DrawnOnce'
  BY <1>1 DEF TxnInv, DrawnOnce, At
<1>3. PostedOnce'
  <2> SUFFICES ASSUME NEW q \in Actors, NEW r \in Actors, txn'[q].pc = "post",
                      txn'[r].t = txn'[q].t
               PROVE  q = r
    BY DEF PostedOnce, At
  <2>1. q # p /\ txn[q].pc = "post" /\ txn'[r].t = txn[q].t
    BY <1>1 DEF Procs
  <2>2. txn[q].t \in Tasks /\ task[txn[q].t] = "none" /\ txn[q].t # None
    BY <2>1, NoneAssumption DEF TxnInv, ProcInv, Placed, Procs, Working, ClientPCs
  <2>3. txn[r].t = txn[q].t
    BY <1>1, <2>1, <2>2 DEF Procs
  <2> QED
    BY <2>1, <2>3 DEF TxnInv, PostedOnce, At
<1>4. Drawing' \subseteq Drawing
  BY <1>1 DEF Drawing, CanDraw, Procs
<1> QED
  BY <1>2, <1>3, <1>4, RoomKept

\* Where a process is between two transactions.
Between == {"idle", "sweep.next", "close.freeze", "drain.scan", "drain.next", "close.seal"}

\* COMMIT, ROLLBACK and crash: the locks go, and the process is between two
\* transactions.
LEMMA EndKeeps ==
  ASSUME TxnInv, NEW p \in Procs, NEW next \in Between, EndTxn(p, next), Sound(p),
         scan' \in [System -> SUBSET ClaimRows], \A q \in System : scan'[q] \subseteq scan[q],
         fence' = fence, faults' \in 0..MaxFaults,
         next \in Draining => topic' # "active",
         next = "sweep.next" => txn[p].pc \in Recovering \cup {"sweep.next"}
  PROVE  Kept
<1> DEFINE y == [Idle EXCEPT !.pc = next]
<1>1. /\ TxnTypeOK /\ IInv /\ MaxToken \in Nat /\ p \notin {None}
  BY MaxTokenAssumption, NoneAssumption DEF TxnInv, TxnTypeOK, IInv, Procs, System
<1>2. y.pc = next /\ y.t = None /\ y.k = 0 /\ y.dead = {}
  BY DEF Idle
<1>3. y \in Locals
  BY <1>1, MaxTokenAssumption DEF Locals, Idle, Between, SystemPCs
<1>4. txn' = [txn EXCEPT ![p] = y]
  BY DEF EndTxn
<1>5. txn'[p] = y
  BY <1>1, <1>4 DEF TxnTypeOK
<1>6. lock' \in [Rows -> Procs \cup {None}]
      /\ \A q \in Procs \ {p} : \A r \in Rows : lock[r] = q => lock'[r] = q
  BY <1>1 DEF EndTxn, ReleaseLocks, TxnTypeOK
<1> HIDE DEF y
<1>7. ProcInv(p)'
  <2>1. next \notin Working /\ next \notin WithTask /\ next \notin WithArt /\ next \notin WithClaim
        /\ next \notin Recovering \cup Lapsing
    BY DEF Between, Working, ClientPCs, Recovering, Lapsing, WithTask, WithArt, WithClaim
  <2>2. next \notin {"post", "write", "baseline", "claim.deps", "claim.lease", "claim.insert"}
    BY DEF Between
  <2> QED
    BY <1>2, <1>5, <2>1, <2>2
    DEF ProcInv, Placed, Locked, Claiming, Writing, Removing, DeadStay
<1>8. Grows
  BY <1>1, BoardGrows DEF Sound
<1>9. ASSUME NEW q \in System PROVE ScanInv(q)'
  <2>1. txn'[q] = IF q = p THEN y ELSE txn[q]
    BY <1>1, <1>4 DEF TxnTypeOK, Procs
  <2>2. txn'[q].pc \in Recovering \cup {"sweep.next"} =>
            txn[q].pc \in Recovering \cup {"sweep.next"}
    BY <1>2, <2>1 DEF Recovering, Between
  <2> QED
    BY <1>8, <2>2, ScanKept
<1>10. DrawnOnce' /\ PostedOnce' /\ Room'
  BY <1>2, <1>3, <1>4, Undrawn DEF Between, CanDraw
<1> QED
  <2>1. fence' \in 0..MaxToken /\ fence <= fence'
    BY <1>1 DEF TxnTypeOK
  <2> QED
    BY <1>3, <1>4, <1>6, <1>7, <1>9, <1>10, <2>1, Compose

LEMMA RollbackKeeps ==
  ASSUME TxnInv, NEW p \in Procs, NEW next \in Between, Rollback(p, next),
         next \in Draining => topic # "active",
         next = "sweep.next" => txn[p].pc \in Recovering \cup {"sweep.next"}
  PROVE  Kept
<1>1. TxnTypeOK /\ fence \in Nat
  BY TxnType DEF TxnInv
<1>2. UNCHANGED <<boardVars, scan, fence, faults>> /\ EndTxn(p, next) /\ topic' = topic
  BY DEF Rollback, boardVars
<1>3. Sound(p)
  BY <1>1, <1>2, QuietSound
<1> QED
  BY <1>1, <1>2, <1>3, EndKeeps DEF TxnTypeOK

LEMMA CommitKeeps ==
  ASSUME TxnInv, NEW p \in Procs, NEW next \in Between, Commit(p, next), Sound(p),
         next \in Draining => topic' # "active",
         next = "sweep.next" => txn[p].pc \in Recovering \cup {"sweep.next"}
  PROVE  Kept
<1>1. TxnTypeOK
  BY DEF TxnInv
<1>2. UNCHANGED <<scan, fence, faults>> /\ EndTxn(p, next)
  BY DEF Commit
<1> QED
  BY <1>1, <1>2, EndKeeps DEF TxnTypeOK

\* A step inside a transaction, or its BEGIN, that writes no row.
LEMMA MoveKeeps ==
  ASSUME TxnInv, NEW p \in Procs, NEW y \in Locals, txn' = [txn EXCEPT ![p] = y],
         UNCHANGED <<boardVars, fence, faults>>,
         lock' \in [Rows -> Procs \cup {None}],
         \A q \in Procs \ {p} : \A r \in Rows : lock[r] = q => lock'[r] = q,
         scan' \in [System -> SUBSET ClaimRows], \A q \in System : scan'[q] \subseteq scan[q],
         y.pc \in Recovering \cup {"sweep.next"} => txn[p].pc \in Recovering \cup {"sweep.next"},
         DrawnOnce', PostedOnce', Room', ProcInv(p)'
  PROVE  Kept
<1>1. TxnTypeOK /\ fence \in Nat /\ IInv
  BY TxnType DEF TxnInv, TxnTypeOK, IInv
<1>2. Sound(p)
  BY <1>1, QuietSound
<1>3. Grows
  BY <1>1, BoardGrows
<1>4. ASSUME NEW q \in System PROVE ScanInv(q)'
  <2>1. txn'[q] = IF q = p THEN y ELSE txn[q]
    BY <1>1 DEF TxnTypeOK, Procs
  <2> QED
    BY <1>3, <2>1, ScanKept
<1> QED
  <2>1. fence' \in 0..MaxToken /\ fence <= fence' /\ faults' \in 0..MaxFaults
    BY <1>1 DEF TxnTypeOK
  <2> QED
    BY <1>2, <1>4, <2>1, Compose

-----------------------------------------------------------------------------
(* Every action keeps the invariant and the contract. *)

\* The calls of the actors, at their COMMIT.
LEMMA CallCommits ==
  ASSUME TxnInv, NEW p \in Actors,
         \/ PostCommit(p) \/ ClaimCommit(p) \/ ReleaseCommit(p)
         \/ CompleteCommit(p) \/ WriteCommit(p) \/ BaselineCommit(p)
  PROVE  Kept
<1>1. p \in Procs /\ "idle" \in Between /\ "idle" \notin Draining
  BY DEF Procs, Between, Draining, Lapsing
<1>2. ASSUME Rollback(p, "idle") PROVE Kept
  BY <1>1, <1>2, RollbackKeeps
<1>3. ASSUME Commit(p, "idle"), Sound(p) PROVE Kept
  BY <1>1, <1>3, CommitKeeps
<1>4. Commit(p, "idle") => fence' = fence
  BY DEF Commit
<1>5. ASSUME PostCommit(p) PROVE Kept
  BY <1>2, <1>3, <1>4, <1>5, PostSound DEF PostCommit
<1>6. ASSUME ClaimCommit(p) PROVE Kept
  BY <1>2, <1>3, <1>4, <1>6, ClaimSound DEF ClaimCommit
<1>7. ASSUME ReleaseCommit(p) PROVE Kept
  BY <1>2, <1>3, <1>4, <1>7, ReleaseSound DEF ReleaseCommit
<1>8. ASSUME CompleteCommit(p) PROVE Kept
  BY <1>2, <1>3, <1>4, <1>8, CompleteSound DEF CompleteCommit
<1>9. ASSUME WriteCommit(p) PROVE Kept
  BY <1>2, <1>3, <1>4, <1>9, WriteSound DEF WriteCommit
<1>10. ASSUME BaselineCommit(p) PROVE Kept
  BY <1>2, <1>3, <1>4, <1>10, BaselineSound DEF BaselineCommit
<1> QED
  BY <1>5, <1>6, <1>7, <1>8, <1>9, <1>10

\* BEGIN, with the snapshot of what has expired by then.
LEMMA BeginKeeps ==
  ASSUME TxnInv, NEW p \in Procs, NEW pc, NEW t \in Tasks \cup {None}, NEW k \in 0..MaxToken,
         NEW n \in Numbers \cup {0}, pc \in {"write", "baseline"} => n \in Numbers,
         Begin(p, pc, t, k, n), pc \in {"idle"} \cup ClientPCs \cup SystemPCs,
         pc \notin WithTask \cup WithClaim \cup WithArt \cup Draining \cup Recovering
                       \cup {"sweep.next"},
         pc \in Working => t \in Tasks,
         pc \in Working \ {"post"} => task[t] # "none",
         pc = "post" => task[t] = "none",
         DrawnOnce', PostedOnce', Room'
  PROVE  Kept
<1> DEFINE dead == {c.token : c \in ClaimsOf(t)} \cap expired
           y == [pc |-> pc, t |-> t, k |-> k, n |-> n, dead |-> dead]
<1>1. /\ TxnTypeOK /\ TypeOK /\ UNCHANGED <<boardVars, scan, lock, fence, faults>>
      /\ txn' = [txn EXCEPT ![p] = y]
  BY DEF TxnInv, TxnTypeOK, Begin
<1>2. y \in Locals
  <2>1. dead \subseteq Tokens
    BY <1>1 DEF TypeOK
  <2> HIDE DEF dead
  <2> QED
    BY <2>1 DEF Locals
<1>3. txn'[p] = y /\ y.pc = pc /\ y.t = t /\ y.k = k /\ y.n = n /\ y.dead = dead
  BY <1>1 DEF TxnTypeOK
<1> HIDE DEF y
<1>4. DeadStay(p)'
  <2>1. UNCHANGED <<claims, expired, granted>>
    BY <1>1 DEF boardVars, histVars
  <2>2. ASSUME NEW j \in dead PROVE \E u \in Tasks : j \in granted[u]
    <3>1. PICK c \in claims : j = c.token
      BY DEF ClaimsOf
    <3> QED
      BY <3>1, ClaimFacts DEF TxnInv, TxnTypeOK, IInv, BoardInv, TokensInOrder
  <2>3. \A c \in claims : c.token \in dead => c.token \in expired
    OBVIOUS
  <2> HIDE DEF dead
  <2> QED
    BY <1>3, <2>1, <2>2, <2>3 DEF DeadStay
<1> HIDE DEF dead
<1>5. ProcInv(p)'
  <2>1. UNCHANGED task
    BY <1>1 DEF boardVars
  <2>2. pc \notin {"claim.deps", "claim.lease", "claim.insert"} /\ pc \notin Lapsing
    BY DEF WithTask, Draining
  <2> QED
    BY <1>3, <1>4, <2>1, <2>2
    DEF ProcInv, Placed, Locked, Claiming, Writing, Removing
<1> QED
  <2>1. lock' \in [Rows -> Procs \cup {None}] /\ scan' \in [System -> SUBSET ClaimRows]
        /\ (\A q \in System : scan'[q] \subseteq scan[q])
        /\ (\A q \in Procs \ {p} : \A r \in Rows : lock[r] = q => lock'[r] = q)
    BY <1>1 DEF TxnTypeOK
  <2> QED
    BY <1>1, <1>2, <1>3, <1>5, <2>1, MoveKeeps

\* The calls of the actors, at their BEGIN.
LEMMA StartKeeps ==
  ASSUME TxnInv, NEW p \in Actors, Start(p)
  PROVE  Kept
<1>1. p \in Procs /\ 0 \in 0..MaxToken /\ TxnTypeOK /\ fence \in Nat
  BY MaxTokenAssumption, TxnType DEF Procs, TxnInv
<1>2. \A r : txn' = [txn EXCEPT ![p] = r] =>
          txn'[p] = r /\ \A q \in Procs \ {p} : txn'[q] = txn[q]
  BY <1>1 DEF TxnTypeOK
<1>3. PICK t \in Tasks :
        \/ PostCheck(p, t)
        \/ BeginClaim(p, t)
        \/ BeginRelease(p, t)
        \/ BeginComplete(p, t)
        \/ BeginWrite(p, t, "write")
        \/ BeginWrite(p, t, "baseline")
  BY DEF Start
<1>4. ASSUME NEW pc \in {"release.task", "complete.task", "write", "baseline"},
             NEW k \in 0..MaxToken, NEW n \in Numbers \cup {0},
             pc \in {"write", "baseline"} => n \in Numbers,
             task[t] # "none", Begin(p, pc, t, k, n)
      PROVE  Kept
  <2> DEFINE y == [pc |-> pc, t |-> t, k |-> k, n |-> n,
                   dead |-> {c.token : c \in ClaimsOf(t)} \cap expired]
  <2>1. txn' = [txn EXCEPT ![p] = y] /\ y.pc = pc /\ y.t = t /\ fence' = fence /\ y \in Locals
    <3>1. expired \subseteq Tokens
      BY <1>1 DEF TxnTypeOK, TypeOK
    <3> QED
      BY <1>4, <3>1 DEF Begin, Locals, ClientPCs
  <2> HIDE DEF y
  <2>2. DrawnOnce' /\ PostedOnce' /\ Room'
    BY <1>1, <1>4, <2>1, Undrawn DEF CanDraw
  <2> QED
    BY <1>1, <1>4, <2>2, BeginKeeps
    DEF ClientPCs, WithTask, WithClaim, WithArt, Draining, Lapsing, Recovering
<1>5. ASSUME BeginClaim(p, t) PROVE Kept
  <2> DEFINE y == [pc |-> "claim.task", t |-> t, k |-> 0, n |-> 0,
                   dead |-> {c.token : c \in ClaimsOf(t)} \cap expired]
  <2>1. txn' = [txn EXCEPT ![p] = y] /\ y.pc = "claim.task" /\ y.t = t /\ fence' = fence
        /\ At(p, "idle") /\ task[t] # "none" /\ fence + Cardinality(Drawing) < MaxToken
    BY <1>5 DEF Begin, BeginClaim
  <2> HIDE DEF y
  <2>2. DrawnOnce'
    BY <1>2, <2>1 DEF TxnInv, DrawnOnce, At
  <2>3. PostedOnce'
    <3>1. \A q \in Actors : At(q, "post") => txn[q].t # t
      BY <2>1 DEF TxnInv, ProcInv, Placed, Procs, Working, ClientPCs, At
    <3> QED
      BY <1>1, <1>2, <2>1, <3>1 DEF TxnInv, PostedOnce, At, Procs
  <2>4. Room'
    <3>1. IsFiniteSet(Drawing) /\ Cardinality(Drawing) \in Nat
      BY FS_CardinalityType DEF TxnInv, Room
    <3>2. Drawing' = Drawing \cup {p} /\ p \notin Drawing
      BY <1>2, <2>1 DEF Drawing, At, Procs
    <3>3. IsFiniteSet(Drawing') /\ Cardinality(Drawing') = Cardinality(Drawing) + 1
      BY <3>1, <3>2, FS_AddElement
    <3> QED
      BY <1>1, <2>1, <3>1, <3>3, MaxTokenAssumption DEF Room
  <2> QED
    BY <1>1, <1>5, <2>1, <2>2, <2>3, <2>4, BeginKeeps
    DEF BeginClaim, ClientPCs, WithTask, WithClaim, WithArt, Draining, Lapsing, Recovering
<1>6. ASSUME PostCheck(p, t) PROVE Kept
  <2> DEFINE y == [pc |-> "post", t |-> t, k |-> 0, n |-> 0,
                   dead |-> {c.token : c \in ClaimsOf(t)} \cap expired]
  <2>1. txn' = [txn EXCEPT ![p] = y] /\ y.pc = "post" /\ y.t = t /\ fence' = fence
        /\ task[t] = "none" /\ \A q \in Actors \ {p} : txn[q].t # t
    BY <1>6 DEF Begin, PostCheck
  <2> HIDE DEF y
  <2>2. DrawnOnce'
    BY <1>2, <2>1 DEF TxnInv, DrawnOnce, At
  <2>3. PostedOnce'
    BY <1>1, <1>2, <2>1 DEF TxnInv, PostedOnce, At, Procs
  <2>4. Drawing' \subseteq Drawing
    BY <1>2, <2>1 DEF Drawing, Procs
  <2> QED
    BY <1>1, <1>6, <2>1, <2>2, <2>3, <2>4, BeginKeeps, RoomKept
    DEF PostCheck, ClientPCs, WithTask, WithClaim, WithArt, Draining, Lapsing, Recovering
<1>7. ASSUME NEW op \in {"write", "baseline"}, BeginWrite(p, t, op) PROVE Kept
  <2>1. PICK k \in granted[t], n \in Numbers : Begin(p, op, t, k, n)
    BY <1>7 DEF BeginWrite
  <2>2. k \in 0..MaxToken /\ task[t] # "none"
    BY <1>1, MaxTokenAssumption DEF TxnTypeOK, TypeOK, TxnInv, Sequenced, Tokens
  <2> QED
    BY <1>4, <2>1, <2>2
<1> QED
  BY <1>1, <1>3, <1>4, <1>5, <1>6, <1>7 DEF BeginRelease, BeginComplete

\* closeTopic is called.
LEMMA BeginCloseKeeps ==
  ASSUME TxnInv, BeginClose
  PROVE  Kept
<1> DEFINE y == [pc |-> "close.freeze", t |-> None, k |-> 0, n |-> 0,
                 dead |-> {c.token : c \in ClaimsOf(None)} \cap expired]
<1>1. /\ TxnTypeOK /\ Closer \in Procs /\ Closer \notin Actors /\ 0 \in 0..MaxToken
      /\ Begin(Closer, "close.freeze", None, 0, 0) /\ fence' = fence
      /\ txn' = [txn EXCEPT ![Closer] = y]
  BY MaxTokenAssumption, ProcAssumption DEF TxnInv, Procs, System, BeginClose, Begin
<1>2. y \in Locals /\ y.pc = "close.freeze"
  BY <1>1 DEF Locals, SystemPCs, TxnTypeOK, TypeOK
<1> HIDE DEF y
<1>3. DrawnOnce' /\ PostedOnce' /\ Room'
  BY <1>1, <1>2, Undrawn DEF CanDraw
<1> QED
  BY <1>1, <1>3, BeginKeeps
  DEF ClientPCs, SystemPCs, Working, WithTask, WithClaim, WithArt, Draining, Lapsing, Recovering

\* A statement inside a transaction: it takes at most one lock.
LEMMA AdvanceKeeps ==
  ASSUME TxnInv, NEW p \in Procs, NEW y \in Locals, txn' = [txn EXCEPT ![p] = y],
         y.t = txn[p].t, y.dead = txn[p].dead,
         y.pc \in Working \ {"post", "claim.insert"}, txn[p].pc \in Working \ {"post"},
         y.pc \in CanDraw => txn[p].pc \in CanDraw,
         y.pc \in Recovering => txn[p].pc \in Recovering,
         UNCHANGED <<boardVars, scan, fence, faults>>,
         NEW r, lock' = lock \/ Acquire(p, r),
         Locked(p)', Claiming(p)', Writing(p)', Removing(p)'
  PROVE  Kept
<1>1. TxnTypeOK /\ ProcInv(p) /\ txn'[p] = y
  BY DEF TxnInv, TxnTypeOK
<1>2. ProcInv(p)'
  <2>1. UNCHANGED <<task, claims, expired, granted>>
    BY DEF boardVars, histVars
  <2>2. Placed(p)' /\ DeadStay(p)'
    BY <1>1, <2>1 DEF ProcInv, Placed, DeadStay
  <2> QED
    BY <2>2 DEF ProcInv
<1>3. lock' \in [Rows -> Procs \cup {None}]
      /\ \A q \in Procs \ {p} : \A s \in Rows : lock[s] = q => lock'[s] = q
  BY <1>1, NoneAssumption DEF TxnTypeOK, Acquire, Free, Procs, System
<1>4. DrawnOnce' /\ PostedOnce' /\ Room'
  BY Undrawn
<1>5. y.pc # "sweep.next"
  BY DEF Working, ClientPCs, Recovering, Lapsing
<1> QED
  BY <1>1, <1>2, <1>3, <1>4, <1>5, MoveKeeps DEF TxnTypeOK

\* Its place after Step, and what a lock taken on the way leaves.
LEMMA StepFacts ==
  ASSUME TxnInv, NEW p \in Procs, NEW pc \in ClientPCs \cup SystemPCs, Step(p, pc)
  PROVE  \E y \in Locals :
            /\ txn' = [txn EXCEPT ![p] = y] /\ txn'[p] = y
            /\ y.pc = pc /\ y.t = txn[p].t /\ y.k = txn[p].k /\ y.n = txn[p].n
            /\ y.dead = txn[p].dead
<1> DEFINE y == [txn[p] EXCEPT !.pc = pc]
<1>1. txn \in [Procs -> Locals] /\ txn[p] \in Locals
  BY DEF TxnInv, TxnTypeOK
<1>2. y \in Locals /\ y.pc = pc /\ y.t = txn[p].t /\ y.k = txn[p].k /\ y.n = txn[p].n
            /\ y.dead = txn[p].dead
  BY <1>1 DEF Locals
<1>3. txn' = [txn EXCEPT ![p] = y]
  BY DEF Step, Goto
<1> QED
  BY <1>1, <1>2, <1>3

\* A lock that was asked for is held.
LEMMA LockFacts ==
  ASSUME TxnInv, NEW p \in Procs, NEW r \in Rows, Acquire(p, r)
  PROVE  lock'[r] = p /\ \A s \in Rows : lock[s] = p => lock'[s] = p
  BY DEF Acquire, TxnInv, TxnTypeOK

\* The first statements of claimTask, releaseTask and completeTask: the task row.
LEMMA TaskSteps ==
  ASSUME TxnInv, NEW p \in Actors, ClaimTask(p) \/ ReleaseTask(p) \/ CompleteTask(p)
  PROVE  Kept
<1> DEFINE x == txn[p]
           t == x.t
<1>1. p \in Procs /\ "idle" \in Between /\ "idle" \notin Draining /\ TxnTypeOK /\ ProcInv(p)
  BY DEF Procs, Between, Draining, Lapsing, TxnInv
<1>2. x.pc \in {"claim.task", "release.task", "complete.task"}
  BY DEF ClaimTask, ReleaseTask, CompleteTask, At
<1>3. t \in Tasks /\ task[t] # "none"
  BY <1>1, <1>2 DEF ProcInv, Placed, Working, ClientPCs
<1>4. CASE Rollback(p, "idle")
  BY <1>1, <1>4, RollbackKeeps
<1>5. ASSUME NEW pc \in {"claim.deps", "claim.lease", "release.claim", "complete.claim"},
             Acquire(p, TaskRow(t)), Step(p, pc),
             pc \in CanDraw => x.pc \in CanDraw,
             pc \in CanDraw => task[t] # "completed",
             pc = "claim.lease" => DependsOn[t] = {}
      PROVE  Kept
  <2>1. pc \in ClientPCs
    BY DEF ClientPCs
  <2>2. PICK y \in Locals :
          /\ txn' = [txn EXCEPT ![p] = y] /\ txn'[p] = y
          /\ y.pc = pc /\ y.t = x.t /\ y.k = x.k /\ y.dead = x.dead
    BY <1>1, <1>5, <2>1, StepFacts
  <2>3. UNCHANGED <<boardVars, scan, fence, faults>> /\ UNCHANGED task
    BY <1>5 DEF Step, boardVars
  <2>4. lock'[TaskRow(t)] = p
    BY <1>1, <1>3, <1>5, TxnType, LockFacts
  <2>5. Locked(p)' /\ Claiming(p)' /\ Writing(p)' /\ Removing(p)'
    <3>1. Locked(p)'
      BY <2>2, <2>4 DEF Locked, WithClaim, WithArt
    <3>2. Claiming(p)'
      BY <1>5, <2>2, <2>3 DEF Claiming, CanDraw
    <3>3. Writing(p)' /\ Removing(p)'
      BY <2>2 DEF Writing, Removing, WithArt, WithClaim, Recovering, Draining, Lapsing
    <3> QED
      BY <3>1, <3>2, <3>3
  <2>6. pc \in Working \ {"post", "claim.insert"} /\ x.pc \in Working \ {"post"}
        /\ pc \notin Recovering
    BY <1>2, <2>1 DEF Working, ClientPCs, Recovering
  <2> QED
    BY <1>1, <1>5, <2>2, <2>3, <2>5, <2>6, AdvanceKeeps
<1>6. CASE ClaimTask(p)
  BY <1>4, <1>5, <1>6 DEF ClaimTask, At, CanDraw
<1>7. CASE ReleaseTask(p)
  BY <1>4, <1>5, <1>7 DEF ReleaseTask, CanDraw
<1>8. CASE CompleteTask(p)
  BY <1>4, <1>5, <1>8 DEF CompleteTask, CanDraw
<1> QED
  BY <1>6, <1>7, <1>8

\* claimTask's topology check.
LEMMA DepsKeeps ==
  ASSUME TxnInv, NEW p \in Actors, ClaimDeps(p)
  PROVE  Kept
<1> DEFINE x == txn[p]
           t == x.t
<1>1. p \in Procs /\ "idle" \in Between /\ "idle" \notin Draining /\ ProcInv(p)
      /\ x.pc = "claim.deps"
  BY DEF Procs, Between, Draining, Lapsing, TxnInv, ClaimDeps, At
<1>2. CASE Rollback(p, "idle")
  BY <1>1, <1>2, RollbackKeeps
<1>3. CASE DepsMet(t) /\ Step(p, "claim.lease") /\ UNCHANGED lock
  <2>1. PICK y \in Locals :
          /\ txn' = [txn EXCEPT ![p] = y] /\ txn'[p] = y
          /\ y.pc = "claim.lease" /\ y.t = t /\ y.k = x.k /\ y.dead = x.dead
    BY <1>1, <1>3, StepFacts DEF ClientPCs
  <2>2. UNCHANGED <<boardVars, scan, fence, faults, lock>> /\ UNCHANGED task
    BY <1>3 DEF Step, boardVars
  <2>3. Locked(p)'
    BY <1>1, <2>1, <2>2 DEF ProcInv, Locked, WithTask, WithClaim, WithArt
  <2>4. Claiming(p)'
    BY <1>1, <1>3, <2>1, <2>2 DEF ProcInv, Claiming, DepsMet
  <2>5. Writing(p)' /\ Removing(p)'
    BY <2>1 DEF Writing, Removing, WithArt, WithClaim, Recovering, Draining, Lapsing
  <2>6. y.pc \in Working \ {"post", "claim.insert"} /\ x.pc \in Working \ {"post"}
        /\ y.pc \notin Recovering /\ x.pc \in CanDraw
    BY <1>1, <2>1 DEF Working, ClientPCs, Recovering, CanDraw
  <2> QED
    BY <1>1, <2>1, <2>2, <2>3, <2>4, <2>5, <2>6, AdvanceKeeps
<1> QED
  BY <1>2, <1>3 DEF ClaimDeps

\* completeTask finds the caller's live claim and locks its row.
LEMMA CompleteClaimKeeps ==
  ASSUME TxnInv, NEW p \in Actors, CompleteClaim(p)
  PROVE  Kept
<1> DEFINE x == txn[p]
           t == x.t
<1>1. p \in Procs /\ "idle" \in Between /\ "idle" \notin Draining /\ ProcInv(p)
      /\ x.pc = "complete.claim" /\ TxnTypeOK /\ x \in Locals
  BY DEF Procs, Between, Draining, Lapsing, TxnInv, TxnTypeOK, CompleteClaim, At
<1>2. CASE Rollback(p, "idle")
  BY <1>1, <1>2, RollbackKeeps
<1>3. ASSUME NEW c \in Live(p), Acquire(p, ClaimRow(c.token)),
             txn' = [txn EXCEPT ![p].pc = "complete.artifact", ![p].k = c.token],
             UNCHANGED <<boardVars, scan, fence, faults>>
      PROVE  Kept
  <2>1. c \in claims /\ c.task = t /\ c.token \in Tokens /\ ClaimRow(c.token) \in Rows
    BY <1>1, ClaimType, TxnType DEF Live, ClaimsOf, TxnTypeOK
  <2> DEFINE y == [x EXCEPT !.pc = "complete.artifact", !.k = c.token]
  <2>2. y \in Locals /\ y.pc = "complete.artifact" /\ y.t = t /\ y.k = c.token /\ y.dead = x.dead
    <3>1. c.token \in 0..MaxToken
      BY <2>1, MaxTokenAssumption DEF Tokens
    <3> QED
      BY <1>1, <3>1 DEF Locals, ClientPCs
  <2>3. txn' = [txn EXCEPT ![p] = y] /\ txn'[p] = y
    BY <1>1, <1>3 DEF TxnTypeOK
  <2> HIDE DEF y
  <2>4. lock'[ClaimRow(c.token)] = p /\ lock'[TaskRow(t)] = p
    <3>1. t \in Tasks /\ lock[TaskRow(t)] = p /\ TaskRow(t) \in Rows
      BY <1>1, TxnType DEF ProcInv, Placed, Locked, WithTask, Working, ClientPCs
    <3> QED
      BY <1>1, <1>3, <2>1, <3>1, LockFacts
  <2>5. Locked(p)'
    BY <2>2, <2>3, <2>4 DEF Locked, WithArt
  <2>6. Claiming(p)' /\ Writing(p)'
    BY <2>2, <2>3 DEF Claiming, Writing, WithArt
  <2>7. Removing(p)'
    <3>1. c \in claims'
      BY <1>3, <2>1 DEF boardVars
    <3> QED
      BY <2>1, <2>2, <2>3, <3>1 DEF Removing, Recovering, Lapsing, Draining
  <2>8. y.pc \in Working \ {"post", "claim.insert"} /\ x.pc \in Working \ {"post"}
        /\ y.pc \notin Recovering /\ y.pc \notin CanDraw
    BY <1>1, <2>2 DEF Working, ClientPCs, Recovering, CanDraw
  <2> QED
    BY <1>1, <1>3, <2>2, <2>3, <2>5, <2>6, <2>7, <2>8, AdvanceKeeps
<1> QED
  BY <1>2, <1>3 DEF CompleteClaim

\* The guarded UPDATE of writeArtifact and baselineArtifact.
LEMMA GuardKeeps ==
  ASSUME TxnInv, NEW p \in Actors,
         \/ WriteGuard(p, "write", WritableStates, "write.commit")
         \/ WriteGuard(p, "baseline", {"draft", "working"}, "baseline.commit")
  PROVE  Kept
<1> DEFINE x == txn[p]
           t == x.t
<1>1. p \in Procs /\ "idle" \in Between /\ "idle" \notin Draining /\ ProcInv(p)
      /\ x.pc \in {"write", "baseline"} /\ TxnTypeOK /\ IInv
  BY DEF Procs, Between, Draining, Lapsing, TxnInv, TxnTypeOK, IInv, WriteGuard, At
<1>2. CASE Rollback(p, "idle")
  BY <1>1, <1>2, RollbackKeeps
<1>3. ASSUME NEW states \in SUBSET WritableStates, NEW next \in WithArt,
             next = "baseline.commit" => states = {"draft", "working"},
             Accepts(p, states), Acquire(p, ArtRow(t)), Step(p, next)
      PROVE  Kept
  <2>1. PICK y \in Locals :
          /\ txn' = [txn EXCEPT ![p] = y] /\ txn'[p] = y
          /\ y.pc = next /\ y.t = t /\ y.k = x.k /\ y.n = x.n /\ y.dead = x.dead
    BY <1>1, <1>3, StepFacts DEF ClientPCs, WithArt
  <2>2. UNCHANGED <<boardVars, scan, fence, faults>>
        /\ UNCHANGED <<granted, barrier, accepted, artState>>
    BY <1>3 DEF Step, boardVars, artVars, histVars
  <2>3. PICK c \in claims : c.task = t /\ c.token = x.k
    BY <1>3 DEF Accepts, Live, ClaimsOf
  <2>4. t \in Tasks /\ x.k \in granted[t] /\ barrier[t] = x.k /\ x.k \in Nat
    BY <1>1, <2>3, ClaimFacts DEF IInv, BoardInv, TokensInOrder
  <2>5. Locked(p)'
    <3>1. lock'[ArtRow(t)] = p
      BY <1>1, <1>3, <2>4, TxnType, LockFacts
    <3> QED
      BY <2>1, <3>1 DEF Locked, WithTask, WithClaim, WithArt
  <2>6. Writing(p)'
    <3>1. artState[t] \in states /\ accepted[t] <= x.n /\ barrier[t] <= x.k /\ x.n \in Numbers
      BY <1>1, <1>3, <2>4 DEF Accepts, ProcInv, Writing
    <3>2. x.k \in granted'[t] /\ barrier'[t] <= x.k /\ accepted'[t] <= x.n
          /\ artState'[t] \in states
      BY <2>2, <2>4, <3>1
    <3> QED
      BY <1>3, <2>1, <3>1, <3>2 DEF Writing
  <2>7. Claiming(p)' /\ Removing(p)'
    BY <2>1 DEF Claiming, Removing, WithArt, WithClaim, Recovering, Draining, Lapsing
  <2>8. y.pc \in Working \ {"post", "claim.insert"} /\ x.pc \in Working \ {"post"}
        /\ y.pc \notin Recovering /\ y.pc \notin CanDraw
    BY <1>1, <2>1 DEF Working, ClientPCs, Recovering, CanDraw, WithArt
  <2> QED
    BY <1>1, <1>3, <2>1, <2>2, <2>5, <2>6, <2>7, <2>8, AdvanceKeeps
<1>4. {"draft", "working"} \subseteq WritableStates /\ WithArt = {"write.commit", "baseline.commit"}
  BY DEF WritableStates, WithArt
<1> QED
  BY <1>2, <1>3, <1>4 DEF WriteGuard

\* claimTask deletes the lapsed claims and draws its token.
LEMMA LeaseKeeps ==
  ASSUME TxnInv, NEW p \in Actors, ClaimLease(p)
  PROVE  Kept
<1> DEFINE x == txn[p]
           t == x.t
           y == [x EXCEPT !.pc = "claim.insert", !.k = fence + 1]
<1>1. /\ p \in Procs /\ "idle" \in Between /\ "idle" \notin Draining /\ ProcInv(p)
      /\ x.pc = "claim.lease" /\ TxnTypeOK /\ IInv /\ x \in Locals
      /\ fence \in Nat /\ MaxToken \in Nat
  BY TxnType DEF Procs, Between, Draining, Lapsing, TxnInv, TxnTypeOK, IInv, ClaimLease, At
<1>2. CASE Rollback(p, "idle")
  BY <1>1, <1>2, RollbackKeeps
<1>3. CASE ~Rollback(p, "idle")
  <2>1. /\ Live(p) = {} /\ \A c \in Lapsed(p) : Free(p, ClaimRow(c.token))
        /\ lock' = [r \in Rows |-> IF r \in {ClaimRow(c.token) : c \in Lapsed(p)} THEN p
                                   ELSE lock[r]]
        /\ fence' = fence + 1
        /\ txn' = [txn EXCEPT ![p].pc = "claim.insert", ![p].k = fence + 1]
        /\ UNCHANGED <<boardVars, scan, faults>>
    BY <1>3 DEF ClaimLease
  <2>2. UNCHANGED <<task, claims, expired, granted, barrier>>
    BY <2>1 DEF boardVars, histVars
  <2>3. t \in Tasks
    BY <1>1 DEF ProcInv, Placed, Working, ClientPCs
  <2>4. p \in Drawing /\ IsFiniteSet(Drawing) /\ fence + Cardinality(Drawing) <= MaxToken
    BY <1>1 DEF Drawing, TxnInv, Room
  <2>5. /\ IsFiniteSet(Drawing \ {p}) /\ Cardinality(Drawing) \in Nat
        /\ Cardinality(Drawing \ {p}) = Cardinality(Drawing) - 1
        /\ Cardinality(Drawing \ {p}) \in Nat
    BY <2>4, FS_RemoveElement, FS_CardinalityType
  <2>6. fence' \in 0..MaxToken /\ fence' \in 1..fence' /\ fence <= fence'
    BY <1>1, <2>1, <2>4, <2>5
  <2>7. y \in Locals /\ y.pc = "claim.insert" /\ y.t = t /\ y.k = fence' /\ y.dead = x.dead
    BY <1>1, <2>1, <2>6 DEF Locals, ClientPCs
  <2>8. txn' = [txn EXCEPT ![p] = y] /\ txn'[p] = y /\ \A q \in Procs \ {p} : txn'[q] = txn[q]
    BY <1>1, <2>1 DEF TxnTypeOK
  <2> HIDE DEF y
  <2>9. DrawnOnce'
    <3>1. \A q \in Procs : At(q, "claim.insert") => txn[q].k \in 1..fence
      BY DEF TxnInv, ProcInv, Claiming, At
    <3>2. \A q \in Procs \ {p} : At(q, "claim.insert") => txn[q].k # fence'
      BY <1>1, <2>1, <3>1
    <3> QED
      BY <2>7, <2>8, <3>2 DEF TxnInv, DrawnOnce, At
  <2>10. PostedOnce'
    BY <1>1, <2>7, <2>8 DEF TxnInv, PostedOnce, At, Procs
  <2>11. Room'
    <3>1. Drawing' = Drawing \ {p}
      BY <2>7, <2>8 DEF Drawing, Procs
    <3> QED
      BY <1>1, <2>1, <2>4, <2>5, <3>1 DEF Room
  <2>12. lock' \in [Rows -> Procs \cup {None}]
         /\ (\A q \in Procs \ {p} : \A r \in Rows : lock[r] = q => lock'[r] = q)
         /\ (\A r \in Rows : lock[r] = p => lock'[r] = p)
    <3>1. \A q \in Procs : q # None
      BY NoneAssumption DEF Procs, System
    <3> QED
      BY <1>1, <2>1, <3>1 DEF TxnTypeOK, Free
  <2>13. Lapsed(p)' = Lapsed(p) /\ ClaimsOf(t) \subseteq Lapsed(p)
         /\ \A c \in Lapsed(p) : c.token \in Tokens
    BY <1>1, <2>1, <2>2, <2>7, <2>8, ClaimFacts DEF Live, Lapsed, ClaimsOf
  <2>14. ProcInv(p)'
    <3>1. Placed(p)' /\ DeadStay(p)'
      BY <1>1, <2>2, <2>7, <2>8 DEF ProcInv, Placed, DeadStay, Working, ClientPCs
    <3>2. Locked(p)'
      <4>1. lock'[TaskRow(t)] = p
        BY <1>1, <2>3, <2>12, TxnType DEF ProcInv, Locked, WithTask
      <4>2. \A c \in Lapsed(p) : lock'[ClaimRow(c.token)] = p
        BY <1>1, <2>1, <2>13, TxnType
      <4> QED
        BY <2>7, <2>8, <2>13, <4>1, <4>2 DEF Locked, WithClaim, WithArt
    <3>3. Claiming(p)'
      <4>1. barrier[t] <= fence' /\ \A u \in Tasks : fence' \notin granted[u]
        BY <1>1, <2>1, <2>3 DEF TxnInv, Sequenced
      <4>2. {c \in claims' : c.task = t} \subseteq Lapsed(p)'
        BY <2>2, <2>13 DEF ClaimsOf
      <4> QED
        BY <1>1, <2>2, <2>6, <2>7, <2>8, <4>1, <4>2 DEF ProcInv, Claiming, ClaimsOf
    <3>4. Writing(p)' /\ Removing(p)'
      BY <2>7, <2>8 DEF Writing, Removing, WithArt, WithClaim, Recovering, Draining, Lapsing
    <3> QED
      BY <3>1, <3>2, <3>3, <3>4 DEF ProcInv
  <2>15. Sound(p)
    BY <1>1, <2>1, <2>6, QuietSound
  <2>16. \A q \in System : ScanInv(q)'
    <3>1. Grows
      BY <1>1, <2>1, BoardGrows
    <3>2. \A q \in System : q # p
      BY ProcAssumption DEF System
    <3> QED
      BY <2>1, <2>8, <3>1, <3>2, ScanKept DEF Procs
  <2> QED
    BY <1>1, <2>1, <2>6, <2>7, <2>8, <2>9, <2>10, <2>11, <2>12, <2>14, <2>15, <2>16, Compose
    DEF TxnTypeOK
<1> QED
  BY <1>2, <1>3

\* The claim a sweep or drain transaction looks for is one of its task.
LEMMA FoundFacts ==
  ASSUME TxnInv, NEW p \in Procs, txn[p].pc \in Recovering \cup Lapsing
  PROVE  /\ txn[p].t \in Tasks /\ txn[p].k \in Tokens /\ task[txn[p].t] # "none"
         /\ \A c \in Found(p) : c \in claims /\ c.task = txn[p].t /\ c.token = txn[p].k
<1>1. ProcInv(p) /\ TypeOK /\ IInv /\ txn[p].pc \in Working \ {"post"}
  BY DEF TxnInv, TxnTypeOK, IInv, Working, Recovering, Lapsing
<1>2. txn[p].t \in Tasks /\ txn[p].k \in granted[txn[p].t] /\ task[txn[p].t] # "none"
  BY <1>1 DEF ProcInv, Placed, Removing
<1>3. txn[p].k \in Tokens
  BY <1>1, <1>2 DEF TypeOK
<1>4. ASSUME NEW c \in Found(p)
      PROVE  c \in claims /\ c.task = txn[p].t /\ c.token = txn[p].k
  <2>1. c \in claims /\ c.token = txn[p].k
    BY DEF Found
  <2>2. c.task \in Tasks /\ c.token \in granted[c.task]
    BY <1>1, <2>1, ClaimFacts DEF IInv, BoardInv, TokensInOrder
  <2> QED
    BY <1>1, <1>2, <2>1, <2>2 DEF IInv, BoardInv, TokensInOrder
<1> QED
  BY <1>2, <1>3, <1>4

\* BEGIN for a claim of the scan.
LEMMA PickKeeps ==
  ASSUME TxnInv, NEW p \in System, NEW from, NEW to, Pick(p, from, to),
         \/ from = "sweep.next" /\ to = "sweep.task"
         \/ from = "drain.next" /\ to = "drain.claim"
  PROVE  Kept
<1>1. /\ p \in Procs /\ p \notin Actors /\ TxnTypeOK /\ ProcInv(p) /\ ScanInv(p)
      /\ MaxToken \in Nat /\ scan[p] \subseteq ClaimRows
  BY ProcAssumption, MaxTokenAssumption DEF TxnInv, TxnTypeOK, Procs, System
<1>2. PICK c \in scan[p] :
        /\ scan' = [scan EXCEPT ![p] = @ \ {c}]
        /\ txn' = [txn EXCEPT ![p] = [Idle EXCEPT !.pc = to, !.t = c.task, !.k = c.token]]
        /\ UNCHANGED <<boardVars, lock, fence, faults>> /\ txn[p].pc = from
  BY DEF Pick, At
<1> DEFINE y == [Idle EXCEPT !.pc = to, !.t = c.task, !.k = c.token]
<1>3. /\ c.task \in Tasks /\ c.token \in Tokens /\ c.token \in granted[c.task]
      /\ task[c.task] # "none"
  <2>1. c.task \in Tasks /\ c.token \in Tokens /\ c.token \in granted[c.task]
    BY <1>1 DEF ClaimRows, ScanInv
  <2> QED
    BY <2>1 DEF TxnInv, Sequenced
<1>4. y \in Locals /\ y.pc = to /\ y.t = c.task /\ y.k = c.token /\ y.dead = {}
  <2>1. c.token \in 0..MaxToken /\ to \in SystemPCs
    BY <1>1, <1>3 DEF Tokens, SystemPCs
  <2> QED
    BY <1>3, <2>1 DEF Locals, Idle
<1>5. txn'[p] = y
  BY <1>1, <1>2 DEF TxnTypeOK
<1>6. txn' = [txn EXCEPT ![p] = y]
  BY <1>2
<1> HIDE DEF y
<1>7. UNCHANGED <<topic, task, claims, expired, granted>>
  BY <1>2 DEF boardVars, histVars
<1>8. ProcInv(p)'
  <2>1. Placed(p)' /\ DeadStay(p)'
    BY <1>3, <1>4, <1>5, <1>7 DEF Placed, DeadStay
  <2>2. Locked(p)' /\ Claiming(p)' /\ Writing(p)'
    BY <1>4, <1>5 DEF Locked, Claiming, Writing, WithTask, WithClaim, WithArt
  <2>3. Removing(p)'
    <3>1. to \in Recovering => from = "sweep.next"
      BY DEF Recovering
    <3>2. to \in Draining => topic # "active"
      BY <1>1, <1>2 DEF ProcInv, Removing, Draining, Lapsing
    <3> QED
      BY <1>1, <1>2, <1>3, <1>4, <1>5, <1>7, <3>1, <3>2 DEF Removing, ScanInv, WithClaim
  <2> QED
    BY <2>1, <2>2, <2>3 DEF ProcInv
<1>9. DrawnOnce' /\ PostedOnce' /\ Room'
  BY <1>1, <1>2, <1>4, <1>6, Undrawn DEF CanDraw
<1>10. /\ scan' \in [System -> SUBSET ClaimRows] /\ \A q \in System : scan'[q] \subseteq scan[q]
       /\ lock' \in [Rows -> Procs \cup {None}]
       /\ \A q \in Procs \ {p} : \A r \in Rows : lock[r] = q => lock'[r] = q
  BY <1>1, <1>2 DEF TxnTypeOK
<1>11. y.pc \in Recovering \cup {"sweep.next"} => txn[p].pc \in Recovering \cup {"sweep.next"}
  BY <1>2, <1>4 DEF Recovering
<1> QED
  BY <1>1, <1>2, <1>4, <1>6, <1>8, <1>9, <1>10, <1>11, MoveKeeps

\* The scans of the sweep and of the drain.
LEMMA ScanKeeps ==
  ASSUME TxnInv, NEW p \in System, NEW pc,
         UNCHANGED <<boardVars, lock, fence>>, faults' \in 0..MaxFaults, Goto(p, pc),
         \/ /\ pc = "sweep.next"
            /\ scan' = [scan EXCEPT ![p] = {c \in claims : c.token \in expired}]
         \/ /\ pc = "drain.next" /\ At(p, "drain.scan")
            /\ scan' = [scan EXCEPT ![p] = claims]
         \/ pc = "close.seal" /\ At(p, "drain.scan") /\ scan' = scan
  PROVE  Kept
<1> DEFINE y == [txn[p] EXCEPT !.pc = pc]
<1>1. p \in Procs /\ p \notin Actors /\ TxnTypeOK /\ ProcInv(p) /\ fence \in Nat /\ IInv
  BY ProcAssumption, TxnType DEF TxnInv, TxnTypeOK, IInv, Procs, System
<1>2. y \in Locals /\ y.pc = pc /\ y.dead = txn[p].dead
  <2>1. txn[p] \in Locals /\ pc \in SystemPCs
    BY <1>1 DEF TxnTypeOK, SystemPCs
  <2> QED
    BY <2>1 DEF Locals
<1>3. txn' = [txn EXCEPT ![p] = y] /\ txn'[p] = y
      /\ \A q \in Procs \ {p} : txn'[q] = txn[q]
  BY <1>1 DEF Goto, TxnTypeOK
<1> HIDE DEF y
<1>4. UNCHANGED <<topic, task, claims, expired, granted>>
  BY DEF boardVars, histVars
<1>5. ProcInv(p)'
  <2>1. pc \notin Working \cup WithTask \cup WithClaim \cup WithArt \cup Recovering \cup Lapsing
    BY DEF Working, ClientPCs, WithTask, WithClaim, WithArt, Recovering, Lapsing
  <2>2. pc \notin {"claim.deps", "claim.lease", "claim.insert", "post"}
    OBVIOUS
  <2>3. pc \in Draining => topic # "active"
    BY <1>1 DEF ProcInv, Removing, Draining, Lapsing, At
  <2>4. DeadStay(p)'
    BY <1>1, <1>2, <1>3, <1>4 DEF ProcInv, DeadStay
  <2> QED
    BY <1>2, <1>3, <1>4, <2>1, <2>2, <2>3, <2>4
    DEF ProcInv, Placed, Locked, Claiming, Writing, Removing
<1>6. \A q \in System : ScanInv(q)'
  <2> SUFFICES ASSUME NEW q \in System PROVE ScanInv(q)'
    OBVIOUS
  <2>1. CASE q # p
    <3>1. Grows
      BY <1>1, BoardGrows
    <3>2. scan'[q] = scan[q]
      BY <1>1, <2>1 DEF TxnTypeOK
    <3>3. txn'[q] = txn[q]
      BY <1>3, <2>1 DEF Procs
    <3> QED
      BY <3>1, <3>2, <3>3, ScanKept
  <2>2. CASE q = p
    <3>1. \A c \in claims : c.token \in granted[c.task]
      BY <1>1 DEF IInv, BoardInv, TokensInOrder
    <3>2. \A c \in scan[p] : c.token \in granted[c.task]
      BY DEF TxnInv, ScanInv
    <3>3. scan'[p] \subseteq claims \/ scan'[p] = scan[p]
      BY <1>1 DEF TxnTypeOK
    <3>4. txn'[p].pc \in Recovering \cup {"sweep.next"} =>
              \A c \in scan'[p] : c.token \in expired
      BY <1>1, <1>2, <1>3 DEF TxnTypeOK, Recovering
    <3> QED
      BY <1>4, <2>2, <3>1, <3>2, <3>3, <3>4 DEF ScanInv
  <2> QED
    BY <2>1, <2>2
<1>7. DrawnOnce' /\ PostedOnce' /\ Room'
  BY <1>1, <1>2, <1>3, Undrawn DEF CanDraw
<1>8. Sound(p)
  BY <1>1, QuietSound
<1>9. scan' \in [System -> SUBSET ClaimRows]
  BY <1>1 DEF TxnTypeOK, TypeOK
<1> QED
  <2>1. fence' \in 0..MaxToken /\ fence <= fence'
    BY <1>1 DEF TxnTypeOK
  <2>2. lock' \in [Rows -> Procs \cup {None}]
        /\ \A q \in Procs \ {p} : \A r \in Rows : lock[r] = q => lock'[r] = q
    BY <1>1 DEF TxnTypeOK
  <2> QED
    BY <1>1, <1>2, <1>3, <1>5, <1>6, <1>7, <1>8, <1>9, <2>1, <2>2, Compose

\* A statement of the sweep or of the drain that locks its task or its claim.
LEMMA LockSteps ==
  ASSUME TxnInv, NEW p \in System,
         \/ p = Sweeper /\ (SweepTask \/ SweepClaim)
         \/ DrainDelete(p)
  PROVE  Kept
<1> DEFINE x == txn[p]
           t == x.t
           k == x.k
<1>1. /\ p \in Procs /\ ProcInv(p) /\ TxnTypeOK
      /\ x.pc \in {"sweep.task", "sweep.claim", "drain.claim"}
  BY DEF TxnInv, Procs, SweepTask, SweepClaim, DrainDelete, At
<1>2. x.pc \in Recovering \cup Lapsing /\ (x.pc = "sweep.task" => x.pc \in Recovering)
      /\ (x.pc = "sweep.claim" => x.pc \in Recovering) /\ x.pc \in Working \ {"post"}
  BY <1>1 DEF Recovering, Lapsing, Working
<1>3. /\ t \in Tasks /\ k \in Tokens
      /\ \A c \in Found(p) : c \in claims /\ c.task = t /\ c.token = k
      /\ TaskRow(t) \in Rows /\ ClaimRow(k) \in Rows
  BY <1>1, <1>2, FoundFacts, TxnType
<1>4. ASSUME NEW next \in {"sweep.next", "drain.next"}, Rollback(p, next),
             next = "sweep.next" => x.pc = "sweep.claim",
             next = "drain.next" => x.pc = "drain.claim"
      PROVE  Kept
  <2>1. next \in Between /\ (next \in Draining => topic # "active")
    BY <1>1, <1>4 DEF Between, ProcInv, Removing, Draining, Lapsing
  <2> QED
    BY <1>1, <1>2, <1>4, <2>1, RollbackKeeps
<1>5. ASSUME NEW pc \in {"sweep.claim", "sweep.artifact", "drain.task"},
             NEW r \in Rows, Acquire(p, r), Step(p, pc),
             \/ x.pc = "sweep.task" /\ pc = "sweep.claim" /\ r = TaskRow(t)
             \/ x.pc = "sweep.claim" /\ pc = "sweep.artifact" /\ r = ClaimRow(k)
             \/ x.pc = "drain.claim" /\ pc = "drain.task" /\ r = ClaimRow(k),
             pc # "sweep.claim" => Found(p) # {}
      PROVE  Kept
  <2>1. PICK y \in Locals :
          /\ txn' = [txn EXCEPT ![p] = y] /\ txn'[p] = y
          /\ y.pc = pc /\ y.t = t /\ y.k = k /\ y.dead = x.dead
    BY <1>1, <1>5, StepFacts DEF SystemPCs
  <2>2. UNCHANGED <<boardVars, scan, fence, faults>>
        /\ UNCHANGED <<topic, claims, expired, granted>>
    BY <1>5 DEF Step, boardVars, histVars
  <2>3. lock'[r] = p /\ \A s \in Rows : lock[s] = p => lock'[s] = p
    BY <1>1, <1>5, LockFacts
  <2>4. Locked(p)'
    <3>1. pc = "sweep.artifact" => lock'[TaskRow(t)] = p
      BY <1>1, <1>3, <1>5, <2>3 DEF ProcInv, Locked, WithTask
    <3>2. pc \in WithTask => lock'[TaskRow(t)] = p
      BY <1>5, <2>3, <3>1 DEF WithTask
    <3>3. pc \in WithClaim => lock'[ClaimRow(k)] = p
      BY <1>5, <2>3 DEF WithClaim
    <3> QED
      BY <2>1, <3>2, <3>3 DEF Locked, WithArt
  <2>5. Claiming(p)' /\ Writing(p)'
    BY <2>1 DEF Claiming, Writing, WithArt
  <2>6. Removing(p)'
    <3>1. pc \in WithClaim => \E c \in claims : c.task = t /\ c.token = k
      BY <1>3, <1>5 DEF WithClaim
    <3>2. pc \in Draining => topic # "active"
      BY <1>1, <1>5 DEF ProcInv, Removing, Draining, Lapsing
    <3>3. pc \in Recovering => x.pc \in Recovering
      BY <1>5 DEF Recovering
    <3> QED
      BY <1>1, <1>2, <2>1, <2>2, <3>1, <3>2, <3>3 DEF ProcInv, Removing
  <2>7. pc \in Working \ {"post", "claim.insert"} /\ pc \notin CanDraw
        /\ (pc \in Recovering => x.pc \in Recovering)
    BY <1>5 DEF Working, Recovering, Lapsing, CanDraw
  <2> QED
    BY <1>1, <1>2, <1>5, <2>1, <2>2, <2>4, <2>5, <2>6, <2>7, AdvanceKeeps
<1>6. CASE p = Sweeper /\ SweepTask
  BY <1>3, <1>5, <1>6 DEF SweepTask, At
<1>7. CASE p = Sweeper /\ SweepClaim
  BY <1>3, <1>4, <1>5, <1>7 DEF SweepClaim, At
<1>8. CASE DrainDelete(p)
  BY <1>3, <1>4, <1>5, <1>8 DEF DrainDelete, At
<1> QED
  BY <1>6, <1>7, <1>8

\* The commits of the sweep, of the drain and of closeTopic, and the empty
\* transactions between them.
LEMMA SystemCommits ==
  ASSUME TxnInv, NEW p \in System,
         \/ p = Sweeper /\ (SweepCommit \/ SweepEnd \/ RecoverClosing)
         \/ CloseFreeze(p) \/ DrainCommit(p) \/ DrainEnd(p) \/ CloseSeal(p)
  PROVE  Kept
<1>1. p \in Procs /\ ProcInv(p) /\ Draining = {"drain.scan", "drain.next", "close.seal",
                                               "drain.claim", "drain.task"}
  BY DEF TxnInv, Procs, Draining, Lapsing
<1>2. ASSUME NEW next \in Between \ {"sweep.next"}, Rollback(p, next),
             next \in Draining => topic # "active"
      PROVE  Kept
  BY <1>1, <1>2, RollbackKeeps
<1>3. ASSUME NEW next \in Between, Commit(p, next), Sound(p),
             next \in Draining => topic' # "active",
             next = "sweep.next" => txn[p].pc \in Recovering
      PROVE  Kept
  BY <1>1, <1>3, CommitKeeps
<1>4. \A next : Commit(p, next) => fence' = fence
  BY DEF Commit
<1>5. txn[p].pc \in Draining => topic # "active"
  BY <1>1 DEF ProcInv, Removing
<1>6. CASE p = Sweeper /\ SweepCommit
  <2>1. PICK c \in Found(p) : IF topic = "active" THEN RetireEffect(c) ELSE DropEffect(c)
    BY <1>6 DEF SweepCommit
  <2>2. Sound(p)
    BY <1>4, <1>6, <2>1, SweepSound DEF SweepCommit
  <2> QED
    BY <1>1, <1>3, <1>6, <2>2 DEF SweepCommit, At, Recovering, Between
<1>7. CASE p = Sweeper /\ (SweepEnd \/ RecoverClosing)
  BY <1>1, <1>2, <1>7 DEF SweepEnd, RecoverClosing, Between
<1>8. CASE CloseFreeze(p)
  <2>1. CASE topic = "active"
    <3>1. Sound(p) /\ topic' = "closing"
      BY <1>1, <1>4, <1>8, <2>1, TopicSound DEF CloseFreeze, TopicEffect
    <3> QED
      BY <1>3, <1>8, <2>1, <3>1 DEF CloseFreeze, Between
  <2>2. CASE topic # "active"
    BY <1>1, <1>2, <1>8, <2>2 DEF CloseFreeze, Between
  <2> QED
    BY <2>1, <2>2
<1>9. CASE DrainCommit(p)
  <2>1. CASE topic = "closed"
    BY <1>1, <1>2, <1>9, <2>1 DEF DrainCommit, Between
  <2>2. CASE topic # "closed"
    <3>1. PICK c \in Found(p) : ForceLapseEffect(c)
      BY <1>9, <2>2 DEF DrainCommit
    <3>2. Sound(p) /\ topic' = topic /\ Commit(p, "drain.next") /\ txn[p].pc = "drain.task"
      BY <1>4, <1>9, <2>2, <3>1, DrainSound DEF DrainCommit, ForceLapseEffect, At
    <3> QED
      BY <1>1, <1>3, <1>5, <3>2 DEF Between
  <2> QED
    BY <2>1, <2>2
<1>10. CASE DrainEnd(p)
  BY <1>1, <1>2, <1>5, <1>10 DEF DrainEnd, Between, At
<1>11. CASE CloseSeal(p)
  <2>1. CASE topic = "closed"
    BY <1>1, <1>2, <1>11, <2>1 DEF CloseSeal, Between
  <2>2. CASE topic # "closed"
    <3>1. Sound(p)
      BY <1>1, <1>4, <1>11, <2>2, TopicSound DEF CloseSeal
    <3> QED
      BY <1>1, <1>3, <1>11, <2>2, <3>1 DEF CloseSeal, Between
  <2> QED
    BY <2>1, <2>2
<1> QED
  BY <1>6, <1>7, <1>8, <1>9, <1>10, <1>11

\* A transaction that is rolled back for it goes on where Resume says.
LEMMA AbortKeeps ==
  ASSUME TxnInv, NEW p \in Procs, DeadlockAbort(p) \/ (p = Sweeper /\ DrainTimeout)
  PROVE  Kept
<1>1. ProcInv(p)
  BY DEF TxnInv
<1>2. Resume(p) \in Between /\ (Resume(p) \in Draining => txn[p].pc \in Draining)
      /\ (Resume(p) = "sweep.next" => txn[p].pc \in Recovering)
  BY DEF Resume, Between, Draining, Lapsing, Recovering
<1>3. CASE DeadlockAbort(p)
  BY <1>1, <1>2, <1>3, RollbackKeeps DEF DeadlockAbort, ProcInv, Removing
<1>4. CASE p = Sweeper /\ DrainTimeout
  <2>1. txn[p].pc \in Draining /\ Rollback(p, "drain.next") /\ "drain.next" \in Between
    BY <1>4 DEF DrainTimeout, At, Draining, Lapsing, Between
  <2> QED
    BY <1>1, <2>1, RollbackKeeps DEF ProcInv, Removing
<1> QED
  BY <1>3, <1>4

\* A process dies.
LEMMA CrashKeeps ==
  ASSUME TxnInv, NEW p \in Procs, Crash(p)
  PROVE  Kept
<1>1. TxnTypeOK /\ fence \in Nat /\ "idle" \in Between /\ "idle" \notin Draining
  BY TxnType DEF TxnInv, Between, Draining, Lapsing
<1>2. /\ UNCHANGED <<boardVars, fence>> /\ EndTxn(p, "idle")
      /\ scan' = [q \in System |-> IF q = p THEN {} ELSE scan[q]]
      /\ faults' = faults + 1 /\ faults < MaxFaults
  BY DEF Crash
<1>3. Sound(p)
  BY <1>1, <1>2, QuietSound
<1>4. scan' \in [System -> SUBSET ClaimRows] /\ \A q \in System : scan'[q] \subseteq scan[q]
  BY <1>1, <1>2 DEF TxnTypeOK
<1>5. faults' \in 0..MaxFaults
  BY <1>1, <1>2, BoundAssumption DEF TxnTypeOK
<1> QED
  BY <1>1, <1>2, <1>3, <1>4, <1>5, EndKeeps

\* What happens outside the transactions: a review outcome, time, nothing.
LEMMA OutsideKeeps ==
  ASSUME TxnInv, UNCHANGED txnVars,
         \/ \E t \in Tasks, o \in {"final", "working"} : ResolveCommit(t, o)
         \/ \E c \in claims : ExpireClaim(c)
         \/ UNCHANGED boardVars
  PROVE  Kept
<1>1. /\ TxnTypeOK /\ IInv /\ UNCHANGED <<txn, scan, lock, fence, faults>>
      /\ fence \in Nat
  BY TxnType DEF TxnInv, TxnTypeOK, IInv, txnVars
<1>2. [Next]_boardVars /\ (\A q \in Procs : Respects(q)) /\ Sequenced'
  <2>1. ASSUME NEW t \in Tasks, NEW o \in {"final", "working"}, ResolveCommit(t, o)
        PROVE  Resolve(t, o) /\ (\A q \in Procs : Respects(q)) /\ Sequenced'
    <3>1. Resolve(t, o)
      BY <2>1 DEF ResolveCommit, Resolve
    <3>2. /\ UNCHANGED <<task, claims, granted, barrier, accepted>>
          /\ \A u \in Tasks \ {t} : artState'[u] = artState[u]
      BY <1>1, <3>1 DEF Resolve, ResolveEffect, histVars, TxnTypeOK, TypeOK
    <3>3. \A u \in Tasks : {c \in claims' : c.task = u} = ClaimsOf(u)
      BY <3>2 DEF ClaimsOf
    <3>4. task[t] # "none" /\ Free(None, ArtRow(t)) /\ None \in Procs \cup {None}
      BY <1>1, <2>1 DEF ResolveCommit, IInv, BoardInv, RowsAgree, Free
    <3>5. \A q \in Procs \ {None} : Respects(q)
      BY <3>2, <3>3, <3>4, Apart
    <3>6. None \notin Procs
      BY NoneAssumption DEF Procs, System
    <3> QED
      BY <1>1, <3>1, <3>2, <3>5, <3>6 DEF TxnInv, Sequenced
  <2>2. ASSUME NEW c \in claims, ExpireClaim(c)
        PROVE  Expire(c) /\ (\A q \in Procs : Respects(q)) /\ Sequenced'
    <3>1. UNCHANGED <<task, artState, accepted, claims, granted, barrier>>
      BY <2>2 DEF ExpireClaim, ExpireEffect, artVars, histVars
    <3> QED
      BY <1>1, <2>2, <3>1, Aside DEF ExpireClaim, Expire, TxnInv, Sequenced
  <2>3. ASSUME UNCHANGED boardVars PROVE (\A q \in Procs : Respects(q)) /\ Sequenced'
    <3>1. UNCHANGED <<task, artState, accepted, claims, granted, barrier>>
      BY <2>3 DEF boardVars, artVars, histVars
    <3> QED
      BY <1>1, <3>1, Aside DEF TxnInv, Sequenced
  <2> QED
    BY <2>1, <2>2, <2>3 DEF Next
<1>3. IInv' /\ Grows
  BY <1>1, <1>2, NextInv, BoardGrows
<1>4. ASSUME NEW q \in Procs PROVE ProcInv(q)'
  <2>1. Undisturbed(q)
    BY <1>1 DEF Undisturbed
  <2>2. fence' \in Nat /\ fence <= fence'
    BY <1>1
  <2> QED
    BY <1>2, <1>3, <2>1, <2>2, Frame
<1>5. ASSUME NEW q \in System PROVE ScanInv(q)'
  BY <1>1, <1>3, ScanKept
<1>6. DrawnOnce' /\ PostedOnce' /\ Room'
  <2>1. Drawing' \subseteq Drawing
    BY <1>1 DEF Drawing
  <2>2. Room'
    BY <1>1, <2>1, RoomKept
  <2> QED
    BY <1>1, <2>2 DEF TxnInv, DrawnOnce, PostedOnce, At
<1>7. TxnTypeOK'
  BY <1>1, <1>3 DEF TxnTypeOK, IInv
<1> QED
  BY <1>2, <1>3, <1>4, <1>5, <1>6, <1>7 DEF Kept, TxnInv, IInv

\* The transactions keep the invariant, and take the steps of the Board only.
LEMMA TxnNextInv ==
  ASSUME TxnInv, [TxnNext]_vars
  PROVE  Kept
<1>1. ASSUME NEW p \in Actors, Start(p) \/ ActorStep(p) PROVE Kept
  BY <1>1, StartKeeps, TaskSteps, DepsKeeps, LeaseKeeps, CompleteClaimKeeps, GuardKeeps,
     CallCommits DEF ActorStep
<1>2. ASSUME NEW p \in System, CloseStep(p) PROVE Kept
  <2>1. CASE DrainScan(p)
    <3>1. faults \in 0..MaxFaults
      BY DEF TxnInv, TxnTypeOK
    <3> QED
      BY <2>1, <3>1, BoundAssumption, ScanKeeps DEF DrainScan
  <2>2. CASE DrainPick(p)
    BY <2>2, PickKeeps DEF DrainPick
  <2> QED
    BY <1>2, <2>1, <2>2, LockSteps, SystemCommits DEF CloseStep
<1>3. Sweeper \in System /\ Closer \in System /\ System \subseteq Procs
  BY DEF System, Procs
<1>4. ASSUME SweepScan PROVE Kept
  <2>1. faults' \in 0..MaxFaults
    BY <1>4 DEF SweepScan, TxnInv, TxnTypeOK
  <2> QED
    BY <1>3, <1>4, <2>1, ScanKeeps DEF SweepScan
<1>5. ASSUME SweepStep \/ RecoverClosing PROVE Kept
  <2>1. CASE SweepPick
    BY <1>3, <2>1, PickKeeps DEF SweepPick
  <2> QED
    BY <1>2, <1>3, <1>5, <2>1, LockSteps, SystemCommits DEF SweepStep
<1>6. ASSUME CloseStep(Closer) PROVE Kept
  BY <1>2, <1>3, <1>6
<1>7. ASSUME DrainTimeout PROVE Kept
  BY <1>3, <1>7, AbortKeeps
<1>8. ASSUME NEW p \in Procs, DeadlockAbort(p) \/ Crash(p) PROVE Kept
  BY <1>8, AbortKeeps, CrashKeeps
<1>9. ASSUME \/ \E t \in Tasks, o \in {"final", "working"} : ResolveCommit(t, o)
             \/ \E c \in claims : ExpireClaim(c)
             \/ UNCHANGED vars
      PROVE  Kept
  <2>1. UNCHANGED txnVars
    BY <1>9 DEF ResolveCommit, ExpireClaim, vars
  <2> QED
    BY <1>9, <2>1, OutsideKeeps DEF vars
<1> QED
  BY <1>1, <1>4, <1>5, <1>6, <1>7, <1>8, <1>9, BeginCloseKeeps DEF TxnNext

\* No transaction, nothing locked, nothing drawn.
LEMMA TxnInitInv == TxnInit => TxnInv
<1> SUFFICES ASSUME TxnInit PROVE TxnInv
  OBVIOUS
<1>1. /\ IInv /\ claims = {} /\ fence = 0 /\ MaxToken \in Nat
      /\ \A u \in Tasks : granted[u] = {} /\ barrier[u] = 0
  BY InitInv, MaxTokenAssumption DEF TxnInit, Init, BoardInit
<1>2. Idle \in Locals /\ Idle.pc = "idle" /\ Idle.dead = {} /\ \A p \in Procs : txn[p] = Idle
  BY <1>1 DEF TxnInit, Idle, Locals
<1>3. TxnTypeOK
  BY <1>1, <1>2, BoundAssumption DEF TxnInit, TxnTypeOK, IInv
<1>4. ASSUME NEW p \in Procs PROVE ProcInv(p)
  BY <1>1, <1>2
  DEF ProcInv, Placed, Locked, Claiming, Writing, Removing, DeadStay, Working, ClientPCs,
      WithTask, WithClaim, WithArt, Recovering, Lapsing, Draining
<1>5. ASSUME NEW p \in System PROVE ScanInv(p)
  BY DEF TxnInit, ScanInv
<1>6. Sequenced /\ DrawnOnce /\ PostedOnce
  BY <1>1, <1>2 DEF Sequenced, DrawnOnce, PostedOnce, At, Procs
<1>7. Room
  <2>1. Drawing = {}
    BY <1>2 DEF Drawing, Procs
  <2> QED
    BY <1>1, <2>1, FS_EmptySet DEF Room
<1> QED
  BY <1>1, <1>3, <1>4, <1>5, <1>6, <1>7 DEF TxnInv, IInv

LEMMA TxnAlwaysInv == TxnSpec => []TxnInv
<1>1. TxnInv /\ [TxnNext]_vars => TxnInv'
  BY TxnNextInv DEF Kept
<1> QED
  BY <1>1, TxnInitInv, PTL DEF TxnSpec

-----------------------------------------------------------------------------
(* What the transactions guarantee. *)

\* Rows, positions, scans and locks stay well formed; in particular no call draws
\* a token beyond the bound, and none of the arithmetic on tokens leaves it.
THEOREM TxnTypeCorrect == TxnSpec => []TxnTypeOK
<1>1. TxnInv => TxnTypeOK
  BY DEF TxnInv
<1> QED
  BY <1>1, TxnAlwaysInv, PTL

\* Every COMMIT of the transactions of board.ts, artifacts.ts, the sweep and
\* closeTopic is a step that the contract of the Board allows, and nothing else
\* changes a committed row.
THEOREM TransactionsImplementBoard == TxnSpec => ImplementsBoard
<1>1. TxnInit => Init
  BY DEF TxnInit, Init
<1>2. TxnInv /\ [TxnNext]_vars => [Next]_boardVars
  BY TxnNextInv DEF Kept
<1> QED
  BY <1>1, <1>2, TxnAlwaysInv, PTL DEF TxnSpec, ImplementsBoard, Spec

\* So the transactions, however they interleave, block, abort and crash, keep
\* what the contract promises of the committed rows.
THEOREM TransactionsKeepTheBoard ==
  TxnSpec => /\ []ClaimMatchesTask
             /\ []HolderNeverFencedOut
             /\ []SubmittedWorkIsUnclaimed
             /\ []LogTellsTheBoard
             /\ []SequentialOrder
             /\ SealedTopicIsFrozen
             /\ CompletedIsFinal
  BY TransactionsImplementBoard, ClaimsMatchTasks, HoldersKeepTheirToken, SubmittedWorkIsSafe,
     LogIsFaithful, SequentialTasksInOrder, SealedTopicsAreFrozen,
     CompletionIsFinal DEF ImplementsBoard

\* A write or a baseline whose guarded UPDATE has passed commits under a claim
\* that no newer claim, sweep or completion has fenced out, whatever number its
\* caller presented, and does not lower accepted_fencing_token: the artifact row
\* it holds keeps them all away, claimTask through the foreign key of its INSERT.
THEOREM StaleHoldersNeverWrite == TxnSpec => []StaleHolderNeverWrites
<1>1. TxnInv => StaleHolderNeverWrites
  BY DEF TxnInv, ProcInv, Writing, WithArt, Procs, StaleHolderNeverWrites
<1> QED
  BY <1>1, TxnAlwaysInv, PTL

\* INSERT INTO claims meets no claim of its artifact but those its own transaction
\* has deleted, and inserts a token that is new and the newest of its task: the
\* unique index claims_active_uniq is never violated.
THEOREM InsertsNeverCollide == TxnSpec => []InsertNeverCollides
<1>1. ASSUME TxnInv PROVE InsertNeverCollides
  <2> SUFFICES ASSUME NEW p \in Actors, At(p, "claim.insert")
               PROVE  /\ \A c \in ClaimsOf(txn[p].t) :
                            c \in Lapsed(p) /\ lock[ClaimRow(c.token)] = p
                      /\ \A k \in granted[txn[p].t] : k < txn[p].k
                      /\ \A t \in Tasks : txn[p].k \notin granted[t]
    BY DEF InsertNeverCollides
  <2> DEFINE t == txn[p].t
  <2>1. ProcInv(p) /\ IInv /\ t \in Tasks
    BY <1>1 DEF TxnInv, TxnTypeOK, IInv, Procs, ProcInv, Placed, At, Working, ClientPCs
  <2>2. ClaimsOf(t) \subseteq Lapsed(p) /\ \A c \in Lapsed(p) : lock[ClaimRow(c.token)] = p
    BY <2>1 DEF ProcInv, Claiming, Locked, At
  <2>3. barrier[t] <= txn[p].k /\ txn[p].k \in 1..fence /\ \A u \in Tasks : txn[p].k \notin granted[u]
    BY <2>1 DEF ProcInv, Claiming, At
  <2>4. ASSUME NEW k \in granted[t] PROVE k < txn[p].k
    <3>1. k <= barrier[t] /\ k # txn[p].k
      BY <2>1, <2>3 DEF IInv, BoardInv, TokensInOrder
    <3>2. k \in Nat /\ barrier[t] \in Nat /\ txn[p].k \in Nat
      BY <1>1, <2>1, <2>3, TxnType DEF TxnInv, IInv, TypeOK, Tokens, Procs
    <3> QED
      BY <2>3, <3>1, <3>2
  <2> QED
    BY <2>2, <2>3, <2>4
<1> QED
  BY <1>1, TxnAlwaysInv, PTL

\* What completeTask, the sweep and the drain have found is still there when they
\* act on it.
THEOREM ClaimsInHandStand == TxnSpec => []ClaimsInHandStay
<1>1. TxnInv => ClaimsInHandStay
  BY DEF TxnInv, ProcInv, Removing, WithClaim, ClaimsInHandStay
<1> QED
  BY <1>1, TxnAlwaysInv, PTL

-----------------------------------------------------------------------------
(* Deadlock: who can wait for whom. *)

\* A lock is only held at the positions that account for it: the converse of
\* Locked.
Accounts(x, r) ==
    \/ r = TaskRow(x.t) /\ x.pc \in WithTask
    \/ r \in {ClaimRow(k) : k \in Tokens} /\ x.pc \in WithClaim \cup {"claim.insert"}
    \/ r = ArtRow(x.t) /\ x.pc \in WithArt
Held == \A p \in Procs : \A r \in Rows : lock[r] = p => Accounts(txn[p], r)

\* Held survives a step of p if what p holds after it is accounted for.
LEMMA HeldMove ==
  ASSUME TxnInv, Held, NEW p \in Procs, NEW y, txn' = [txn EXCEPT ![p] = y],
         \A q \in Procs \ {p} : \A r \in Rows : lock'[r] = q => lock[r] = q,
         \A r \in Rows : lock'[r] = p => Accounts(y, r)
  PROVE  Held'
<1>1. txn'[p] = y /\ \A q \in Procs \ {p} : txn'[q] = txn[q]
  BY DEF TxnInv, TxnTypeOK
<1>2. ASSUME NEW q \in Procs, NEW r \in Rows, lock'[r] = q PROVE Accounts(txn'[q], r)
  <2>1. CASE q = p
    BY <1>1, <1>2, <2>1
  <2>2. CASE q # p
    BY <1>1, <1>2, <2>2 DEF Held
  <2> QED
    BY <2>1, <2>2
<1>3. Held' <=> \A q \in Procs : \A r \in Rows : lock'[r] = q => Accounts(txn'[q], r)
  BY DEF Held, Accounts
<1> QED
  BY <1>2, <1>3

\* A transaction that ends holds nothing.
LEMMA HeldEnd ==
  ASSUME TxnInv, Held, NEW p \in Procs, NEW next, EndTxn(p, next)
  PROVE  Held'
<1>1. /\ \A r \in Rows : lock'[r] # p
      /\ \A q \in Procs \ {p} : \A r \in Rows : lock'[r] = q => lock[r] = q
      /\ txn' = [txn EXCEPT ![p] = [Idle EXCEPT !.pc = next]]
  BY NoneAssumption DEF EndTxn, ReleaseLocks, Procs, System
<1> QED
  BY <1>1, HeldMove

\* Nor does one that has not begun.
LEMMA HeldBegin ==
  ASSUME TxnInv, Held, NEW p \in Procs, lock' = lock, NEW y, txn' = [txn EXCEPT ![p] = y],
         txn[p].pc \notin WithTask \cup WithClaim \cup WithArt \cup {"claim.insert"}
  PROVE  Held'
<1>1. \A r \in Rows : lock[r] # p
  BY DEF Held, Accounts
<1> QED
  BY <1>1, HeldMove

\* A statement that takes a lock.
LEMMA HeldStep ==
  ASSUME TxnInv, Held, NEW p \in Procs, NEW r \in Rows, lock' = lock \/ Acquire(p, r),
         NEW y \in Locals, txn' = [txn EXCEPT ![p] = y], y.t = txn[p].t,
         Accounts(y, r) \/ lock' = lock,
         \A s \in Rows : Accounts(txn[p], s) => Accounts(y, s)
  PROVE  Held'
<1>1. \A q \in Procs \ {p} : \A s \in Rows : lock'[s] = q => lock[s] = q
  BY DEF Acquire, TxnInv, TxnTypeOK
<1>2. \A s \in Rows : lock'[s] = p => lock[s] = p \/ (s = r /\ lock' # lock)
  BY DEF Acquire, TxnInv, TxnTypeOK
<1>3. \A s \in Rows : lock'[s] = p => Accounts(y, s)
  BY <1>2 DEF Held
<1> QED
  BY <1>1, <1>3, HeldMove

\* The statements of the calls.
LEMMA HeldCalls ==
  ASSUME TxnInv, Held, NEW p \in Actors, Start(p) \/ ActorStep(p)
  PROVE  Held'
<1> DEFINE x == txn[p]
           t == x.t
<1>1. /\ p \in Procs /\ ProcInv(p) /\ TxnTypeOK /\ x \in Locals
      /\ x.pc \in Working => t \in Tasks /\ TaskRow(t) \in Rows /\ ArtRow(t) \in Rows
  BY TxnType DEF TxnInv, TxnTypeOK, Procs, ProcInv, Placed
<1>2. ASSUME NEW next, Rollback(p, next) \/ Commit(p, next) PROVE Held'
  BY <1>1, <1>2, HeldEnd DEF Rollback, Commit
<1>3. ASSUME NEW pc, NEW u, NEW k, NEW n, Begin(p, pc, u, k, n) PROVE Held'
  BY <1>1, <1>3, HeldBegin DEF Begin, At, WithTask, WithClaim, WithArt
<1>4. ASSUME NEW pc \in ClientPCs, NEW r \in Rows, lock' = lock \/ Acquire(p, r), Step(p, pc),
             \/ r = TaskRow(t) /\ pc \in WithTask
             \/ r = ArtRow(t) /\ pc \in WithArt,
             x.pc \in WithTask => pc \in WithTask,
             x.pc \notin WithClaim \cup WithArt \cup {"claim.insert"}
      PROVE  Held'
  <2>1. PICK y \in Locals :
          /\ txn' = [txn EXCEPT ![p] = y]
          /\ y.pc = pc /\ y.t = t
    BY <1>1, <1>4, StepFacts
  <2>2. Accounts(y, r) /\ \A s \in Rows : Accounts(x, s) => Accounts(y, s)
    BY <1>4, <2>1 DEF Accounts
  <2> QED
    BY <1>1, <1>4, <2>1, <2>2, HeldStep
<1>t. ASSUME NEW pc \in WithTask \cap ClientPCs, lock' = lock \/ Acquire(p, TaskRow(t)),
             Step(p, pc), x.pc \in Working,
             x.pc \notin WithClaim \cup WithArt \cup {"claim.insert"}
      PROVE  Held'
  BY <1>1, <1>4, <1>t
<1>5. CASE Start(p)
  BY <1>3, <1>5 DEF Start, PostCheck, BeginClaim, BeginRelease, BeginComplete, BeginWrite
<1>6. CASE ClaimTask(p) \/ ReleaseTask(p) \/ CompleteTask(p)
  <2>1. x.pc \in Working /\ x.pc \notin WithTask \cup WithClaim \cup WithArt \cup {"claim.insert"}
    BY <1>6 DEF ClaimTask, ReleaseTask, CompleteTask, At, Working, ClientPCs, WithTask,
                WithClaim, WithArt
  <2>2. {"claim.deps", "claim.lease", "release.claim", "complete.claim"}
            \subseteq WithTask \cap ClientPCs
    BY DEF WithTask, ClientPCs
  <2> QED
    BY <1>2, <1>t, <1>6, <2>1, <2>2 DEF ClaimTask, ReleaseTask, CompleteTask
<1>7. CASE ClaimDeps(p)
  <2>1. x.pc \in Working /\ x.pc \in WithTask
        /\ x.pc \notin WithClaim \cup WithArt \cup {"claim.insert"}
        /\ "claim.lease" \in WithTask \cap ClientPCs
    BY <1>7 DEF ClaimDeps, At, Working, ClientPCs, WithTask, WithClaim, WithArt
  <2> QED
    BY <1>2, <1>t, <1>7, <2>1 DEF ClaimDeps
<1>8. CASE ClaimLease(p)
  <2>1. CASE Rollback(p, "idle")
    BY <1>2, <2>1
  <2>2. CASE ~Rollback(p, "idle")
    <3> DEFINE y == [x EXCEPT !.pc = "claim.insert", !.k = fence + 1]
    <3>1. /\ lock' = [r \in Rows |-> IF r \in {ClaimRow(c.token) : c \in Lapsed(p)} THEN p
                                     ELSE lock[r]]
          /\ txn' = [txn EXCEPT ![p] = y] /\ x.pc = "claim.lease"
      BY <1>8, <2>2 DEF ClaimLease, At
    <3>2. y.pc = "claim.insert" /\ y.t = t
      BY <1>1 DEF Locals
    <3> HIDE DEF y
    <3>3. \A c \in Lapsed(p) : c.token \in Tokens
      BY <1>1, ClaimType DEF TxnTypeOK, Lapsed, ClaimsOf
    <3>4. \A r \in Rows : lock'[r] = p =>
              r \in {ClaimRow(k) : k \in Tokens} \/ lock[r] = p
      BY <3>1, <3>3
    <3>5. \A r \in Rows : lock'[r] = p => Accounts(y, r)
      BY <1>1, <3>1, <3>2, <3>4 DEF Held, Accounts, WithTask, WithClaim, WithArt
    <3>6. \A q \in Procs \ {p} : \A r \in Rows : lock'[r] = q => lock[r] = q
      BY <3>1
    <3> QED
      BY <1>1, <3>1, <3>5, <3>6, HeldMove
  <2> QED
    BY <2>1, <2>2
<1>9. CASE CompleteClaim(p)
  <2>1. CASE \E next : Rollback(p, next)
    BY <1>2, <2>1
  <2>2. CASE ~\E next : Rollback(p, next)
    <3>1. PICK c \in Live(p) :
            /\ Acquire(p, ClaimRow(c.token)) /\ x.pc = "complete.claim"
            /\ txn' = [txn EXCEPT ![p].pc = "complete.artifact", ![p].k = c.token]
      BY <1>9, <2>2 DEF CompleteClaim, At
    <3> DEFINE y == [x EXCEPT !.pc = "complete.artifact", !.k = c.token]
    <3>2. c.token \in Tokens /\ c.token \in 0..MaxToken /\ ClaimRow(c.token) \in Rows
      BY <1>1, ClaimType, TxnType, MaxTokenAssumption DEF Live, ClaimsOf, TxnTypeOK, Tokens
    <3>3. txn' = [txn EXCEPT ![p] = y]
      BY <3>1
    <3>4. y \in Locals /\ y.pc = "complete.artifact" /\ y.t = t
      BY <1>1, <3>2 DEF Locals, ClientPCs
    <3> HIDE DEF y
    <3>5. Accounts(y, ClaimRow(c.token)) /\ \A s \in Rows : Accounts(x, s) => Accounts(y, s)
      BY <3>1, <3>2, <3>4 DEF Accounts, WithTask, WithClaim, WithArt
    <3> QED
      BY <1>1, <3>1, <3>2, <3>3, <3>4, <3>5, HeldStep
  <2> QED
    BY <2>1, <2>2
<1>10. CASE \/ WriteGuard(p, "write", WritableStates, "write.commit")
            \/ WriteGuard(p, "baseline", {"draft", "working"}, "baseline.commit")
  <2>1. x.pc \in Working /\ x.pc \notin WithTask \cup WithClaim \cup WithArt \cup {"claim.insert"}
        /\ WithArt \subseteq ClientPCs
    BY <1>10 DEF WriteGuard, At, Working, ClientPCs, WithTask, WithClaim, WithArt
  <2>2. {"write.commit", "baseline.commit"} \subseteq WithArt
    BY DEF WithArt
  <2> QED
    BY <1>1, <1>2, <1>4, <1>10, <2>1, <2>2 DEF WriteGuard
<1>11. CASE \/ PostCommit(p) \/ ClaimCommit(p) \/ ReleaseCommit(p)
            \/ CompleteCommit(p) \/ WriteCommit(p) \/ BaselineCommit(p)
  BY <1>2, <1>11 DEF PostCommit, ClaimCommit, ReleaseCommit, CompleteCommit, WriteCommit,
                     BaselineCommit
<1> QED
  BY <1>5, <1>6, <1>7, <1>8, <1>9, <1>10, <1>11 DEF ActorStep

\* The statements of the sweep, of the drain and of closeTopic.
LEMMA HeldSystem ==
  ASSUME TxnInv, Held, NEW p \in System,
         \/ p = Sweeper /\ (SweepScan \/ SweepStep \/ RecoverClosing \/ DrainTimeout)
         \/ p = Closer /\ BeginClose
         \/ CloseStep(p)
  PROVE  Held'
<1> DEFINE x == txn[p]
<1>1. p \in Procs /\ TxnTypeOK /\ x \in Locals
  BY DEF TxnInv, TxnTypeOK, Procs
<1>2. ASSUME NEW next, Rollback(p, next) \/ Commit(p, next) PROVE Held'
  BY <1>1, <1>2, HeldEnd DEF Rollback, Commit
<1>3. ASSUME NEW pc \in SystemPCs, NEW r \in Rows, Acquire(p, r), Step(p, pc),
             \/ r = TaskRow(x.t) /\ pc \in WithTask
             \/ r \in {ClaimRow(k) : k \in Tokens} /\ pc \in WithClaim,
             x.pc \in WithTask => pc \in WithTask,
             x.pc \notin WithClaim \cup WithArt \cup {"claim.insert"}
      PROVE  Held'
  <2>1. PICK y \in Locals : txn' = [txn EXCEPT ![p] = y] /\ y.pc = pc /\ y.t = x.t
    BY <1>1, <1>3, StepFacts
  <2>2. Accounts(y, r) /\ \A s \in Rows : Accounts(x, s) => Accounts(y, s)
    BY <1>3, <2>1 DEF Accounts
  <2> QED
    BY <1>1, <1>3, <2>1, <2>2, HeldStep
<1>4. ASSUME NEW y, lock' = lock, txn' = [txn EXCEPT ![p] = y],
             x.pc \in {"idle", "sweep.next", "drain.next", "drain.scan"}
      PROVE  Held'
  BY <1>1, <1>4, HeldBegin DEF WithTask, WithClaim, WithArt
<1>5. CASE \/ p = Sweeper /\ (SweepScan \/ SweepPick)
           \/ p = Closer /\ BeginClose
           \/ DrainScan(p)
           \/ DrainPick(p)
  <2>1. CASE p = Sweeper /\ SweepScan
    <3>1. txn' = [txn EXCEPT ![p] = [txn[p] EXCEPT !.pc = "sweep.next"]]
      BY <2>1 DEF SweepScan, Goto
    <3> QED
      BY <1>4, <2>1, <3>1 DEF SweepScan, At
  <2>2. CASE (p = Sweeper /\ SweepPick) \/ DrainPick(p)
    BY <1>4, <2>2 DEF DrainPick, SweepPick, Pick, At
  <2>3. CASE p = Closer /\ BeginClose
    BY <1>4, <2>3 DEF BeginClose, Begin, At
  <2>4. CASE DrainScan(p)
    <3>1. PICK pc \in SystemPCs : txn' = [txn EXCEPT ![p] = [txn[p] EXCEPT !.pc = pc]]
      BY <2>4 DEF DrainScan, Goto, SystemPCs
    <3> QED
      BY <1>4, <2>4, <3>1 DEF DrainScan, At
  <2> QED
    BY <1>5, <2>1, <2>2, <2>3, <2>4
<1>6. CASE (p = Sweeper /\ (SweepTask \/ SweepClaim)) \/ DrainDelete(p)
  <2>1. x.pc \in {"sweep.task", "sweep.claim", "drain.claim"}
    BY <1>6 DEF SweepTask, SweepClaim, DrainDelete, At
  <2>2. TaskRow(x.t) \in Rows /\ ClaimRow(x.k) \in Rows /\ x.k \in Tokens
    BY <1>1, <2>1, FoundFacts, TxnType DEF Recovering, Lapsing
  <2>3. x.pc \notin WithClaim \cup WithArt \cup {"claim.insert"}
        /\ (x.pc \in WithTask => x.pc = "sweep.claim")
        /\ {"sweep.claim", "sweep.artifact", "drain.task"} \subseteq SystemPCs
        /\ {"sweep.claim", "sweep.artifact"} \subseteq WithTask
        /\ {"sweep.artifact", "drain.task"} \subseteq WithClaim
    BY <2>1 DEF WithTask, WithClaim, WithArt, SystemPCs
  <2>4. CASE p = Sweeper /\ SweepTask
    BY <1>3, <2>2, <2>3, <2>4 DEF SweepTask, At
  <2>5. CASE p = Sweeper /\ SweepClaim
    BY <1>2, <1>3, <2>2, <2>3, <2>5 DEF SweepClaim, At
  <2>6. CASE DrainDelete(p)
    BY <1>2, <1>3, <2>2, <2>3, <2>6 DEF DrainDelete, At
  <2> QED
    BY <1>6, <2>4, <2>5, <2>6
<1>7. CASE \/ p = Sweeper /\ (SweepCommit \/ SweepEnd \/ RecoverClosing \/ DrainTimeout)
           \/ CloseFreeze(p) \/ DrainCommit(p) \/ DrainEnd(p) \/ CloseSeal(p)
  BY <1>2, <1>7 DEF SweepCommit, SweepEnd, RecoverClosing, DrainTimeout, CloseFreeze,
                    DrainCommit, DrainEnd, CloseSeal
<1> QED
  BY <1>5, <1>6, <1>7 DEF SweepStep, CloseStep

\* Locks are accounted for after every step.
LEMMA HeldNext ==
  ASSUME TxnInv, Held, [TxnNext]_vars
  PROVE  Held'
<1>1. Sweeper \in System /\ Closer \in System
  BY DEF System
<1>2. ASSUME NEW p \in Procs, DeadlockAbort(p) \/ Crash(p) PROVE Held'
  BY <1>2, HeldEnd DEF DeadlockAbort, Crash, Rollback
<1>3. ASSUME UNCHANGED <<txn, lock>> PROVE Held'
  BY <1>3 DEF Held, Accounts
<1>4. ASSUME \/ \E t \in Tasks, o \in {"final", "working"} : ResolveCommit(t, o)
             \/ \E c \in claims : ExpireClaim(c)
             \/ UNCHANGED vars
      PROVE  Held'
  BY <1>3, <1>4 DEF ResolveCommit, ExpireClaim, vars, txnVars
<1> QED
  BY <1>1, <1>2, <1>4, HeldCalls, HeldSystem DEF TxnNext

LEMMA HeldAlways == TxnSpec => [](TxnInv /\ Held)
<1>1. TxnInit => Held
  BY NoneAssumption DEF TxnInit, Held, Procs, System
<1>2. TxnInv /\ Held /\ [TxnNext]_vars => Held'
  BY HeldNext
<1> QED
  BY <1>1, <1>2, TxnAlwaysInv, PTL DEF TxnSpec

\* In a cycle of waiting transactions one is the drain, at the task row: it alone
\* takes a claim row before the task row.  Of the others, who waits for a task
\* holds nothing, who waits for an artifact waits for a transaction that waits for
\* nobody, and who waits for a claim waits for one of those two.
LEMMA CyclesNeedTheDrain ==
  ASSUME TxnInv, Held, NEW S \in SUBSET Procs, S # {}, Cycle(S)
  PROVE  \E p \in S : At(p, "drain.task")
<1> SUFFICES ASSUME \A p \in S : ~At(p, "drain.task") PROVE FALSE
  OBVIOUS
<1>1. \A p \in S : (\E q \in S : WaitsFor(p, q)) /\ (\E q \in S : WaitsFor(q, p))
  BY DEF Cycle
<1>2. ASSUME NEW p \in S
      PROVE  Wants(p) # {} /\ \E r \in Rows : lock[r] = p
  <2>1. PICK q \in S : WaitsFor(q, p)
    BY <1>1
  <2>2. PICK r \in Wants(q) : lock[r] = p
    BY <2>1 DEF WaitsFor
  <2>3. r \in Rows
    <3>1. TxnTypeOK /\ ProcInv(q)
      BY DEF TxnInv
    <3>2. txn[q].pc \in Working => txn[q].t \in Tasks /\ TaskRow(txn[q].t) \in Rows
                                   /\ ArtRow(txn[q].t) \in Rows
      BY <3>1, TxnType DEF ProcInv, Placed
    <3>3. \A c \in Live(q) \cup Lapsed(q) : ClaimRow(c.token) \in Rows
      BY <3>1, ClaimType, TxnType DEF TxnTypeOK, Live, Lapsed, ClaimsOf
    <3>4. txn[q].pc \in Recovering \cup Lapsing => ClaimRow(txn[q].k) \in Rows
      BY <3>1, FoundFacts, TxnType
    <3> QED
      BY <2>2, <3>2, <3>3, <3>4 DEF Wants, At, Working, ClientPCs, Recovering, Lapsing
  <2> QED
    BY <1>1, <2>2, <2>3 DEF WaitsFor
<1>3. ASSUME NEW p \in S
      PROVE  txn[p].pc \in WithTask \cup WithClaim \cup {"claim.insert"}
  <2>1. txn[p].pc \in WithTask \cup WithClaim \cup WithArt \cup {"claim.insert"}
    BY <1>2 DEF Held, Accounts
  <2>2. txn[p].pc \notin WithArt
    BY <1>2 DEF Wants, At, WithArt
  <2> QED
    BY <2>1, <2>2
<1>4. ASSUME NEW p \in S
      PROVE  txn[p].pc \notin {"claim.insert", "complete.artifact", "sweep.artifact"}
  <2> SUFFICES ASSUME txn[p].pc \in {"claim.insert", "complete.artifact", "sweep.artifact"}
               PROVE  FALSE
    OBVIOUS
  <2>1. PICK q \in S : WaitsFor(p, q)
    BY <1>1
  <2>2. lock[ArtRow(txn[p].t)] = q
    BY <2>1 DEF WaitsFor, Wants, At
  <2>3. ArtRow(txn[p].t) \in Rows
    BY TxnType DEF TxnInv, ProcInv, Placed, Working, ClientPCs, Recovering
  <2>4. txn[q].pc \in WithArt
    BY <2>2, <2>3 DEF Held, Accounts, ArtRow, TaskRow, ClaimRow
  <2> QED
    BY <1>3, <2>4 DEF WithArt, WithTask, WithClaim
<1>5. PICK p \in S : TRUE
  OBVIOUS
<1>6. PICK q \in S : WaitsFor(p, q)
  BY <1>1, <1>5
<1>7. txn[p].pc \in {"claim.lease", "release.claim", "complete.claim", "sweep.claim"}
  BY <1>2, <1>3, <1>4 DEF WithTask, WithClaim, Wants, At
<1>8. PICK k \in Tokens : lock[ClaimRow(k)] = q
  <2>1. PICK r \in Wants(p) : lock[r] = q
    BY <1>6 DEF WaitsFor
  <2>2. TxnTypeOK
    BY DEF TxnInv
  <2>3. r \in {ClaimRow(c.token) : c \in Live(p) \cup Lapsed(p)} \/
        (r = ClaimRow(txn[p].k) /\ txn[p].pc = "sweep.claim")
    BY <1>7, <2>1 DEF Wants, At
  <2>4. \A c \in Live(p) \cup Lapsed(p) : c.token \in Tokens
    BY <2>2, ClaimType DEF TxnTypeOK, Live, Lapsed, ClaimsOf
  <2>5. txn[p].pc = "sweep.claim" => txn[p].k \in Tokens
    BY FoundFacts DEF Recovering
  <2> QED
    BY <2>1, <2>3, <2>4, <2>5
<1>9. txn[q].pc \in WithClaim \cup {"claim.insert"}
  <2>1. ClaimRow(k) \in Rows
    BY DEF Rows
  <2> QED
    BY <1>8, <2>1 DEF Held, Accounts, ArtRow, TaskRow, ClaimRow
<1> QED
  BY <1>4, <1>9 DEF WithClaim, At

\* Transactions deadlock only while the topic closes: on an active topic there is
\* no cycle of waiting transactions, so nobody is ever aborted for one.
THEOREM ActiveTopicsNeverDeadlock == TxnSpec => [](topic = "active" => NoWaitCycle)
<1>1. ASSUME TxnInv, Held, topic = "active" PROVE NoWaitCycle
  <2> SUFFICES ASSUME NEW p \in Procs, NEW S \in SUBSET Procs, p \in S, Cycle(S) PROVE FALSE
    BY DEF NoWaitCycle, InCycle
  <2>1. PICK q \in S : At(q, "drain.task")
    BY <1>1, CyclesNeedTheDrain
  <2> QED
    BY <1>1, <2>1 DEF TxnInv, ProcInv, Removing, At, Draining, Lapsing
<1> QED
  BY <1>1, HeldAlways, PTL
=============================================================================
