------------------------------ MODULE BoardTxn ------------------------------
(***************************************************************************)
(* The transactions of the Board as PostgreSQL runs them: READ COMMITTED,  *)
(* row locks held to COMMIT, one action per statement (or group of         *)
(* statements) between which other transactions can get in.                *)
(*                                                                         *)
(* - A row lock is a conjunct of the action that takes it: the action is   *)
(*   disabled while another transaction holds the row.  lock[r] is the     *)
(*   holder of the locks that are kept while a later statement may wait.   *)
(*   The last lock of a transaction is taken in the action that commits.   *)
(* - The topics row is such a last lock everywhere (appendEvent, and the   *)
(*   FOR UPDATE of the sweep and of closeTopic), so it is never held       *)
(*   across two actions.  INSERT INTO claims takes FOR KEY SHARE on the    *)
(*   artifact row through its foreign key, which a FOR UPDATE holder       *)
(*   blocks: claimTask waits for the artifact although it never names it.  *)
(* - Plain SELECTs see committed rows and wait for nobody.                 *)
(* - now() is the time of BEGIN: a transaction takes a claim for expired   *)
(*   when it had expired by then (`dead`), whatever the clock says later.  *)
(* - A cycle of waiting transactions is broken by aborting one of them     *)
(*   (deadlock_timeout); the code rolls back and reports or skips it.      *)
(***************************************************************************)
EXTENDS Board, FiniteSets

CONSTANTS Sweeper,      \* the claims-sweep scheduler (one cycle at a time)
          Closer,       \* a caller of closeTopic
          None,         \* no task / no lock holder
          Ops,          \* what the actors do, a subset of ClientOps
          CloseEnabled, \* whether anybody closes the topic
          AuthEnabled,  \* MCP_AUTH_ENABLED
          MaxFaults     \* bound: crashes and failed scans

ClientOps == {"post", "claim", "release", "complete", "write", "baseline"}

ASSUME OpsAssumption == Ops \subseteq ClientOps
ASSUME SwitchAssumption == CloseEnabled \in BOOLEAN /\ AuthEnabled \in BOOLEAN
ASSUME BoundAssumption == MaxFaults \in Nat
ASSUME NoneAssumption == None \notin Tasks \cup Actors \cup {Sweeper, Closer}
ASSUME ProcAssumption == Sweeper # Closer /\ {Sweeper, Closer} \cap Actors = {}

VARIABLES txn,    \* per process: where its transaction is, and its locals
          scan,   \* per system process: claims its scan query returned
          lock,   \* row -> process holding it
          fence,  \* last value of coordination_fencing_seq
          faults  \* faults so far (bound only)

txnVars == <<txn, scan, lock, fence, faults>>
vars == <<boardVars, txnVars>>

System == {Sweeper, Closer}
Procs == Actors \cup System

TaskRow(t) == <<"task", t>>
ArtRow(t) == <<"artifact", t>>
ClaimRow(k) == <<"claim", k>>
Rows == {TaskRow(t) : t \in Tasks} \cup {ArtRow(t) : t \in Tasks}
            \cup {ClaimRow(k) : k \in Tokens}

ClientPCs == {"post", "claim.task", "claim.deps", "claim.lease", "claim.insert",
              "release.task", "release.claim",
              "complete.task", "complete.claim", "complete.artifact",
              "write", "write.commit", "baseline", "baseline.commit"}
SystemPCs == {"sweep.next", "sweep.task", "sweep.claim", "sweep.artifact",
              "close.freeze", "drain.scan", "drain.next", "drain.claim",
              "drain.task", "close.seal"}
Locals == [pc : {"idle"} \cup ClientPCs \cup SystemPCs,
           t : Tasks \cup {None}, k : 0..MaxToken, n : Numbers \cup {0},
           dead : SUBSET Tokens]

\* Rows, transaction positions, scans and locks are well formed.
TxnTypeOK ==
    /\ TypeOK
    /\ txn \in [Procs -> Locals]
    /\ scan \in [System -> SUBSET ClaimRows]
    /\ lock \in [Rows -> Procs \cup {None}]
    /\ fence \in 0..MaxToken
    /\ faults \in 0..MaxFaults

Idle == [pc |-> "idle", t |-> None, k |-> 0, n |-> 0, dead |-> {}]

TxnInit ==
    /\ BoardInit
    /\ txn = [p \in Procs |-> Idle]
    /\ scan = [p \in System |-> {}]
    /\ lock = [r \in Rows |-> None]
    /\ fence = 0
    /\ faults = 0

-----------------------------------------------------------------------------
(* Transactions and row locks. *)

At(p, pc) == txn[p].pc = pc
Goto(p, pc) == txn' = [txn EXCEPT ![p].pc = pc]
Free(p, r) == lock[r] \in {None, p}

\* SELECT ... FOR UPDATE, DELETE, UPDATE: wait for the row, then hold it.
Acquire(p, r) == Free(p, r) /\ lock' = [lock EXCEPT ![r] = p]

\* COMMIT and ROLLBACK drop every lock; `next` is where the process goes on.
ReleaseLocks(p) == lock' = [r \in Rows |-> IF lock[r] = p THEN None ELSE lock[r]]
EndTxn(p, next) ==
    /\ ReleaseLocks(p)
    /\ txn' = [txn EXCEPT ![p] = [Idle EXCEPT !.pc = next]]
Rollback(p, next) ==
    /\ EndTxn(p, next)
    /\ UNCHANGED <<boardVars, scan, fence, faults>>
Commit(p, next) ==
    /\ EndTxn(p, next)
    /\ UNCHANGED <<scan, fence, faults>>

\* Moves on inside a transaction without touching a committed row.
Step(p, pc) == Goto(p, pc) /\ UNCHANGED <<boardVars, scan, fence, faults>>

\* Where a process resumes after its transaction failed: an actor's call
\* returns an error, the loops of the sweep and of the drain `continue`.
Resume(p) ==
    CASE txn[p].pc \in {"sweep.task", "sweep.claim", "sweep.artifact"} -> "sweep.next"
      [] txn[p].pc \in {"drain.claim", "drain.task"} -> "drain.next"
      [] OTHER -> "idle"

\* The claims of p's task as p's transaction sees them (expires_at > now()).
Live(p) == {c \in ClaimsOf(txn[p].t) : c.token \notin txn[p].dead}
Lapsed(p) == {c \in ClaimsOf(txn[p].t) : c.token \in txn[p].dead}

\* The rows p's next statement has to lock.
Wants(p) ==
    LET t == txn[p].t IN
    CASE txn[p].pc \in {"claim.task", "release.task", "complete.task",
                        "sweep.task", "drain.task"} -> {TaskRow(t)}
      [] At(p, "claim.lease") -> {ClaimRow(c.token) : c \in Lapsed(p)}
      [] txn[p].pc \in {"release.claim", "complete.claim"} ->
             {ClaimRow(c.token) : c \in Live(p)}
      [] txn[p].pc \in {"sweep.claim", "drain.claim"} -> {ClaimRow(txn[p].k)}
      [] txn[p].pc \in {"claim.insert", "complete.artifact", "write",
                        "baseline", "sweep.artifact"} -> {ArtRow(t)}
      [] OTHER -> {}

WaitsFor(p, q) == p # q /\ \E r \in Wants(p) : lock[r] = q
Blocked(p) == \E q \in Procs : WaitsFor(p, q)

\* Everyone in S waits for someone in S, and is waited for.
Cycle(S) ==
    \A p \in S : (\E q \in S : WaitsFor(p, q)) /\ (\E q \in S : WaitsFor(q, p))
InCycle(p) == \E S \in SUBSET Procs : p \in S /\ Cycle(S)

\* PostgreSQL aborts one transaction of a cycle.
DeadlockAbort(p) == InCycle(p) /\ Rollback(p, Resume(p))

-----------------------------------------------------------------------------
(* The actors' calls. *)

\* BEGIN: now() is fixed here.
Begin(p, pc, t, k, n) ==
    /\ At(p, "idle")
    /\ txn' = [txn EXCEPT ![p] =
                   [pc |-> pc, t |-> t, k |-> k, n |-> n,
                    dead |-> {c.token : c \in ClaimsOf(t)} \cap expired]]
    /\ UNCHANGED <<boardVars, scan, lock, fence, faults>>

\* Bound: calls of claimTask that may still draw a token.
Drawing == {q \in Actors : txn[q].pc \in {"claim.task", "claim.deps", "claim.lease"}}

BeginClaim(p, t) ==
    /\ "claim" \in Ops /\ task[t] # "none"
    /\ fence + Cardinality(Drawing) < MaxToken
    /\ Begin(p, "claim.task", t, 0, 0)
BeginRelease(p, t) ==
    "release" \in Ops /\ task[t] # "none" /\ Begin(p, "release.task", t, 0, 0)
BeginComplete(p, t) ==
    "complete" \in Ops /\ task[t] # "none" /\ Begin(p, "complete.task", t, 0, 0)

\* writeArtifact and baselineArtifact present a claim_id that was issued on the
\* artifact, possibly long ago and to somebody else (any other is refused and
\* changes nothing), and any number as fencing_token.
BeginWrite(p, t, op) ==
    /\ op \in Ops
    /\ \E k \in granted[t], n \in Numbers : Begin(p, op, t, k, n)

\* postTask reads topics.status before it opens its transaction ...
PostCheck(p, t) ==
    /\ "post" \in Ops /\ task[t] = "none" /\ topic = "active"
    /\ \A d \in DependsOn[t] : task[d] # "none"
    /\ \A q \in Actors \ {p} : txn[q].t # t
    /\ Begin(p, "post", t, 0, 0)

\* ... and inserts the rows; only appendEvent looks at the status again.
PostCommit(p) ==
    /\ At(p, "post")
    /\ IF topic = "closed" THEN Rollback(p, "idle")
       ELSE PostEffect(txn[p].t) /\ Commit(p, "idle")

\* Faulty variant of claimTask: the task row is read without FOR UPDATE.
ClaimTaskUnlocked(p) ==
    LET t == txn[p].t IN
    /\ At(p, "claim.task")
    /\ UNCHANGED lock
    /\ IF task[t] = "completed" \/ topic # "active"
       THEN Goto(p, "idle") /\ UNCHANGED <<boardVars, scan, fence, faults>>
       ELSE Step(p, IF DependsOn[t] = {} THEN "claim.lease" ELSE "claim.deps")

\* claimTask: the task row FOR UPDATE, then a plain read of topics.status.
ClaimTask(p) ==
    LET t == txn[p].t IN
    /\ At(p, "claim.task")
    /\ Free(p, TaskRow(t))
    /\ IF task[t] = "completed" \/ topic # "active" THEN Rollback(p, "idle")
       ELSE /\ Acquire(p, TaskRow(t))
            /\ Step(p, IF DependsOn[t] = {} THEN "claim.lease" ELSE "claim.deps")

\* Faulty variant of the topology check: a claimed predecessor will do.
DepsStarted(t) ==
    Topology[t] = "sequential" => \A d \in DependsOn[t] : task[d] # "posted"

\* Topology enforcement: plain reads of the predecessors.
DepsMet(t) ==
    /\ Topology[t] = "sequential" => \A d \in DependsOn[t] : task[d] = "completed"
    /\ Topology[t] = "rolling" => \A d \in DependsOn[t] : artState[d] = "baselined"
ClaimDeps(p) ==
    /\ At(p, "claim.deps")
    /\ IF DepsMet(txn[p].t) THEN Step(p, "claim.lease") /\ UNCHANGED lock
       ELSE Rollback(p, "idle")

\* DELETE of the artifact's expired claims, the live-claim check, nextval.
ClaimLease(p) ==
    /\ At(p, "claim.lease")
    /\ \A c \in Lapsed(p) : Free(p, ClaimRow(c.token))
    /\ IF Live(p) # {} THEN Rollback(p, "idle")
       ELSE /\ lock' = [r \in Rows |->
                            IF r \in {ClaimRow(c.token) : c \in Lapsed(p)} THEN p
                            ELSE lock[r]]
            /\ fence' = fence + 1
            /\ txn' = [txn EXCEPT ![p].pc = "claim.insert", ![p].k = fence + 1]
            /\ UNCHANGED <<boardVars, scan, faults>>

\* Faulty variant: claims.artifact_id without its foreign key.
ClaimCommitNoKey(p) ==
    /\ At(p, "claim.insert")
    /\ IF topic = "closed" THEN Rollback(p, "idle")
       ELSE GrantEffect(txn[p].t, p, txn[p].k, Lapsed(p)) /\ Commit(p, "idle")

\* INSERT INTO claims (its foreign key waits for the artifact row), UPDATE
\* tasks, the two events, COMMIT.
ClaimCommit(p) ==
    LET t == txn[p].t IN
    /\ At(p, "claim.insert")
    /\ Free(p, ArtRow(t))
    /\ IF topic = "closed" THEN Rollback(p, "idle")
       ELSE GrantEffect(t, p, txn[p].k, Lapsed(p)) /\ Commit(p, "idle")

\* releaseTask: the task row, a plain read of topics.status ...
ReleaseTask(p) ==
    LET t == txn[p].t IN
    /\ At(p, "release.task")
    /\ Free(p, TaskRow(t))
    /\ IF topic = "closed" THEN Rollback(p, "idle")
       ELSE Acquire(p, TaskRow(t)) /\ Step(p, "release.claim")

\* ... the live claim FOR UPDATE, its owner, and the hand-off.
ReleaseCommit(p) ==
    /\ At(p, "release.claim")
    /\ \A c \in Live(p) : Free(p, ClaimRow(c.token))
    /\ \/ /\ topic = "closed" \/ \A c \in Live(p) : c.actor # p
          /\ Rollback(p, "idle")
       \/ /\ topic # "closed"
          /\ \E c \in Live(p) : c.actor = p /\ ReleaseEffect(c)
          /\ Commit(p, "idle")

\* completeTask: task row and topics.status, live claim and owner, artifact.
CompleteTask(p) ==
    LET t == txn[p].t IN
    /\ At(p, "complete.task")
    /\ Free(p, TaskRow(t))
    /\ IF task[t] = "completed" \/ topic = "closed" THEN Rollback(p, "idle")
       ELSE Acquire(p, TaskRow(t)) /\ Step(p, "complete.claim")

\* Faulty variant: the live claim is read without FOR UPDATE.
CompleteClaimUnlocked(p) ==
    /\ At(p, "complete.claim")
    /\ \E c \in Live(p) :
          /\ c.actor = p
          /\ txn' = [txn EXCEPT ![p].pc = "complete.artifact", ![p].k = c.token]
          /\ UNCHANGED <<boardVars, scan, lock, fence, faults>>

CompleteClaim(p) ==
    /\ At(p, "complete.claim")
    /\ \A c \in Live(p) : Free(p, ClaimRow(c.token))
    /\ \/ /\ \A c \in Live(p) : c.actor # p
          /\ Rollback(p, "idle")
       \/ \E c \in Live(p) :
             /\ c.actor = p
             /\ Acquire(p, ClaimRow(c.token))
             /\ txn' = [txn EXCEPT ![p].pc = "complete.artifact", ![p].k = c.token]
             /\ UNCHANGED <<boardVars, scan, fence, faults>>

CompleteCommit(p) ==
    LET t == txn[p].t IN
    /\ At(p, "complete.artifact")
    /\ Free(p, ArtRow(t))
    /\ IF artState[t] \notin WritableStates \/ topic = "closed" THEN Rollback(p, "idle")
       ELSE CompleteEffect(t, txn[p].k) /\ Commit(p, "idle")

\* Faulty variant of the guarded UPDATE: without the EXISTS on the claim.
AcceptsWithoutClaim(p, states) ==
    /\ artState[txn[p].t] \in states
    /\ accepted[txn[p].t] <= txn[p].n

\* The guarded UPDATE of writeArtifact and baselineArtifact on the locked
\* artifact row: writable state, fencing number, live claim, owner.  The number
\* is compared with what the artifact has accepted, never with the claim's token.
Accepts(p, states) ==
    LET t == txn[p].t IN
    /\ artState[t] \in states
    /\ accepted[t] <= txn[p].n
    /\ \E c \in Live(p) : c.token = txn[p].k /\ c.actor = p

WriteGuard(p, op, states, next) ==
    /\ At(p, op)
    /\ Free(p, ArtRow(txn[p].t))
    /\ IF Accepts(p, states)
       THEN Acquire(p, ArtRow(txn[p].t)) /\ Step(p, next)
       ELSE Rollback(p, "idle")

\* The version row and the events; the claim is not looked at again.
WriteCommit(p) ==
    /\ At(p, "write.commit")
    /\ IF topic = "closed" THEN Rollback(p, "idle")
       ELSE WriteEffect(txn[p].t, txn[p].k, txn[p].n) /\ Commit(p, "idle")

\* Faulty variant: the event is appended without looking at the seal.
BaselineUnsealed(p) ==
    /\ At(p, "baseline.commit")
    /\ BaselineEffect(txn[p].t, txn[p].k, txn[p].n)
    /\ Commit(p, "idle")

BaselineCommit(p) ==
    /\ At(p, "baseline.commit")
    /\ IF topic = "closed" THEN Rollback(p, "idle")
       ELSE BaselineEffect(txn[p].t, txn[p].k, txn[p].n) /\ Commit(p, "idle")

-----------------------------------------------------------------------------
(* sweepAbandonedClaims: one scan, then one transaction per claim found. *)

SweepScan ==
    /\ At(Sweeper, "idle")
    /\ scan' = [scan EXCEPT ![Sweeper] = {c \in claims : c.token \in expired}]
    /\ Goto(Sweeper, "sweep.next")
    /\ UNCHANGED <<boardVars, lock, fence, faults>>

\* BEGIN for the next claim of a scan; the scans have no ORDER BY.
Pick(p, from, to) ==
    /\ At(p, from)
    /\ \E c \in scan[p] :
          /\ scan' = [scan EXCEPT ![p] = @ \ {c}]
          /\ txn' = [txn EXCEPT ![p] =
                        [Idle EXCEPT !.pc = to, !.t = c.task, !.k = c.token]]
    /\ UNCHANGED <<boardVars, lock, fence, faults>>

SweepPick == Pick(Sweeper, "sweep.next", "sweep.task")

\* Faulty variant of the sweep: the claim row before the task row.
SweepClaimFirst ==
    /\ At(Sweeper, "sweep.task")
    /\ \E c \in claims : c.token = txn[Sweeper].k
    /\ Acquire(Sweeper, ClaimRow(txn[Sweeper].k))
    /\ Step(Sweeper, "drain.task")

SweepTask ==
    /\ At(Sweeper, "sweep.task")
    /\ Acquire(Sweeper, TaskRow(txn[Sweeper].t))
    /\ Step(Sweeper, "sweep.claim")

\* The claim a sweep or drain transaction is about, if its row is still there.
Found(p) == {c \in claims : c.token = txn[p].k}

SweepClaim ==
    LET r == ClaimRow(txn[Sweeper].k) IN
    /\ At(Sweeper, "sweep.claim")
    /\ Free(Sweeper, r)
    /\ IF Found(Sweeper) = {} THEN Rollback(Sweeper, "sweep.next")
       ELSE Acquire(Sweeper, r) /\ Step(Sweeper, "sweep.artifact")

\* Faulty variant: the sweep leaves the claims of a closing or closed topic.
SweepActiveOnly ==
    /\ At(Sweeper, "sweep.artifact")
    /\ Free(Sweeper, ArtRow(txn[Sweeper].t))
    /\ IF topic = "active"
       THEN /\ \E c \in Found(Sweeper) : RetireEffect(c)
            /\ Commit(Sweeper, "sweep.next")
       ELSE Rollback(Sweeper, "sweep.next")

\* Artifact row, topics row FOR UPDATE, the recovery or the drop, COMMIT.
SweepCommit ==
    /\ At(Sweeper, "sweep.artifact")
    /\ Free(Sweeper, ArtRow(txn[Sweeper].t))
    /\ \E c \in Found(Sweeper) :
          IF topic = "active" THEN RetireEffect(c) ELSE DropEffect(c)
    /\ Commit(Sweeper, "sweep.next")

SweepDone == At(Sweeper, "sweep.next") /\ scan[Sweeper] = {}
SweepEnd == SweepDone /\ Rollback(Sweeper, "idle")

\* sweepStuckClosingTopics: the topic has been closing for too long.  It calls
\* closeTopic without a principal, which assertAuthorized refuses when
\* MCP_AUTH_ENABLED; the error is logged and the cycle goes on.
RecoverClosing ==
    /\ SweepDone
    /\ topic = "closing"
    /\ Rollback(Sweeper, IF AuthEnabled THEN "idle" ELSE "close.freeze")

-----------------------------------------------------------------------------
(* closeTopic, run by the Closer or, for a stuck topic, by the Sweeper. *)

BeginClose == CloseEnabled /\ Begin(Closer, "close.freeze", None, 0, 0)

\* Faulty variant of Phase 1: no re-entry on a topic that is closing already.
CloseFreezeOnce(p) ==
    /\ At(p, "close.freeze")
    /\ IF topic = "active" THEN TopicEffect("closing") /\ Commit(p, "drain.scan")
       ELSE Rollback(p, "idle")

\* Phase 1, and its re-entry on a topic that is closing already.
CloseFreeze(p) ==
    /\ At(p, "close.freeze")
    /\ CASE topic = "closed" -> Rollback(p, "idle")
         [] topic = "active" -> TopicEffect("closing") /\ Commit(p, "drain.scan")
         [] OTHER -> Rollback(p, "drain.scan")

\* Phase 2-A: the claims to force-lapse.  A failed scan skips the pass.
DrainScan(p) ==
    /\ At(p, "drain.scan")
    /\ \/ /\ scan' = [scan EXCEPT ![p] = claims]
          /\ Goto(p, "drain.next")
          /\ UNCHANGED faults
       \/ /\ faults < MaxFaults
          /\ faults' = faults + 1
          /\ Goto(p, "close.seal")
          /\ UNCHANGED scan
    /\ UNCHANGED <<boardVars, lock, fence>>

DrainPick(p) == Pick(p, "drain.next", "drain.claim")

\* DELETE FROM claims takes the claim row first ...
DrainDelete(p) ==
    LET r == ClaimRow(txn[p].k) IN
    /\ At(p, "drain.claim")
    /\ Free(p, r)
    /\ IF Found(p) = {} THEN Rollback(p, "drain.next")
       ELSE Acquire(p, r) /\ Step(p, "drain.task")

\* Faulty variant: the drain's event is appended without looking at the seal.
DrainUnsealed(p) ==
    /\ At(p, "drain.task")
    /\ Free(p, TaskRow(txn[p].t))
    /\ \E c \in Found(p) : ForceLapseEffect(c)
    /\ Commit(p, "drain.next")

\* ... UPDATE tasks the task row after it; then the event and COMMIT.
DrainCommit(p) ==
    /\ At(p, "drain.task")
    /\ Free(p, TaskRow(txn[p].t))
    /\ IF topic = "closed" THEN Rollback(p, "drain.next")
       ELSE /\ \E c \in Found(p) : ForceLapseEffect(c)
            /\ Commit(p, "drain.next")

\* statement_timeout, set only by the stuck-closing recovery: the statement
\* that waits too long for a row is cancelled and its claim skipped.
DrainTimeout ==
    /\ At(Sweeper, "drain.claim") \/ At(Sweeper, "drain.task")
    /\ Blocked(Sweeper)
    /\ Rollback(Sweeper, "drain.next")

DrainEnd(p) ==
    /\ At(p, "drain.next")
    /\ scan[p] = {}
    /\ Rollback(p, "close.seal")

\* Phase 3: appendEvent refuses a topic another caller has sealed.
CloseSeal(p) ==
    /\ At(p, "close.seal")
    /\ IF topic = "closed" THEN Rollback(p, "idle")
       ELSE TopicEffect("closed") /\ Commit(p, "idle")

-----------------------------------------------------------------------------
(* The environment. *)

\* The process dies or loses its connection: PostgreSQL rolls back.
Crash(p) ==
    /\ ~At(p, "idle")
    /\ faults < MaxFaults
    /\ faults' = faults + 1
    /\ EndTxn(p, "idle")
    /\ scan' = [q \in System |-> IF q = p THEN {} ELSE scan[q]]
    /\ UNCHANGED <<boardVars, fence>>

\* resolveArtifact: the artifact row, then the topics row in appendEvent.
ResolveCommit(t, outcome) ==
    /\ artState[t] = "for_review"
    /\ lock[ArtRow(t)] = None
    /\ topic # "closed"
    /\ ResolveEffect(t, outcome)
    /\ UNCHANGED txnVars

ExpireClaim(c) == c.token \notin expired /\ ExpireEffect(c) /\ UNCHANGED txnVars

-----------------------------------------------------------------------------
\* Steps that start a call ...
Start(p) ==
    \E t \in Tasks :
        \/ PostCheck(p, t)
        \/ BeginClaim(p, t)
        \/ BeginRelease(p, t)
        \/ BeginComplete(p, t)
        \/ BeginWrite(p, t, "write")
        \/ BeginWrite(p, t, "baseline")

\* ... steps that carry one on ...
ActorStep(p) ==
    \/ PostCommit(p)
    \/ ClaimTask(p)
    \/ ClaimDeps(p)
    \/ ClaimLease(p)
    \/ ClaimCommit(p)
    \/ ReleaseTask(p)
    \/ ReleaseCommit(p)
    \/ CompleteTask(p)
    \/ CompleteClaim(p)
    \/ CompleteCommit(p)
    \/ WriteGuard(p, "write", WritableStates, "write.commit")
    \/ WriteCommit(p)
    \/ WriteGuard(p, "baseline", {"draft", "working"}, "baseline.commit")
    \/ BaselineCommit(p)

CloseStep(p) ==
    \/ CloseFreeze(p)
    \/ DrainScan(p)
    \/ DrainPick(p)
    \/ DrainDelete(p)
    \/ DrainCommit(p)
    \/ DrainEnd(p)
    \/ CloseSeal(p)

SweepStep ==
    \/ SweepPick
    \/ SweepTask
    \/ SweepClaim
    \/ SweepCommit
    \/ SweepEnd
    \/ CloseStep(Sweeper)

\* ... and what happens to everybody.
TxnNext ==
    \/ \E p \in Actors : Start(p) \/ ActorStep(p)
    \/ SweepScan
    \/ SweepStep
    \/ RecoverClosing
    \/ DrainTimeout
    \/ BeginClose
    \/ CloseStep(Closer)
    \/ \E p \in Procs : DeadlockAbort(p) \/ Crash(p)
    \/ \E t \in Tasks, o \in {"final", "working"} : ResolveCommit(t, o)
    \/ \E c \in claims : ExpireClaim(c)

TxnSpec == TxnInit /\ [][TxnNext]_vars

\* A statement that waits for a row is queued, so it gets the row if the row
\* becomes free again and again: strong fairness of every transaction under
\* way.  The scheduler's timer keeps firing, a topic that stays closing passes
\* the staleness threshold, and deadlock_timeout breaks a cycle.  Nobody is
\* obliged to begin a call.
Fairness ==
    /\ \A p \in Actors : SF_vars(ActorStep(p))
    /\ SF_vars(SweepStep)
    /\ SF_vars(CloseStep(Closer))
    /\ WF_vars(SweepScan)
    /\ SF_vars(RecoverClosing)
    /\ WF_vars(\E p \in Procs : DeadlockAbort(p))

FairSpec == TxnSpec /\ Fairness

-----------------------------------------------------------------------------
(* Properties of the transactions. *)

\* Every COMMIT respects the contract of the Board, and nothing but a COMMIT
\* changes a committed row.
ImplementsBoard == Spec

\* INSERT INTO claims never meets claims_active_uniq: while claimTask waits for
\* the artifact row, the only claims of its artifact are those it has deleted
\* itself, and its token is new, and newer than every token of the task (15.2
\* design, §9.1: "structurally unreachable as a race given the lock").
InsertNeverCollides ==
    \A p \in Actors :
        At(p, "claim.insert") =>
            /\ \A c \in ClaimsOf(txn[p].t) :
                  c \in Lapsed(p) /\ lock[ClaimRow(c.token)] = p
            /\ \A k \in granted[txn[p].t] : k < txn[p].k
            /\ \A t \in Tasks : txn[p].k \notin granted[t]

\* Nobody writes under a claim the board has fenced out: from the guarded UPDATE
\* to the COMMIT of a write or a baseline no newer claim is granted on its
\* artifact, and its own is not swept or completed, although the transaction
\* looks at the claim only once, whatever number it presented; and the commit
\* never lowers accepted_fencing_token (15.2 design, §9.2).
StaleHolderNeverWrites ==
    \A p \in Actors :
        txn[p].pc \in {"write.commit", "baseline.commit"} =>
            /\ barrier[txn[p].t] <= txn[p].k
            /\ accepted[txn[p].t] <= txn[p].n

\* No transactions wait for each other in a cycle (15.2 design, §9.6).
NoWaitCycle == \A p \in Procs : ~InCycle(p)

\* What a transaction under way has seen stays true until it commits: the claim
\* completeTask found live, and the one the sweep or the drain found, is still
\* there while the transaction holds its row.
ClaimsInHandStay ==
    \A p \in Procs :
        txn[p].pc \in {"complete.artifact", "sweep.artifact", "drain.task"} =>
            \E c \in claims : c.task = txn[p].t /\ c.token = txn[p].k

\* An expired claim leaves an active board only by a recovery that reverts its
\* artifact to the last baseline (coordinationSweep.ts: "The sweep is the ONLY
\* consumer of an expired claim").
ExpiredWorkIsReverted ==
    [][topic = "active" =>
          \A c \in claims \ claims' :
              c.token \in expired =>
                  artState'[c.task] = RevertState(c.task)
                  /\ content'[c.task] = RevertContent(c.task)]_vars

\* A topic that starts to close is sealed in the end, whoever crashes on the
\* way (sweepStuckClosingTopics).
ClosingEventuallyCloses == (topic = "closing") ~> (topic = "closed")

\* An abandoned claim does not block its task forever.
ExpiredClaimsAreRecovered ==
    \A k \in Tokens :
        (\E c \in claims : c.token = k /\ k \in expired)
            ~> (\A c \in claims : c.token # k)
=============================================================================
