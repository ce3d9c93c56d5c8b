----------------------------- MODULE LeaseProofs -----------------------------
(***************************************************************************)
(* Proofs about artifact leases, for any agents, artifacts and calls, and  *)
(* any limits.                                                             *)
(***************************************************************************)
EXTENDS Leases, FiniteSetTheorems, TLAPS

(* The inductive invariant. *)

TxnRow == [pc : {"idle", "begin", "count", "look", "insert", "commit", "reread"},
           art : Artifacts \cup {None}, dead : SUBSET Ids,
           new : Ids \cup {None}, cleared : BOOLEAN, tries : 0..MaxRetries]

\* A claim takes for expired only what has expired; what it deleted is still
\* there for the others, and nobody else gets at it; a row it inserted replaces
\* that lease or none.
CallInv(c) ==
    LET t == txn[c]
    IN  /\ t.dead \subseteq expired
        /\ t.pc # "idle" => t.art \in Artifacts
        /\ t.cleared => /\ t.pc \in {"count", "look", "insert", "commit"}
                        /\ lease[t.art] \in t.dead
        /\ t.new # None => t.pc = "commit"
        /\ t.pc = "commit" => /\ t.new \in 1..used
                              /\ owner[t.new] = Agent[c]
                              /\ t.cleared \/ lease[t.art] = None

\* At most one claim has changed the row of an artifact.
Marked(c) == txn[c].cleared \/ txn[c].new # None
Exclusive ==
    \A c, d \in Calls : Marked(c) /\ Marked(d) /\ txn[c].art = txn[d].art => c = d

\* No lease is on two artifacts, or drawn by two claims.
Distinct ==
    /\ \A a, b \in Artifacts : lease[a] # None /\ lease[a] = lease[b] => a = b
    /\ \A c \in Calls, a \in Artifacts : txn[c].new # None => lease[a] # txn[c].new
    /\ \A c, d \in Calls : txn[c].new # None /\ txn[c].new = txn[d].new => c = d

\* Claims under way that may yet draw a lease id.
Spending == {c \in Calls : txn[c].pc \notin {"idle", "commit"}}
Room == used + Cardinality(Spending) <= MaxLeases

\* The claims of an agent that have been counted, and what the limit makes of
\* them: each may add one lease.
CallsOf(g) == {c \in Calls : Agent[c] = g}
Past(g) == {c \in CallsOf(g) : txn[c].pc \in {"look", "insert", "commit"}}
Held(g) == {a \in Active(g) : lease[a] \notin revived}
Limited(g) == Cardinality(Held(g)) + Cardinality(Past(g)) < MaxActive + Cardinality(CallsOf(g))

IInv ==
    /\ TypeOK
    /\ \A c \in Calls : CallInv(c)
    /\ Exclusive
    /\ Distinct
    /\ \A a \in Artifacts : lease[a] # None => lease[a] \in 1..used
    /\ Room
    /\ \A g \in Agents : Limited(g)

-----------------------------------------------------------------------------
(* Counting. *)

\* The sets that are counted are finite.
LEMMA Sizes ==
  ASSUME NEW g
  PROVE  /\ IsFiniteSet(Spending) /\ Cardinality(Spending) \in Nat
         /\ IsFiniteSet(CallsOf(g)) /\ Cardinality(CallsOf(g)) \in Nat
         /\ IsFiniteSet(Past(g)) /\ Cardinality(Past(g)) \in Nat
         /\ Cardinality(Past(g)) <= Cardinality(CallsOf(g))
         /\ IsFiniteSet(Held(g)) /\ Cardinality(Held(g)) \in Nat
<1>1. /\ Spending \subseteq Calls /\ CallsOf(g) \subseteq Calls
      /\ Past(g) \subseteq CallsOf(g) /\ Held(g) \subseteq Artifacts
  BY DEF Spending, CallsOf, Past, Held, Active
<1>2. IsFiniteSet(Calls) /\ IsFiniteSet(Artifacts)
  BY LeasesAssumption
<1>3. IsFiniteSet(CallsOf(g))
  BY <1>1, <1>2, FS_Subset
<1> QED
  BY <1>1, <1>2, <1>3, FS_Subset, FS_CardinalityType

\* A set that gains at most one element gains at most one in number.
LEMMA AtMostOneMore ==
  ASSUME NEW S, NEW T, NEW x, IsFiniteSet(S), T \subseteq S \cup {x}
  PROVE  /\ IsFiniteSet(T) /\ Cardinality(T) \in Nat /\ Cardinality(S) \in Nat
         /\ Cardinality(T) <= Cardinality(S) + 1
<1>1. /\ IsFiniteSet(S \cup {x}) /\ Cardinality(S \cup {x}) \in Nat
      /\ Cardinality(S \cup {x}) <= Cardinality(S) + 1
  BY FS_AddElement, FS_CardinalityType
<1>2. IsFiniteSet(T) /\ Cardinality(T) <= Cardinality(S \cup {x})
  BY <1>1, FS_Subset
<1> QED
  BY <1>1, <1>2, FS_CardinalityType

\* A set that loses an element loses one in number, however it shrinks.
LEMMA OneLess ==
  ASSUME NEW S, NEW T, NEW x, IsFiniteSet(S), x \in S, T \subseteq S \ {x}
  PROVE  /\ Cardinality(T) \in Nat /\ Cardinality(S) \in Nat
         /\ Cardinality(T) + 1 <= Cardinality(S)
<1>1. /\ IsFiniteSet(S \ {x}) /\ Cardinality(S \ {x}) = Cardinality(S) - 1
  BY FS_RemoveElement
<1>2. Cardinality(T) <= Cardinality(S \ {x}) /\ IsFiniteSet(T)
  BY <1>1, FS_Subset
<1> QED
  BY <1>1, <1>2, FS_CardinalityType

\* A set that only shrinks has no more elements.
LEMMA NoMore ==
  ASSUME NEW S, NEW T, IsFiniteSet(S), T \subseteq S
  PROVE  Cardinality(T) \in Nat /\ Cardinality(S) \in Nat /\ Cardinality(T) <= Cardinality(S)
  BY FS_Subset, FS_CardinalityType

-----------------------------------------------------------------------------
(* The statements of a claim. *)

\* A claim takes a step that changes no row the others see.
LEMMA CallMoves ==
  ASSUME IInv, NEW c \in Calls, NEW row \in TxnRow,
         txn' = [txn EXCEPT ![c] = row],
         UNCHANGED <<lease, expired, revived>>,
         owner' \in [Ids -> Agents \cup {None}],
         used' \in Nat, used <= used',
         \A i \in 1..used : owner'[i] = owner[i],
         row.dead \subseteq expired,
         row.pc # "idle" => row.art \in Artifacts,
         row.cleared => /\ row.pc \in {"count", "look", "insert", "commit"}
                        /\ lease[row.art] \in row.dead,
         row.new # None => row.pc = "commit",
         row.new = None \/ row.new = used + 1,
         row.pc = "commit" => /\ row.new \in 1..used' /\ owner'[row.new] = Agent[c]
                              /\ row.cleared \/ lease[row.art] = None,
         row.cleared \/ row.new # None =>
            \/ Marked(c) /\ row.art = txn[c].art
            \/ \A d \in Calls \ {c} : ~(Marked(d) /\ txn[d].art = row.art),
         \/ used' = used /\ (row.pc \in {"idle", "commit"} \/ c \in Spending)
         \/ used' = used + 1 /\ c \in Spending /\ row.pc = "commit"
         \/ used' = used /\ used + Cardinality(Spending) < MaxLeases,
         row.pc \in {"look", "insert", "commit"} =>
            \/ txn[c].pc \in {"look", "insert", "commit"}
            \/ /\ txn[c].pc = "count"
               /\ Cardinality(Held(Agent[c])) < MaxActive
  PROVE  IInv'
<1>1. /\ txn \in [Calls -> TxnRow] /\ txn' \in [Calls -> TxnRow]
      /\ txn'[c] = row /\ \A d \in Calls : d # c => txn'[d] = txn[d]
      /\ used \in Nat /\ MaxLeases \in Nat
  BY LeasesAssumption DEF IInv, TypeOK, TxnRow
<1>2. \A d \in Calls : CallInv(d)'
  <2>1. CallInv(c)'
    BY <1>1 DEF CallInv
  <2>2. ASSUME NEW d \in Calls, d # c PROVE CallInv(d)'
    <3>1. CallInv(d) /\ txn'[d] = txn[d]
      BY <1>1, <2>2 DEF IInv
    <3>2. txn[d].pc = "commit" => /\ txn[d].new \in 1..used'
                                  /\ owner'[txn[d].new] = owner[txn[d].new]
      BY <1>1, <3>1 DEF CallInv
    <3> QED
      BY <3>1, <3>2 DEF CallInv
  <2> QED
    BY <2>1, <2>2
<1>3. Exclusive'
  <2>1. Exclusive
    BY DEF IInv
  <2> QED
    BY <1>1, <2>1 DEF Exclusive, Marked
<1>4. Room'
  <2>1. Room /\ IsFiniteSet(Spending) /\ Cardinality(Spending) \in Nat
    BY Sizes DEF IInv
  <2>2. Spending' \subseteq Spending \cup {c}
        /\ (row.pc \in {"idle", "commit"} => Spending' \subseteq Spending \ {c})
    BY <1>1 DEF Spending
  <2>3. CASE used' = used + 1 /\ c \in Spending /\ row.pc = "commit"
    <3>1. Cardinality(Spending') + 1 <= Cardinality(Spending) /\ Cardinality(Spending') \in Nat
      BY <2>1, <2>2, <2>3, OneLess
    <3> QED
      BY <1>1, <2>1, <2>3, <3>1 DEF Room
  <2>4. CASE used' = used /\ (row.pc \in {"idle", "commit"} \/ c \in Spending)
    <3>1. Spending' \subseteq Spending
      BY <2>2, <2>4
    <3>2. Cardinality(Spending') <= Cardinality(Spending) /\ Cardinality(Spending') \in Nat
      BY <2>1, <3>1, NoMore
    <3> QED
      BY <1>1, <2>1, <2>4, <3>2 DEF Room
  <2>5. CASE used' = used /\ used + Cardinality(Spending) < MaxLeases
    <3>1. Cardinality(Spending') <= Cardinality(Spending) + 1 /\ Cardinality(Spending') \in Nat
      BY <2>1, <2>2, AtMostOneMore
    <3> QED
      BY <1>1, <2>1, <2>5, <3>1 DEF Room
  <2> QED
    BY <2>3, <2>4, <2>5
<1>5. \A a \in Artifacts : lease'[a] # None => lease'[a] \in 1..used'
  BY <1>1 DEF IInv
<1>8. Distinct'
  <2>1. row.new # None => /\ \A a \in Artifacts : lease[a] # row.new
                          /\ \A d \in Calls : txn[d].new # row.new
    BY <1>1 DEF IInv, CallInv
  <2>2. Distinct
    BY DEF IInv
  <2> QED
    BY <1>1, <2>1, <2>2 DEF Distinct
<1>6. ASSUME NEW g \in Agents PROVE Limited(g)'
  <2>1. Limited(g) /\ MaxActive \in Nat \ {0}
    BY LeasesAssumption DEF IInv
  <2>2. Held(g)' = Held(g)
    BY <1>1 DEF Held, Active, IInv
  <2>3. CallsOf(g)' = CallsOf(g)
    BY DEF CallsOf
  <2>4. /\ IsFiniteSet(Past(g)) /\ IsFiniteSet(CallsOf(g)) /\ Cardinality(Past(g)) \in Nat
        /\ Cardinality(CallsOf(g)) \in Nat /\ Cardinality(Held(g)) \in Nat
    BY Sizes
  <2>5. CASE Past(g)' \subseteq Past(g)
    <3>1. Cardinality(Past(g)') <= Cardinality(Past(g)) /\ Cardinality(Past(g)') \in Nat
      BY <2>4, <2>5, NoMore
    <3> QED
      BY <2>1, <2>2, <2>3, <2>4, <3>1 DEF Limited
  <2>6. CASE ~(Past(g)' \subseteq Past(g))
    <3>1. c \in CallsOf(g) /\ row.pc \in {"look", "insert", "commit"}
          /\ txn[c].pc \notin {"look", "insert", "commit"}
      BY <1>1, <2>6 DEF Past, CallsOf
    <3>2. Cardinality(Held(g)) < MaxActive
      BY <3>1 DEF CallsOf
    <3>3. Past(g)' \subseteq CallsOf(g)
      BY <2>3 DEF Past
    <3>4. Cardinality(Past(g)') <= Cardinality(CallsOf(g)) /\ Cardinality(Past(g)') \in Nat
      BY <2>4, <3>3, NoMore
    <3> QED
      BY <2>1, <2>2, <2>3, <2>4, <3>2, <3>4 DEF Limited
  <2> QED
    BY <2>5, <2>6
<1>7. TypeOK'
  <2>1. used' \in 0..MaxLeases
    <3>1. Cardinality(Spending') \in Nat
      <4>1. Spending' \subseteq Calls /\ IsFiniteSet(Calls)
        BY LeasesAssumption DEF Spending
      <4> QED
        BY <4>1, FS_Subset, FS_CardinalityType
    <3> QED
      BY <1>1, <1>4, <3>1 DEF Room
  <2> QED
    BY <1>1, <2>1 DEF IInv, TypeOK, TxnRow
<1> QED
  BY <1>2, <1>3, <1>4, <1>5, <1>6, <1>7, <1>8 DEF IInv

\* The row of a claim under way.
LEMMA TxnFacts ==
  ASSUME IInv, NEW c \in Calls
  PROVE  /\ txn[c] \in TxnRow /\ txn \in [Calls -> TxnRow]
         /\ CallInv(c) /\ owner \in [Ids -> Agents \cup {None}]
         /\ used \in 0..MaxLeases /\ MaxLeases \in Nat
         /\ txn[c].pc \notin {"idle", "commit"} => c \in Spending
  BY LeasesAssumption DEF IInv, TypeOK, TxnRow, Spending

\* The row of a claim that is answered or has not begun.
LEMMA IdleRow ==
  /\ Idle \in TxnRow /\ Idle.pc = "idle" /\ Idle.art = None /\ Idle.dead = {}
  /\ Idle.new = None /\ Idle.cleared = FALSE /\ Idle.tries = 0
  BY LeasesAssumption DEF Idle, TxnRow

\* A claim is answered, and rolled back.
LEMMA ReplyInv ==
  ASSUME IInv, NEW c \in Calls, txn[c].pc # "commit", Reply(c), Reads
  PROVE  IInv'
<1>1. txn' = [txn EXCEPT ![c] = Idle]
  BY DEF Reply
<1>2. /\ UNCHANGED <<lease, expired, revived>> /\ used' = used
      /\ owner' \in [Ids -> Agents \cup {None}]
      /\ used' \in Nat /\ used <= used' /\ \A i \in 1..used : owner'[i] = owner[i]
  BY TxnFacts DEF Reads
<1>3. /\ Idle \in TxnRow /\ Idle.pc = "idle" /\ Idle.dead \subseteq expired
      /\ ~Idle.cleared /\ Idle.new = None
  BY IdleRow
<1> HIDE DEF IInv, Reply, Reads
<1> QED
  BY <1>1, <1>2, <1>3, CallMoves

\* A claim goes on to its next statement.
LEMMA GoesInv ==
  ASSUME IInv, NEW c \in Calls, NEW pc \in {"look", "insert"}, Goes(c, pc), Reads,
         \/ txn[c].pc = "look" /\ pc = "insert"
         \/ txn[c].pc = "count" /\ pc = "look" /\ Cardinality(Held(Agent[c])) < MaxActive
  PROVE  IInv'
<1> DEFINE row == [txn[c] EXCEPT !.pc = pc]
<1>1. /\ row \in TxnRow /\ row.pc = pc /\ row.art = txn[c].art /\ row.dead = txn[c].dead
      /\ row.new = txn[c].new /\ row.cleared = txn[c].cleared
  BY TxnFacts DEF TxnRow
<1>2. txn' = [txn EXCEPT ![c] = row]
  BY DEF Goes
<1> HIDE DEF row
<1>3. /\ UNCHANGED <<lease, expired, revived>> /\ used' = used
      /\ owner' \in [Ids -> Agents \cup {None}]
      /\ used' \in Nat /\ used <= used' /\ \A i \in 1..used : owner'[i] = owner[i]
  BY TxnFacts DEF Reads
<1>4. CallInv(c) /\ c \in Spending /\ txn[c].pc \notin {"idle", "commit"}
  BY TxnFacts
<1>5. row.dead \subseteq expired /\ row.art \in Artifacts /\ row.new = None
      /\ (row.cleared => lease[row.art] \in row.dead)
  BY <1>1, <1>4 DEF CallInv
<1>6. /\ row.pc \in {"look", "insert"} /\ row.pc # "commit"
      /\ row.cleared => Marked(c) /\ row.art = txn[c].art
      /\ \/ txn[c].pc \in {"look", "insert", "commit"}
         \/ /\ txn[c].pc = "count"
            /\ Cardinality(Held(Agent[c])) < MaxActive
  BY <1>1 DEF Marked
<1> QED
  BY <1>1, <1>2, <1>3, <1>4, <1>5, <1>6, CallMoves

\* A claim starts, or starts again, at the clock of now.
LEMMA BeginInv ==
  ASSUME IInv, NEW c \in Calls, NEW row \in TxnRow, txn' = [txn EXCEPT ![c] = row], Reads,
         row.pc = "begin", row.art \in Artifacts, row.dead = expired,
         row.new = None, row.cleared = FALSE,
         c \in Spending \/ used + Cardinality(Spending) < MaxLeases
  PROVE  IInv'
<1>1. /\ UNCHANGED <<lease, expired, revived>> /\ used' = used
      /\ owner' \in [Ids -> Agents \cup {None}]
      /\ used' \in Nat /\ used <= used' /\ \A i \in 1..used : owner'[i] = owner[i]
      /\ row.dead \subseteq expired
  BY TxnFacts DEF Reads
<1> HIDE DEF IInv, Reads
<1> QED
  BY <1>1, CallMoves

\* The UPDATE of a claim's own flag.
LEMMA ClearedRow ==
  ASSUME NEW t \in TxnRow, NEW b \in BOOLEAN
  PROVE  LET row == [t EXCEPT !.pc = "count", !.cleared = b]
         IN  /\ row \in TxnRow /\ row.pc = "count" /\ row.art = t.art /\ row.dead = t.dead
             /\ row.new = t.new /\ row.cleared = b
  BY DEF TxnRow

\* Step 1: what it deletes had expired, and nobody else has touched it.
LEMMA DeleteExpiredInv ==
  ASSUME IInv, NEW c \in Calls, DeleteExpired(c)
  PROVE  IInv'
<1> DEFINE a == txn[c].art
           gone == lease[a] \in txn[c].dead
           row == [txn[c] EXCEPT !.pc = "count", !.cleared = gone]
<1>1. /\ row \in TxnRow /\ row.pc = "count" /\ row.art = a /\ row.dead = txn[c].dead
      /\ row.new = txn[c].new /\ row.cleared = gone
  <2>1. gone \in BOOLEAN /\ txn[c] \in TxnRow
    BY TxnFacts
  <2> HIDE DEF gone
  <2> QED
    BY <2>1, ClearedRow
<1>2. txn' = [txn EXCEPT ![c] = row] /\ txn[c].pc = "begin"
      /\ (lease[a] \in txn[c].dead => ~Busy(c, a)) /\ Reads
  BY DEF DeleteExpired
<1> HIDE DEF row
<1>3. /\ UNCHANGED <<lease, expired, revived>> /\ used' = used
      /\ owner' \in [Ids -> Agents \cup {None}]
      /\ used' \in Nat /\ used <= used' /\ \A i \in 1..used : owner'[i] = owner[i]
  BY <1>2, TxnFacts DEF Reads
<1>4. /\ row.dead \subseteq expired /\ row.art \in Artifacts /\ row.new = None
      /\ (row.cleared => lease[row.art] \in row.dead)
      /\ c \in Spending /\ row.pc # "commit" /\ row.pc \notin {"look", "insert", "commit"}
  BY <1>1, <1>2, TxnFacts DEF CallInv
<1>5. row.cleared => \A d \in Calls \ {c} : ~(Marked(d) /\ txn[d].art = row.art)
  BY <1>1, <1>2 DEF Busy, Marked
<1> QED
  BY <1>1, <1>2, <1>3, <1>4, <1>5, CallMoves

\* Step 2: a claim that passes it has counted every active lease of its agent.
LEMMA CountInv ==
  ASSUME IInv, NEW c \in Calls, Count(c)
  PROVE  IInv'
<1> DEFINE g == Agent[c]
<1>1. txn[c].pc = "count" /\ Reads
      /\ IF Cardinality(Counted(c)) >= MaxActive THEN Reply(c) ELSE Goes(c, "look")
  BY DEF Count
<1>2. CASE Cardinality(Counted(c)) >= MaxActive
  BY <1>1, <1>2, ReplyInv
<1>3. CASE ~(Cardinality(Counted(c)) >= MaxActive)
  <2>1. ASSUME NEW a \in Held(g) PROVE a \in Counted(c)
    <3>1. /\ a \in Artifacts /\ lease[a] # None /\ owner[lease[a]] = g
          /\ lease[a] \notin expired
      BY DEF Held, Active
    <3>2. lease[a] \notin txn[c].dead /\ Row(c, a) = lease[a]
      BY <3>1, TxnFacts DEF CallInv, Row
    <3> QED
      BY <3>1, <3>2 DEF Counted
  <2>2. IsFiniteSet(Counted(c)) /\ Cardinality(Counted(c)) \in Nat
    <3>1. Counted(c) \subseteq Artifacts /\ IsFiniteSet(Artifacts)
      BY LeasesAssumption DEF Counted
    <3> QED
      BY <3>1, FS_Subset, FS_CardinalityType
  <2>3. Cardinality(Held(g)) <= Cardinality(Counted(c)) /\ Cardinality(Held(g)) \in Nat
    BY <2>1, <2>2, NoMore
  <2>4. Cardinality(Held(Agent[c])) < MaxActive
    BY <1>3, <2>2, <2>3, LeasesAssumption
  <2> HIDE DEF IInv
  <2> QED
    BY <1>1, <1>3, <2>4, GoesInv
<1> QED
  BY <1>2, <1>3

\* Step 3.
LEMMA LookInv ==
  ASSUME IInv, NEW c \in Calls, Look(c)
  PROVE  IInv'
<1>1. txn[c].pc = "look" /\ Reads /\ (Reply(c) \/ Goes(c, "insert"))
  BY DEF Look
<1> QED
  BY <1>1, ReplyInv, GoesInv

\* Step 4.
LEMMA InsertInv ==
  ASSUME IInv, NEW c \in Calls, Insert(c)
  PROVE  IInv'
<1> DEFINE a == txn[c].art
<1>1. /\ txn[c].pc = "insert" /\ ~Busy(c, a) /\ UNCHANGED <<lease, expired, revived>>
      /\ txn[c] \in TxnRow /\ CallInv(c) /\ c \in Spending /\ a \in Artifacts
      /\ txn[c].new = None /\ used \in Nat /\ MaxLeases \in Nat
      /\ owner \in [Ids -> Agents \cup {None}]
  BY TxnFacts DEF Insert, CallInv
<1>2. CASE Row(c, a) = None
  <2> DEFINE row == [txn[c] EXCEPT !.pc = "commit", !.new = used + 1]
  <2>1. /\ txn' = [txn EXCEPT ![c] = row] /\ used' = used + 1
        /\ owner' = [owner EXCEPT ![used + 1] = Agent[c]]
    BY <1>2 DEF Insert
  <2>2. used + 1 \in Ids /\ Agent[c] \in Agents
    <3>1. Room /\ IsFiniteSet(Spending) /\ Cardinality(Spending) \in Nat
      BY Sizes DEF IInv
    <3>2. {} \subseteq Spending \ {c}
      OBVIOUS
    <3>3. Cardinality(Spending) >= 1
      BY <1>1, <3>1, <3>2, OneLess, FS_EmptySet
    <3> QED
      BY <1>1, <3>1, <3>3, LeasesAssumption DEF Room, Ids
  <2>3. /\ row \in TxnRow /\ row.pc = "commit" /\ row.art = a /\ row.dead = txn[c].dead
        /\ row.new = used + 1 /\ row.cleared = txn[c].cleared
    BY <1>1, <2>2 DEF TxnRow
  <2> HIDE DEF row
  <2>4. /\ owner' \in [Ids -> Agents \cup {None}] /\ used' \in Nat /\ used <= used'
        /\ \A i \in 1..used : owner'[i] = owner[i]
        /\ row.new \in 1..used' /\ owner'[row.new] = Agent[c]
    BY <1>1, <2>1, <2>2, <2>3
  <2>5. /\ row.dead \subseteq expired /\ row.art \in Artifacts
        /\ (row.cleared => lease[row.art] \in row.dead)
        /\ (row.cleared \/ lease[row.art] = None)
    BY <1>1, <1>2, <2>3 DEF CallInv, Row
  <2>6. \A d \in Calls \ {c} : ~(Marked(d) /\ txn[d].art = row.art)
    BY <1>1, <2>3 DEF Busy, Marked
  <2> HIDE DEF IInv, Insert
  <2> QED
    BY <1>1, <2>1, <2>3, <2>4, <2>5, <2>6, CallMoves
<1>3. CASE Row(c, a) # None
  <2> DEFINE row == [txn[c] EXCEPT !.pc = "reread", !.cleared = FALSE]
  <2>1. txn' = [txn EXCEPT ![c] = row] /\ used' = used /\ owner' = owner
    BY <1>3 DEF Insert
  <2>2. /\ row \in TxnRow /\ row.pc = "reread" /\ row.art = a /\ row.dead = txn[c].dead
        /\ row.new = None /\ ~row.cleared
    BY <1>1 DEF TxnRow
  <2> HIDE DEF row
  <2>3. /\ row.dead \subseteq expired /\ row.art \in Artifacts
        /\ owner' \in [Ids -> Agents \cup {None}] /\ used' \in Nat /\ used <= used'
        /\ \A i \in 1..used : owner'[i] = owner[i]
    BY <1>1, <2>1, <2>2 DEF CallInv
  <2> HIDE DEF IInv, Insert
  <2> QED
    BY <1>1, <2>1, <2>2, <2>3, CallMoves
<1> QED
  BY <1>2, <1>3

\* fetchConflictResultOrRetry.
LEMMA RereadInv ==
  ASSUME IInv, NEW c \in Calls, Reread(c)
  PROVE  IInv'
<1> DEFINE a == txn[c].art
           row == [Idle EXCEPT !.pc = "begin", !.art = a, !.dead = expired,
                               !.tries = txn[c].tries + 1]
           done == (lease[a] # None /\ lease[a] \notin expired) \/ txn[c].tries = MaxRetries
<1>1. txn[c].pc = "reread" /\ Reads
      /\ IF done THEN Reply(c) ELSE txn' = [txn EXCEPT ![c] = row]
  BY DEF Reread
<1>2. CASE done
  BY <1>1, <1>2, ReplyInv
<1>3. CASE ~done
  <2>1. a \in Artifacts /\ txn[c].tries \in 0..MaxRetries /\ MaxRetries \in Nat
        /\ expired \subseteq Ids /\ c \in Spending
    BY <1>1, TxnFacts, LeasesAssumption DEF CallInv, TxnRow, IInv, TypeOK
  <2>2. /\ row \in TxnRow /\ row.pc = "begin" /\ row.art = a /\ row.dead = expired
        /\ row.new = None /\ row.cleared = FALSE
    <3>1. txn[c].tries + 1 \in 0..MaxRetries
      BY <1>3, <2>1
    <3> HIDE DEF a
    <3> QED
      BY <2>1, <3>1, IdleRow DEF TxnRow
  <2> HIDE DEF row
  <2> QED
    BY <1>1, <1>3, <2>1, <2>2, BeginInv
<1> QED
  BY <1>2, <1>3

\* A claim begins: the bound on the leases leaves room for it.
LEMMA FirstInv ==
  ASSUME IInv, NEW c \in Calls, NEW a \in Artifacts, Begin(c, a)
  PROVE  IInv'
<1> DEFINE row == [Idle EXCEPT !.pc = "begin", !.art = a, !.dead = expired]
           busy == {d \in Calls : txn[d].pc # "idle"}
<1>1. txn' = [txn EXCEPT ![c] = row] /\ Reads /\ used + Cardinality(busy) < MaxLeases
  BY DEF Begin
<1>2. /\ row \in TxnRow /\ row.pc = "begin" /\ row.art = a /\ row.dead = expired
      /\ row.new = None /\ row.cleared = FALSE
  <2>1. expired \subseteq Ids
    BY DEF IInv, TypeOK
  <2> QED
    BY <2>1, IdleRow DEF TxnRow
<1>3. used + Cardinality(Spending) < MaxLeases
  <2>1. Spending \subseteq busy /\ busy \subseteq Calls /\ IsFiniteSet(Calls)
    BY LeasesAssumption DEF Spending
  <2>2. IsFiniteSet(busy) /\ Cardinality(busy) \in Nat
    BY <2>1, FS_Subset, FS_CardinalityType
  <2>3. Cardinality(Spending) <= Cardinality(busy) /\ Cardinality(Spending) \in Nat
    BY <2>1, <2>2, NoMore
  <2> QED
    BY <1>1, <2>2, <2>3, TxnFacts
<1> HIDE DEF row
<1> QED
  BY <1>1, <1>2, <1>3, BeginInv

\* The claim commits: its lease takes the place of the one it deleted, or of
\* none.
LEMMA CommitInv ==
  ASSUME IInv, NEW c \in Calls, Commit(c)
  PROVE  IInv'
<1>1. PICK a \in Artifacts, n \in Ids : a = txn[c].art /\ n = txn[c].new
  BY TxnFacts, LeasesAssumption DEF Commit, CallInv, Ids
<1>2. /\ txn[c].pc = "commit" /\ owner[n] = Agent[c] /\ n \in 1..used /\ n # None
      /\ lease' = [lease EXCEPT ![a] = n] /\ txn' = [txn EXCEPT ![c] = Idle]
      /\ UNCHANGED <<owner, expired, revived, used>>
      /\ Marked(c)
  BY <1>1, TxnFacts, LeasesAssumption DEF Commit, CallInv, Reply, Marked
<1>3. /\ lease \in [Artifacts -> Ids \cup {None}] /\ txn \in [Calls -> TxnRow]
      /\ Exclusive
  BY TxnFacts DEF IInv, TypeOK
<1>4. /\ txn'[c] = Idle /\ \A d \in Calls : d # c => txn'[d] = txn[d]
      /\ lease'[a] = n /\ \A b \in Artifacts : b # a => lease'[b] = lease[b]
  BY <1>2, <1>3
<1>5. TypeOK'
  BY <1>2, <1>3, IdleRow DEF IInv, TypeOK, TxnRow
<1>6. ASSUME NEW d \in Calls PROVE CallInv(d)'
  <2>1. CASE d = c
    BY <1>4, <2>1, IdleRow DEF CallInv
  <2>2. CASE d # c
    <3>1. CallInv(d) /\ txn'[d] = txn[d] /\ (Marked(d) => txn[d].art # a)
      BY <1>1, <1>2, <1>3, <1>4, <2>2, TxnFacts DEF Exclusive
    <3>2. txn[d].cleared \/ txn[d].pc = "commit" =>
             Marked(d) /\ txn[d].art \in Artifacts
      BY <3>1, LeasesAssumption, TxnFacts DEF CallInv, Marked, Ids
    <3>3. txn[d].cleared \/ txn[d].pc = "commit" => lease'[txn[d].art] = lease[txn[d].art]
      BY <1>4, <3>1, <3>2
    <3> QED
      BY <1>2, <3>1, <3>3 DEF CallInv
  <2> QED
    BY <2>1, <2>2
<1>7. Exclusive'
  BY <1>3, <1>4, IdleRow DEF Exclusive, Marked
<1>8. \A b \in Artifacts : lease'[b] # None => lease'[b] \in 1..used'
  BY <1>2, <1>4 DEF IInv
<1>11. Distinct'
  <2>1. Distinct /\ Idle.new = None
    BY IdleRow DEF IInv
  <2> QED
    BY <1>1, <1>2, <1>4, <2>1 DEF Distinct
<1>9. Room'
  <2>1. Room /\ IsFiniteSet(Spending)
    BY Sizes DEF IInv
  <2>2. Spending' \subseteq Spending
    BY <1>4, IdleRow DEF Spending
  <2>3. Cardinality(Spending') <= Cardinality(Spending)
        /\ Cardinality(Spending') \in Nat /\ Cardinality(Spending) \in Nat
    BY <2>1, <2>2, NoMore
  <2> QED
    BY <1>2, <2>1, <2>3, TxnFacts DEF Room
<1>10. ASSUME NEW g \in Agents PROVE Limited(g)'
  <2>1. Limited(g) /\ MaxActive \in Nat \ {0} /\ CallsOf(g)' = CallsOf(g)
    BY LeasesAssumption DEF IInv, CallsOf
  <2>2. /\ IsFiniteSet(Past(g)) /\ Cardinality(Past(g)) \in Nat
        /\ Cardinality(CallsOf(g)) \in Nat
        /\ IsFiniteSet(Held(g)) /\ Cardinality(Held(g)) \in Nat
    BY Sizes
  <2>3. Held(g)' \subseteq Held(g) \cup {a}
    BY <1>2, <1>4 DEF Held, Active
  <2>4. Past(g)' \subseteq Past(g) \ {c}
    BY <1>4, IdleRow DEF Past, CallsOf
  <2>5. CASE g = Agent[c]
    <3>1. c \in Past(g)
      BY <1>2, <2>5 DEF Past, CallsOf
    <3>2. Cardinality(Past(g)') + 1 <= Cardinality(Past(g)) /\ Cardinality(Past(g)') \in Nat
      BY <2>2, <2>4, <3>1, OneLess
    <3>3. Cardinality(Held(g)') <= Cardinality(Held(g)) + 1 /\ Cardinality(Held(g)') \in Nat
      BY <2>2, <2>3, AtMostOneMore
    <3> QED
      BY <2>1, <2>2, <3>2, <3>3 DEF Limited
  <2>6. CASE g # Agent[c]
    <3>1. Held(g)' \subseteq Held(g)
      BY <1>2, <1>4, <2>6 DEF Held, Active
    <3>2. Cardinality(Past(g)') <= Cardinality(Past(g)) /\ Cardinality(Past(g)') \in Nat
      BY <2>2, <2>4, NoMore
    <3>3. Cardinality(Held(g)') <= Cardinality(Held(g)) /\ Cardinality(Held(g)') \in Nat
      BY <2>2, <3>1, NoMore
    <3> QED
      BY <2>1, <2>2, <3>2, <3>3 DEF Limited
  <2> QED
    BY <2>5, <2>6
<1> QED
  BY <1>5, <1>6, <1>7, <1>8, <1>9, <1>10, <1>11 DEF IInv

-----------------------------------------------------------------------------
(* The other operations. *)

\* A lease expires, is renewed, released or swept: no agent holds more, and what
\* a claim under way has deleted stays where it is.
LEMMA OthersInv ==
  ASSUME IInv, UNCHANGED <<owner, used>>,
         txn' \in [Calls -> TxnRow],
         lease' \in [Artifacts -> Ids \cup {None}],
         expired' \subseteq Ids, revived' \subseteq Ids,
         \A c \in Calls :
            /\ txn'[c].pc = txn[c].pc /\ txn'[c].art = txn[c].art
            /\ txn'[c].new = txn[c].new /\ txn'[c].cleared = txn[c].cleared
            /\ txn'[c].dead \subseteq expired'
            /\ txn[c].cleared => lease'[txn[c].art] \in txn'[c].dead,
         \A a \in Artifacts : lease'[a] = lease[a] \/ lease'[a] = None,
         \A a \in Artifacts : /\ lease'[a] # None
                              /\ lease'[a] \notin expired' /\ lease'[a] \notin revived'
                              => lease[a] \notin expired /\ lease[a] \notin revived
  PROVE  IInv'
<1>1. TypeOK'
  BY DEF IInv, TypeOK, TxnRow
<1>2. ASSUME NEW c \in Calls PROVE CallInv(c)'
  <2>1. CallInv(c)
    BY DEF IInv
  <2> QED
    BY <2>1 DEF CallInv
<1>3. Exclusive'
  BY DEF IInv, Exclusive, Marked
<1>4. \A a \in Artifacts : lease'[a] # None => lease'[a] \in 1..used'
  BY DEF IInv
<1>7. Distinct'
  <2>1. Distinct
    BY DEF IInv
  <2> QED
    BY <2>1 DEF Distinct
<1>5. Room'
  <2>1. Spending' = Spending
    BY DEF Spending
  <2> QED
    BY <2>1 DEF IInv, Room
<1>6. ASSUME NEW g \in Agents PROVE Limited(g)'
  <2>1. Past(g)' = Past(g) /\ CallsOf(g)' = CallsOf(g)
    BY DEF Past, CallsOf
  <2>2. Held(g)' \subseteq Held(g)
    BY DEF Held, Active
  <2>3. Limited(g) /\ MaxActive \in Nat
    BY LeasesAssumption DEF IInv
  <2>4. /\ Cardinality(Past(g)) \in Nat /\ Cardinality(CallsOf(g)) \in Nat
        /\ IsFiniteSet(Held(g)) /\ Cardinality(Held(g)) \in Nat
    BY Sizes
  <2>5. Cardinality(Held(g)') <= Cardinality(Held(g)) /\ Cardinality(Held(g)') \in Nat
    BY <2>2, <2>4, NoMore
  <2> QED
    BY <2>1, <2>3, <2>4, <2>5 DEF Limited
<1> QED
  BY <1>1, <1>2, <1>3, <1>4, <1>5, <1>6, <1>7 DEF IInv

\* What the invariant says that these operations rely on.
LEMMA TableFacts ==
  ASSUME IInv
  PROVE  /\ txn \in [Calls -> TxnRow]
         /\ lease \in [Artifacts -> Ids \cup {None}]
         /\ expired \subseteq Ids /\ revived \subseteq Ids /\ None \notin Ids
         /\ \A a, b \in Artifacts : lease[a] # None /\ lease[a] = lease[b] => a = b
         /\ \A c \in Calls : /\ txn[c].dead \subseteq expired
                             /\ txn[c].cleared => /\ txn[c].art \in Artifacts
                                                  /\ lease[txn[c].art] \in txn[c].dead
  BY LeasesAssumption DEF IInv, TypeOK, TxnRow, CallInv, Distinct

\* renewArtifact.
LEMMA RenewInv ==
  ASSUME IInv, NEW a \in Artifacts, Renew(a)
  PROVE  IInv'
<1> DEFINE row(c) == [txn[c] EXCEPT !.dead = @ \ {lease[a]}]
<1>1. ASSUME NEW c \in Calls
      PROVE  /\ row(c) \in TxnRow /\ row(c).pc = txn[c].pc /\ row(c).art = txn[c].art
             /\ row(c).new = txn[c].new /\ row(c).cleared = txn[c].cleared
             /\ row(c).dead = txn[c].dead \ {lease[a]}
  BY TableFacts DEF TxnRow
<1>2. txn' = [c \in Calls |-> row(c)]
  BY DEF Renew
<1> HIDE DEF row
<1>3. /\ UNCHANGED <<lease, owner, used>>
      /\ lease[a] \in expired /\ expired' = expired \ {lease[a]}
      /\ revived' = revived \cup {lease[a]} /\ Unlocked(a)
  BY DEF Renew
<1>4. ASSUME NEW c \in Calls
      PROVE  /\ txn'[c].pc = txn[c].pc /\ txn'[c].art = txn[c].art
             /\ txn'[c].new = txn[c].new /\ txn'[c].cleared = txn[c].cleared
             /\ txn'[c].dead \subseteq expired'
             /\ txn[c].cleared => lease'[txn[c].art] \in txn'[c].dead
  <2>1. txn'[c] = row(c)
    BY <1>2
  <2>2. txn[c].cleared => lease[txn[c].art] # lease[a]
    <3> SUFFICES ASSUME txn[c].cleared, lease[txn[c].art] = lease[a] PROVE FALSE
      OBVIOUS
    <3>1. txn[c].art # a /\ txn[c].art \in Artifacts
      BY <1>3, TableFacts DEF Unlocked
    <3> QED
      BY <1>3, <3>1, TableFacts
  <2> QED
    BY <1>1, <1>3, <2>1, <2>2, TableFacts
<1>5. txn' \in [Calls -> TxnRow]
  BY <1>1, <1>2
<1> QED
  BY <1>3, <1>4, <1>5, TableFacts, OthersInv

\* Time, releaseArtifact, forceReleaseArtifact and the sweep.
LEMMA ShrinkInv ==
  ASSUME IInv, (\E a \in Artifacts : Expire(a) \/ Release(a)) \/ Sweep
  PROVE  IInv'
<1>1. UNCHANGED <<owner, revived, used, txn>> /\ expired \subseteq expired'
  BY DEF Expire, Release, Sweep
<1>2. expired' \subseteq Ids
  BY TableFacts DEF Expire, Release, Sweep
<1>3. /\ lease' \in [Artifacts -> Ids \cup {None}]
      /\ \A a \in Artifacts : lease'[a] = lease[a] \/ lease'[a] = None
      /\ \A c \in Calls : txn[c].cleared => lease'[txn[c].art] = lease[txn[c].art]
  <2>1. CASE \E a \in Artifacts : Expire(a)
    BY <2>1, TableFacts DEF Expire
  <2>2. ASSUME NEW a \in Artifacts, Release(a)
        PROVE  /\ lease' \in [Artifacts -> Ids \cup {None}]
               /\ \A b \in Artifacts : lease'[b] = lease[b] \/ lease'[b] = None
               /\ \A c \in Calls : txn[c].cleared => lease'[txn[c].art] = lease[txn[c].art]
    BY <2>2, TableFacts DEF Release, Unlocked
  <2>3. CASE Sweep
    BY <2>3, TableFacts DEF Sweep, Unlocked
  <2> QED
    BY <2>1, <2>2, <2>3
<1>4. \A c \in Calls : /\ txn'[c].pc = txn[c].pc /\ txn'[c].art = txn[c].art
                       /\ txn'[c].new = txn[c].new /\ txn'[c].cleared = txn[c].cleared
                       /\ txn'[c].dead \subseteq expired'
                       /\ txn[c].cleared => lease'[txn[c].art] \in txn'[c].dead
  BY <1>1, <1>3, TableFacts
<1>5. \A a \in Artifacts : /\ lease'[a] # None
                           /\ lease'[a] \notin expired' /\ lease'[a] \notin revived'
                           => lease[a] \notin expired /\ lease[a] \notin revived
  BY <1>1, <1>3
<1>6. txn' \in [Calls -> TxnRow] /\ revived' \subseteq Ids /\ UNCHANGED <<owner, used>>
  BY <1>1, TableFacts
<1>7. lease' \in [Artifacts -> Ids \cup {None}]
  BY <1>3
<1>8. \A a \in Artifacts : lease'[a] = lease[a] \/ lease'[a] = None
  BY <1>3
<1> QED
  BY <1>2, <1>4, <1>5, <1>6, <1>7, <1>8, OthersInv

-----------------------------------------------------------------------------
(* The theorems. *)

\* No leases and no claims under way.
LEMMA InitInv ==
  ASSUME Init
  PROVE  IInv
<1> USE DEF Init
<1>1. TypeOK
  BY IdleRow, LeasesAssumption DEF TypeOK, TxnRow
<1>2. (\A c \in Calls : CallInv(c)) /\ Exclusive /\ Distinct
      /\ \A a \in Artifacts : lease[a] = None
  BY IdleRow DEF CallInv, Exclusive, Marked, Distinct
<1>3. Room
  <2>1. Spending = {} /\ Cardinality({}) = 0
    BY IdleRow, FS_EmptySet DEF Spending
  <2> QED
    BY <2>1, LeasesAssumption DEF Room
<1>4. ASSUME NEW g \in Agents PROVE Limited(g)
  <2>1. Held(g) = {}
    BY <1>2 DEF Held, Active
  <2>3. Past(g) = {}
    BY IdleRow DEF Past, CallsOf
  <2>4. Cardinality({}) = 0
    BY FS_EmptySet
  <2>2. Cardinality(CallsOf(g)) \in Nat
    BY Sizes
  <2> QED
    BY <2>1, <2>2, <2>3, <2>4, LeasesAssumption DEF Limited
<1> QED
  BY <1>1, <1>2, <1>3, <1>4 DEF IInv

\* Every step keeps the invariant.
LEMMA NextInv ==
  ASSUME IInv, [Next]_vars
  PROVE  IInv'
<1>1. CASE UNCHANGED vars
  <2>1. UNCHANGED <<lease, owner, expired, revived, used, txn>>
    BY <1>1 DEF vars
  <2> QED
    BY <2>1, TableFacts, OthersInv
<1> QED
  BY <1>1, FirstInv, DeleteExpiredInv, CountInv, LookInv, InsertInv, CommitInv, RereadInv,
     RenewInv, ShrinkInv DEF Next, Advance

\* The invariant holds in every reachable state.
THEOREM AlwaysInv == Spec => []IInv
<1>1. Init => IInv
  BY InitInv
<1>2. IInv /\ [Next]_vars => IInv'
  BY NextInv
<1> QED
  BY <1>1, <1>2, PTL DEF Spec

\* The rows of the leases and of the claims under way have their types; no claim
\* draws an id beyond the bound.
THEOREM RowsHaveTheirTypes == Spec => []TypeOK
<1>1. IInv => TypeOK
  BY DEF IInv
<1> QED
  BY <1>1, AlwaysInv, PTL

\* An agent holds fewer active leases than the limit and the claims it may have
\* under way together, those apart that were renewed after their end.
THEOREM LimitsHold == Spec => []LimitPerAgent
<1>1. ASSUME IInv PROVE LimitPerAgent
  <2> SUFFICES ASSUME NEW g \in Agents
               PROVE  Cardinality({a \in Active(g) : lease[a] \notin revived})
                         < MaxActive + Cardinality({c \in Calls : Agent[c] = g})
    BY DEF LimitPerAgent
  <2>1. Limited(g) /\ MaxActive \in Nat
    BY <1>1, LeasesAssumption DEF IInv
  <2>2. /\ Cardinality(Past(g)) \in Nat /\ Cardinality(CallsOf(g)) \in Nat
        /\ Cardinality(Held(g)) \in Nat
    BY Sizes
  <2>3. Cardinality(Held(g)) < MaxActive + Cardinality(CallsOf(g))
    BY <2>1, <2>2 DEF Limited
  <2> QED
    BY <2>3 DEF Held, CallsOf
<1> QED
  BY <1>1, AlwaysInv, PTL

\* A claim takes the place of a lease only if that lease has expired.
THEOREM LeasesAreNotStolen == Spec => NoLeaseIsStolen
<1>1. ASSUME IInv, [Next]_vars
      PROVE  [\A a \in Artifacts :
                 lease[a] # None /\ lease'[a] \notin {lease[a], None} =>
                     lease[a] \in expired]_vars
  <2> SUFFICES ASSUME NEW a \in Artifacts, lease[a] # None,
                      lease'[a] \notin {lease[a], None}
               PROVE  lease[a] \in expired
    OBVIOUS
  <2>1. lease \in [Artifacts -> Ids \cup {None}]
    BY <1>1, TableFacts
  <2>2. PICK c \in Calls : Commit(c)
    BY <1>1, <2>1 DEF Next, Advance, Begin, DeleteExpired, Count, Look, Insert, Reread,
       Renew, Expire, Release, Sweep, Reads, vars
  <2>3. a = txn[c].art /\ txn[c].pc = "commit"
    BY <2>1, <2>2 DEF Commit
  <2>4. CallInv(c)
    BY <1>1 DEF IInv
  <2> QED
    BY <2>3, <2>4 DEF CallInv
<1> QED
  BY <1>1, AlwaysInv, PTL DEF Spec, NoLeaseIsStolen
=============================================================================
