------------------------------ MODULE Disputes ------------------------------
(***************************************************************************)
(* Disputes and the intake mailbox: disputes.ts, intake.ts and Phases 2-D  *)
(* and 2-E of closeTopic.  openDispute is no transaction: it inserts the   *)
(* dispute, submits a request about it, links the two and logs the event   *)
(* in four commits, and takes back by hand what it can when one fails.     *)
(* triageIntake calls it while its own transaction holds the intake row    *)
(* and a connection of the pool, out of which openDispute needs another.   *)
(* The request is one of module Ladder, with the dispute's own id.         *)
(***************************************************************************)
EXTENDS Naturals, Sequences, FiniteSets

CONSTANTS
    Disputes,
    Items,        \* intake_items
    Callers,      \* calls of openDispute and triageIntake under way at a time
    PoolSize,     \* connections of getDbPool()
    Rungs,        \* [Disputes -> routes], as in Ladder
    TopOffice,
    Outcomes,     \* bound: the outcomes a request may have, of Ladder's
    None,
    MaxFaults     \* bound: crashes and failed statements

ASSUME DisputesAssumption ==
    /\ PoolSize \in Nat /\ MaxFaults \in Nat
    /\ None \notin Items \cup Disputes
    /\ IsFiniteSet(Callers)
    /\ Outcomes \subseteq {"approved", "returned", "rejected", "escalation_exhausted"}

VARIABLES
    topic,     \* topics.status
    dispute,   \* disputes.status, or that the row was deleted
    linked,    \* disputes with a resolution_request_id
    log,       \* the dispute.* events of each dispute
    item,      \* intake_items: status, routed_to
    origin,    \* the item a dispute was opened for
    call,      \* of each caller: what it does next, its item, its dispute
    broken,    \* disputes whose opening was cut short
    faults,    \* faults so far (bound only)
    phase, at, office   \* the resolution requests

requestVars == <<phase, at, office>>
rowVars == <<dispute, linked, log, item, origin>>
vars == <<topic, rowVars, call, broken, faults, requestVars>>

Request == INSTANCE Ladder WITH Requests <- Disputes

CallPC == {"idle", "wait", "route", "insert", "submit", "undo", "link", "event", "ok", "fail"}
Idle == [pc |-> "idle", item |-> None, dispute |-> None]

TypeOK ==
    /\ topic \in {"active", "closing", "closed"}
    /\ dispute \in [Disputes -> {"none", "open", "resolved", "deleted"}]
    /\ linked \subseteq Disputes /\ broken \subseteq Disputes
    /\ log \in [Disputes -> SUBSET {"opened", "resolved", "forced"}]
    /\ item \in [Items -> [status : {"none", "received", "triaged", "dismissed"},
                           to : Disputes \cup {None}]]
    /\ origin \in [Disputes -> Items \cup {None}]
    /\ call \in [Callers -> [pc : CallPC, item : Items \cup {None},
                             dispute : Disputes \cup {None}]]
    /\ faults \in 0..MaxFaults
    /\ phase \in [Disputes -> {"none", "open", "deleted"} \cup Request!Terminal]

Init ==
    /\ topic = "active"
    /\ dispute = [d \in Disputes |-> "none"]
    /\ linked = {} /\ broken = {}
    /\ log = [d \in Disputes |-> {}]
    /\ item = [i \in Items |-> [status |-> "none", to |-> None]]
    /\ origin = [d \in Disputes |-> None]
    /\ call = [c \in Callers |-> Idle]
    /\ faults = 0
    /\ Request!Init

-----------------------------------------------------------------------------
(* The connections and the intake row a triage holds from BEGIN to the end. *)

Held == {c \in Callers : call[c].item # None}
\* Faulty variant: a statement takes two connections at once.
SlotOfTwo == Cardinality(Held) + 1 < PoolSize
\* pool.connect() and pool.query() wait, without a timeout, for a connection.
Slot == Cardinality(Held) < PoolSize
Locked(i) == \E c \in Callers : call[c].item = i /\ call[c].pc # "wait"

\* The next dispute to be inserted.
Fresh(d) == dispute[d] = "none" /\ \A c \in Callers : call[c].dispute # d
Goes(c, pc) == call' = [call EXCEPT ![c].pc = pc]
Fault == faults < MaxFaults /\ faults' = faults + 1
Break(c) == broken' = broken \cup {call[c].dispute}

-----------------------------------------------------------------------------
(* openDispute. *)

\* The topic is read.  ids are drawn here so that the bound is never met midway.
OpenDispute(c, d) ==
    /\ call[c].pc = "idle" /\ Slot
    /\ topic = "active"
    /\ Fresh(d)
    /\ call' = [call EXCEPT ![c] = [pc |-> "insert", item |-> None, dispute |-> d]]
    /\ UNCHANGED <<topic, rowVars, broken, faults, requestVars>>

\* Step 1.
InsertDispute(c) ==
    LET d == call[c].dispute
    IN  /\ call[c].pc = "insert" /\ Slot
        /\ dispute' = [dispute EXCEPT ![d] = "open"]
        /\ origin' = [origin EXCEPT ![d] = call[c].item]
        /\ Goes(c, "submit")
        /\ UNCHANGED <<topic, linked, log, item, broken, faults, requestVars>>

\* Step 2.  submitRequest refuses with a status - the topic was closing when it
\* read it, the submitter has not joined, no route - ...
SubmitRefused(c) ==
    /\ call[c].pc = "submit" /\ Slot
    /\ Goes(c, "undo")
    /\ UNCHANGED <<topic, rowVars, broken, faults, requestVars>>

\* ... or throws, because the topic is sealed when it logs the event or because
\* it finds the kind or the weight invalid, and nothing is taken back ...
SubmitThrows(c) ==
    /\ call[c].pc = "submit" /\ Slot
    /\ IF topic = "closed" THEN UNCHANGED faults ELSE Fault
    /\ Break(c)
    /\ Goes(c, "fail")
    /\ UNCHANGED <<topic, rowVars, requestVars>>

\* ... or commits the request.
SubmitRequest(c) ==
    /\ call[c].pc = "submit" /\ Slot
    /\ topic # "closed"
    /\ Request!Submit(call[c].dispute)
    /\ Goes(c, "link")
    /\ UNCHANGED <<topic, rowVars, broken, faults>>

\* Faulty variant: the error is returned, the row is left.
UndoNothing(c) ==
    /\ call[c].pc = "undo" /\ Slot
    /\ Goes(c, "fail")
    /\ UNCHANGED <<topic, rowVars, broken, faults, requestVars>>
\* DELETE FROM disputes, after a refusal.
Undo(c) ==
    /\ call[c].pc = "undo" /\ Slot
    /\ dispute' = [dispute EXCEPT ![call[c].dispute] = "deleted"]
    /\ Goes(c, "fail")
    /\ UNCHANGED <<topic, linked, log, item, origin, broken, faults, requestVars>>

\* Step 3.
LinkRequest(c) ==
    /\ call[c].pc = "link" /\ Slot
    /\ linked' = linked \cup {call[c].dispute}
    /\ Goes(c, "event")
    /\ UNCHANGED <<topic, dispute, log, item, origin, broken, faults, requestVars>>

\* The compensation when it fails: each DELETE is tried, and may fail as well.
LinkFails(c) ==
    LET d == call[c].dispute
    IN  /\ call[c].pc = "link" /\ Slot
        /\ Fault
        /\ \E gone \in SUBSET {"request", "dispute"} :
              /\ phase' = IF "request" \in gone THEN [phase EXCEPT ![d] = "deleted"] ELSE phase
              /\ dispute' = IF "dispute" \in gone THEN [dispute EXCEPT ![d] = "deleted"]
                                                  ELSE dispute
              /\ broken' = IF gone = {"request", "dispute"} THEN broken ELSE broken \cup {d}
        /\ Goes(c, "fail")
        /\ UNCHANGED <<topic, linked, log, item, origin, at, office>>

\* Step 4: best effort; a sealed topic leaves a gap in the log.
LogOpened(c) ==
    /\ call[c].pc = "event" /\ Slot
    /\ log' = [log EXCEPT ![call[c].dispute] =
          IF topic = "closed" THEN @ ELSE @ \cup {"opened"}]
    /\ Goes(c, "ok")
    /\ UNCHANGED <<topic, dispute, linked, item, origin, broken, faults, requestVars>>

\* A call of openDispute by itself returns or throws.
Return(c) ==
    /\ call[c].pc \in {"ok", "fail"}
    /\ call[c].item = None
    /\ call' = [call EXCEPT ![c] = Idle]
    /\ UNCHANGED <<topic, rowVars, broken, faults, requestVars>>

-----------------------------------------------------------------------------
(* resolveDispute, and closeTopic Phase 2-D. *)

Heard == {"approved", "returned", "rejected"}

\* Faulty variant: the row is not asked whether it is resolved.
ResolveAgain(d) ==
    /\ Slot
    /\ topic # "closed"
    /\ dispute[d] \in {"open", "resolved"}
    /\ d \in linked
    /\ phase[d] \in Heard
    /\ dispute' = [dispute EXCEPT ![d] = "resolved"]
    /\ log' = [log EXCEPT ![d] = @ \cup {"resolved"}]
    /\ UNCHANGED <<topic, linked, item, origin, call, broken, faults, requestVars>>
\* One transaction, which holds the disputes row.  'escalation_exhausted' is not
\* among the outcomes it accepts.
ResolveDispute(d) ==
    /\ Slot
    /\ topic # "closed"
    /\ dispute[d] = "open"
    /\ d \in linked
    /\ phase[d] \in Heard
    /\ dispute' = [dispute EXCEPT ![d] = "resolved"]
    /\ log' = [log EXCEPT ![d] = @ \cup {"resolved"}]
    /\ UNCHANGED <<topic, linked, item, origin, call, broken, faults, requestVars>>

\* closeTopic Phase 2-D, one dispute.
DrainDispute(d) ==
    /\ Slot
    /\ topic = "closing"
    /\ dispute[d] = "open"
    /\ dispute' = [dispute EXCEPT ![d] = "resolved"]
    /\ log' = [log EXCEPT ![d] = @ \cup {"forced"}]
    /\ UNCHANGED <<topic, linked, item, origin, call, broken, faults, requestVars>>

-----------------------------------------------------------------------------
(* intake.ts, and closeTopic Phase 2-E. *)

SubmitIntake(i) ==
    /\ Slot
    /\ topic # "closed"
    /\ item[i].status = "none"
    /\ item' = [item EXCEPT ![i].status = "received"]
    /\ UNCHANGED <<topic, dispute, linked, log, origin, call, broken, faults, requestVars>>

\* triageIntake up to its BEGIN: it has read an active topic, and has its
\* connection.
TriageIntake(c, i, d) ==
    /\ call[c].pc = "idle" /\ Slot
    /\ topic = "active"
    /\ item[i].status # "none"
    /\ Fresh(d)
    /\ call' = [call EXCEPT ![c] = [pc |-> "wait", item |-> i, dispute |-> d]]
    /\ UNCHANGED <<topic, rowVars, broken, faults, requestVars>>

\* SELECT ... FOR UPDATE of the intake row.
TakeItem(c) ==
    /\ call[c].pc = "wait"
    /\ ~Locked(call[c].item)
    /\ item[call[c].item].status = "received"
    /\ Goes(c, "route")
    /\ UNCHANGED <<topic, rowVars, broken, faults, requestVars>>

\* INTAKE_ALREADY_TRIAGED, INTAKE_ALREADY_DISMISSED.
RefuseItem(c) ==
    /\ call[c].pc = "wait"
    /\ ~Locked(call[c].item)
    /\ item[call[c].item].status # "received"
    /\ call' = [call EXCEPT ![c] = Idle]
    /\ UNCHANGED <<topic, rowVars, broken, faults, requestVars>>

\* The route: to a dispute that openDispute opens, if its read of the topic
\* allows, ...
RouteToDispute(c) ==
    /\ call[c].pc = "route" /\ Slot
    /\ Goes(c, IF topic = "active" THEN "insert" ELSE "fail")
    /\ UNCHANGED <<topic, rowVars, broken, faults, requestVars>>

\* ... or a link to a task, a request or a motion.
RouteToLink(c) ==
    /\ call[c].pc = "route"
    /\ topic # "closed"
    /\ item' = [item EXCEPT ![call[c].item].status = "triaged"]
    /\ call' = [call EXCEPT ![c] = Idle]
    /\ UNCHANGED <<topic, dispute, linked, log, origin, broken, faults, requestVars>>

\* Faulty variant: routed_to is left out.
CommitTriageNowhere(c) ==
    /\ call[c].pc = "ok"
    /\ call[c].item # None
    /\ topic # "closed"
    /\ item' = [item EXCEPT ![call[c].item].status = "triaged"]
    /\ call' = [call EXCEPT ![c] = Idle]
    /\ UNCHANGED <<topic, dispute, linked, log, origin, broken, faults, requestVars>>
\* The UPDATE of the item, its event and the COMMIT.
CommitTriage(c) ==
    /\ call[c].pc = "ok"
    /\ call[c].item # None
    /\ topic # "closed"
    /\ item' = [item EXCEPT ![call[c].item] = [status |-> "triaged", to |-> call[c].dispute]]
    /\ call' = [call EXCEPT ![c] = Idle]
    /\ UNCHANGED <<topic, dispute, linked, log, origin, broken, faults, requestVars>>

\* ROLLBACK: openDispute threw, the route is refused, or the topic is sealed by now.
AbandonTriage(c) ==
    /\ call[c].item # None
    /\ \/ call[c].pc = "fail" /\ UNCHANGED broken
       \/ call[c].pc = "route" /\ UNCHANGED broken
       \/ call[c].pc = "ok" /\ topic = "closed" /\ Break(c)
    /\ call' = [call EXCEPT ![c] = Idle]
    /\ UNCHANGED <<topic, rowVars, faults, requestVars>>

DismissIntake(i) ==
    /\ Slot
    /\ ~Locked(i)
    /\ item[i].status = "received"
    /\ item' = [item EXCEPT ![i].status = "dismissed"]
    /\ UNCHANGED <<topic, dispute, linked, log, origin, call, broken, faults, requestVars>>

DrainItem(i) == topic = "closing" /\ DismissIntake(i)

-----------------------------------------------------------------------------
(* The rest. *)

\* The server dies: the transaction of a triage is rolled back, what openDispute
\* committed stays.
Crash(c) ==
    /\ call[c].pc \notin {"idle", "wait", "route"}
    /\ Fault
    /\ Break(c)
    /\ call' = [call EXCEPT ![c] = Idle]
    /\ UNCHANGED <<topic, rowVars, requestVars>>

\* The request goes its way (Approvals), the drain of closeTopic included.
DecideRequest(d) ==
    /\ topic # "closed"
    /\ \/ Request!Endorse(d)
       \/ Request!Climb(d)
       \/ \E o \in Outcomes : Request!Resolve(d, o)
    /\ UNCHANGED <<topic, rowVars, call, broken, faults>>

\* closeTopic Phases 1 and 3.
Freeze ==
    /\ topic = "active"
    /\ topic' = "closing"
    /\ UNCHANGED <<rowVars, call, broken, faults, requestVars>>
Seal ==
    /\ topic = "closing"
    /\ topic' = "closed"
    /\ UNCHANGED <<rowVars, call, broken, faults, requestVars>>

\* What a call does once it is under way.
Advance(c) ==
    \/ InsertDispute(c) \/ SubmitRefused(c) \/ SubmitThrows(c) \/ SubmitRequest(c)
    \/ Undo(c) \/ LinkRequest(c) \/ LinkFails(c) \/ LogOpened(c) \/ Return(c)
    \/ TakeItem(c) \/ RefuseItem(c) \/ RouteToDispute(c) \/ RouteToLink(c)
    \/ CommitTriage(c) \/ AbandonTriage(c)

Next ==
    \/ \E c \in Callers, d \in Disputes : OpenDispute(c, d)
    \/ \E c \in Callers, i \in Items, d \in Disputes : TriageIntake(c, i, d)
    \/ \E c \in Callers : Advance(c)
    \/ \E c \in Callers : Crash(c)
    \/ \E d \in Disputes : ResolveDispute(d) \/ DrainDispute(d) \/ DecideRequest(d)
    \/ \E i \in Items : SubmitIntake(i) \/ DismissIntake(i) \/ DrainItem(i)
    \/ Freeze
    \/ Seal

Spec == Init /\ [][Next]_vars

\* The server runs what it has begun, and who waits for an intake row gets it in
\* his turn, however many come after him.  Nobody has to call it.
FairSpec ==
    /\ Spec
    /\ \A c \in Callers : WF_vars(Advance(c)) /\ SF_vars(TakeItem(c) \/ RefuseItem(c))

-----------------------------------------------------------------------------
(* Properties. *)

Working(d) == \E c \in Callers : call[c].dispute = d /\ call[c].pc # "wait"

\* A dispute is closed once, by one of resolveDispute and the drain, whichever
\* gets to its row first; and resolveDispute closes none before the request
\* about it was decided.
ResolvedOnce ==
    \A d \in Disputes :
        /\ ~({"resolved", "forced"} \subseteq log[d])
        /\ dispute[d] = "open" => {"resolved", "forced"} \cap log[d] = {}
        /\ dispute[d] = "resolved" => {"resolved", "forced"} \cap log[d] # {}
        /\ "resolved" \in log[d] => d \in linked /\ phase[d] \in Heard

\* What openDispute leaves when it is done is a dispute and a request that know
\* each other, or neither - unless a fault cut it short, or submitRequest threw.
NothingHalfOpened ==
    \A d \in Disputes \ broken :
        ~Working(d) =>
            /\ dispute[d] \in {"open", "resolved"} <=> d \in linked
            /\ d \in linked <=> phase[d] \notin {"none", "deleted"}

\* A dispute opened for an intake item is the one that item was triaged to, and
\* only one is, however many triages and dismissals of it ran at once - again
\* unless a triage was cut short.
TriageMatchesDispute ==
    /\ \A d \in Disputes \ broken :
          dispute[d] \in {"open", "resolved"} /\ origin[d] # None /\ ~Working(d) =>
              item[origin[d]] = [status |-> "triaged", to |-> d]
    /\ \A i \in Items : item[i].to # None =>
          dispute[item[i].to] \in {"open", "resolved"} /\ origin[item[i].to] = i

\* Every call returns: the triages that hold a connection each, and those that
\* wait for their row, leave openDispute one to work with.  It is so as long as
\* the pool is larger than the number of triages under way.
EveryCallReturns == \A c \in Callers : call[c].pc # "idle" ~> call[c].pc = "idle"
=============================================================================
