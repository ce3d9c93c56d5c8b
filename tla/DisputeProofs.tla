--------------------------- MODULE DisputeProofs ----------------------------
(***************************************************************************)
(* Proofs about disputes and intake, for any disputes, items, callers and  *)
(* routes, any size of the pool and any number of faults.                  *)
(***************************************************************************)
EXTENDS Disputes, FiniteSetTheorems, TLAPS

(* The inductive invariant. *)

Stands(d) == dispute[d] \in {"open", "resolved"}
Asked(d) == phase[d] \notin {"none", "deleted"}
Busy(k) == k.pc \notin {"idle", "wait"}
Started == {"submit", "undo", "link", "event", "ok"}

\* How far a call has come is how far its dispute has; and one that is past the
\* lock of its intake row finds the row as it left it.
CallInv(c) ==
    LET k == call[c]
        d == call[c].dispute
    IN  /\ k.pc = "idle" => k = Idle
        /\ k.pc # "idle" => d \in Disputes
        /\ k.pc \in {"wait", "route"} => k.item # None
        /\ Busy(k) /\ k.item # None => item[k.item] = [status |-> "received", to |-> None]
        /\ k.pc \in {"wait", "route", "insert"} => dispute[d] = "none"
        /\ k.pc \in Started => Stands(d) /\ origin[d] = k.item
        /\ k.pc \in {"submit", "undo"} => d \notin linked /\ phase[d] = "none"
        /\ k.pc = "link" => d \notin linked /\ Asked(d)
        /\ k.pc \in {"event", "ok"} => d \in linked
        /\ k.pc = "fail" => d \in broken \/ (~Stands(d) /\ d \notin linked /\ ~Asked(d))

\* A dispute by itself: it is closed once, its request outlives it, and once no
\* call works on it any more it is whole, and so is the item it came from.
Closed(d) ==
    /\ ~({"resolved", "forced"} \subseteq log[d])
    /\ dispute[d] = "open" => {"resolved", "forced"} \cap log[d] = {}
    /\ dispute[d] = "resolved" => {"resolved", "forced"} \cap log[d] # {}
    /\ "resolved" \in log[d] => d \in linked /\ phase[d] \in Heard
Rows(d) ==
    /\ dispute[d] = "none" => d \notin linked /\ phase[d] = "none" /\ log[d] = {}
    /\ d \in linked => Stands(d) /\ Asked(d)
    /\ Closed(d)
Whole(d) ==
    /\ Stands(d) <=> d \in linked
    /\ d \in linked <=> Asked(d)
Triaged(d) == Stands(d) /\ origin[d] # None => item[origin[d]] = [status |-> "triaged", to |-> d]
DispInv(d) ==
    /\ Rows(d)
    /\ d \notin broken /\ ~Working(d) => Whole(d) /\ Triaged(d)

\* The dispute an item was triaged to stands, and no call has it any more.
ItemInv(i) ==
    /\ item[i].status # "triaged" => item[i].to = None
    /\ item[i].to # None =>
          /\ Stands(item[i].to)
          /\ origin[item[i].to] = i
          /\ \A c \in Callers : call[c].dispute # item[i].to

\* No two calls are about one dispute, or hold one intake row.
Exclusive ==
    \A c, e \in Callers :
        call[c].dispute # None /\ call[c].dispute = call[e].dispute => c = e
OneHolder ==
    \A c, e \in Callers :
        Busy(call[c]) /\ Busy(call[e]) /\ call[c].item # None /\ call[c].item = call[e].item
            => c = e

IInv ==
    /\ TypeOK
    /\ \A c \in Callers : CallInv(c)
    /\ \A d \in Disputes : DispInv(d)
    /\ \A i \in Items : ItemInv(i)
    /\ Exclusive
    /\ OneHolder

-----------------------------------------------------------------------------
(* Types. *)

CallRow == [pc : CallPC, item : Items \cup {None}, dispute : Disputes \cup {None}]

\* A call that is under way has a dispute.
HasDispute == \A c \in Callers : call[c].pc # "idle" => call[c].dispute \in Disputes

\* A call goes on, or ends.
LEMMA CallType ==
  ASSUME TypeOK, NEW c \in Callers
  PROVE  /\ call[c] \in CallRow
         /\ \A pc \in CallPC : [call EXCEPT ![c].pc = pc] \in [Callers -> CallRow]
         /\ \A k \in CallRow : [call EXCEPT ![c] = k] \in [Callers -> CallRow]
         /\ Idle \in CallRow
<1>1. call \in [Callers -> CallRow]
  BY DEF TypeOK, CallRow
<1>2. call[c] \in CallRow
  BY <1>1
<1>3. \A pc \in CallPC : [call[c] EXCEPT !.pc = pc] \in CallRow
  BY <1>2 DEF CallRow
<1>4. Idle \in CallRow
  BY DEF Idle, CallRow, CallPC
<1> QED
  BY <1>1, <1>2, <1>3, <1>4

\* So does an item.
LEMMA ItemType ==
  ASSUME TypeOK, NEW i, NEW s \in {"received", "triaged", "dismissed"}
  PROVE  [item EXCEPT ![i].status = s] \in
            [Items -> [status : {"none", "received", "triaged", "dismissed"},
                       to : Disputes \cup {None}]]
<1> DEFINE ItemRow == [status : {"none", "received", "triaged", "dismissed"},
                       to : Disputes \cup {None}]
<1>1. item \in [Items -> ItemRow]
  BY DEF TypeOK
<1>2. \A j \in Items : [item[j] EXCEPT !.status = s] \in ItemRow
  BY <1>1
<1> QED
  BY <1>1, <1>2

\* Every step of a call keeps the types.
LEMMA AdvanceType ==
  ASSUME TypeOK, HasDispute, NEW c \in Callers, Advance(c) \/ Crash(c)
  PROVE  TypeOK'
<1> DEFINE d == call[c].dispute
           i == call[c].item
<1>1. call' \in [Callers -> CallRow]
  <2>1. CASE \E pc \in CallPC : call' = [call EXCEPT ![c].pc = pc]
    BY <2>1, CallType
  <2>2. CASE call' = [call EXCEPT ![c] = Idle]
    BY <2>2, CallType
  <2> QED
    BY <2>1, <2>2 DEF Advance, Crash, InsertDispute, SubmitRefused, SubmitThrows,
       SubmitRequest, Undo, LinkRequest, LinkFails, LogOpened, Return, TakeItem, RefuseItem,
       RouteToDispute, RouteToLink, CommitTriage, AbandonTriage, Goes, CallPC
<1>2. d \in Disputes /\ i \in Items \cup {None}
  <2>1. call[c] \in CallRow
    BY CallType
  <2>2. call[c].pc # "idle"
    BY <2>1, DisputesAssumption DEF Advance, Crash, InsertDispute, SubmitRefused, SubmitThrows,
       SubmitRequest, Undo, LinkRequest, LinkFails, LogOpened, Return, TakeItem, RefuseItem,
       RouteToDispute, RouteToLink, CommitTriage, AbandonTriage
  <2> QED
    BY <2>1, <2>2 DEF HasDispute, CallRow
<1>3. dispute' \in [Disputes -> {"none", "open", "resolved", "deleted"}]
  <2>1. \/ UNCHANGED dispute
        \/ dispute' = [dispute EXCEPT ![d] = "open"]
        \/ dispute' = [dispute EXCEPT ![d] = "deleted"]
    BY DEF Advance, Crash, InsertDispute, SubmitRefused, SubmitThrows,
       SubmitRequest, Undo, LinkRequest, LinkFails, LogOpened, Return, TakeItem, RefuseItem,
       RouteToDispute, RouteToLink, CommitTriage, AbandonTriage, rowVars
  <2> QED
    BY <2>1 DEF TypeOK
<1>4. linked' \subseteq Disputes /\ broken' \subseteq Disputes
  <2>1. /\ linked' = linked \/ linked' = linked \cup {d}
        /\ broken' = broken \/ broken' = broken \cup {d}
    BY DEF Advance, Crash, InsertDispute, SubmitRefused, SubmitThrows,
       SubmitRequest, Undo, LinkRequest, LinkFails, LogOpened, Return, TakeItem, RefuseItem,
       RouteToDispute, RouteToLink, CommitTriage, AbandonTriage, rowVars, Break
  <2> QED
    BY <1>2, <2>1 DEF TypeOK
<1>5. log' \in [Disputes -> SUBSET {"opened", "resolved", "forced"}]
  <2>1. \/ UNCHANGED log
        \/ log' = [log EXCEPT ![d] = IF topic = "closed" THEN @ ELSE @ \cup {"opened"}]
    BY DEF Advance, Crash, InsertDispute, SubmitRefused, SubmitThrows,
       SubmitRequest, Undo, LinkRequest, LinkFails, LogOpened, Return, TakeItem, RefuseItem,
       RouteToDispute, RouteToLink, CommitTriage, AbandonTriage, rowVars
  <2> QED
    BY <1>2, <2>1 DEF TypeOK
<1>6. item' \in [Items -> [status : {"none", "received", "triaged", "dismissed"},
                           to : Disputes \cup {None}]]
  <2>1. CASE UNCHANGED item
    BY <2>1 DEF TypeOK
  <2>2. CASE item' = [item EXCEPT ![i].status = "triaged"]
    BY <2>2, ItemType
  <2>3. CASE item' = [item EXCEPT ![i] = [status |-> "triaged", to |-> d]]
    BY <1>2, <2>3 DEF TypeOK
  <2> QED
    BY <2>1, <2>2, <2>3 DEF Advance, Crash, InsertDispute, SubmitRefused, SubmitThrows,
       SubmitRequest, Undo, LinkRequest, LinkFails, LogOpened, Return, TakeItem, RefuseItem,
       RouteToDispute, RouteToLink, CommitTriage, AbandonTriage, rowVars
<1>7. origin' \in [Disputes -> Items \cup {None}]
  <2>1. UNCHANGED origin \/ origin' = [origin EXCEPT ![d] = i]
    BY DEF Advance, Crash, InsertDispute, SubmitRefused, SubmitThrows,
       SubmitRequest, Undo, LinkRequest, LinkFails, LogOpened, Return, TakeItem, RefuseItem,
       RouteToDispute, RouteToLink, CommitTriage, AbandonTriage, rowVars
  <2> QED
    BY <1>2, <2>1 DEF TypeOK
<1>8. faults' \in 0..MaxFaults
  <2>1. UNCHANGED faults \/ Fault
    BY DEF Advance, Crash, InsertDispute, SubmitRefused, SubmitThrows,
       SubmitRequest, Undo, LinkRequest, LinkFails, LogOpened, Return, TakeItem, RefuseItem,
       RouteToDispute, RouteToLink, CommitTriage, AbandonTriage
  <2> QED
    BY <2>1, DisputesAssumption DEF TypeOK, Fault
<1>9. phase' \in [Disputes -> {"none", "open", "deleted"} \cup Request!Terminal]
  <2>1. \/ UNCHANGED phase
        \/ phase' = [phase EXCEPT ![d] = "open"]
        \/ phase' = [phase EXCEPT ![d] = "deleted"]
    BY DEF Advance, Crash, InsertDispute, SubmitRefused, SubmitThrows,
       SubmitRequest, Undo, LinkRequest, LinkFails, LogOpened, Return, TakeItem, RefuseItem,
       RouteToDispute, RouteToLink, CommitTriage, AbandonTriage, requestVars, Request!Submit
  <2> QED
    BY <2>1 DEF TypeOK
<1>10. UNCHANGED topic
  BY DEF Advance, Crash, InsertDispute, SubmitRefused, SubmitThrows,
     SubmitRequest, Undo, LinkRequest, LinkFails, LogOpened, Return, TakeItem, RefuseItem,
     RouteToDispute, RouteToLink, CommitTriage, AbandonTriage
<1> QED
  BY <1>1, <1>3, <1>4, <1>5, <1>6, <1>7, <1>8, <1>9, <1>10 DEF TypeOK, CallRow

-----------------------------------------------------------------------------
(* Frames. *)

\* A call that does not move keeps its place, though its dispute may be closed
\* and its request decided meanwhile.
LEMMA CallFrame ==
  ASSUME NEW c \in Callers, CallInv(c), call'[c] = call[c], broken \subseteq broken',
         NEW d, d = call[c].dispute,
         call[c].pc # "idle" =>
            /\ dispute'[d] = dispute[d] \/ (Stands(d) /\ Stands(d)')
            /\ phase'[d] = phase[d] \/ (Asked(d) /\ Asked(d)')
            /\ origin'[d] = origin[d]
            /\ d \in linked' <=> d \in linked,
         Busy(call[c]) /\ call[c].item # None => item'[call[c].item] = item[call[c].item]
  PROVE  CallInv(c)'
<1>1. CASE call[c].pc = "idle"
  BY <1>1 DEF CallInv, Busy, Started, Idle
<1>2. CASE call[c].pc # "idle"
  BY <1>2 DEF CallInv, Busy, Started, Stands, Asked
<1> QED
  BY <1>1, <1>2

\* A dispute nobody touches.
LEMMA DispFrame ==
  ASSUME NEW d \in Disputes, DispInv(d), broken \subseteq broken',
         dispute'[d] = dispute[d], phase'[d] = phase[d], log'[d] = log[d],
         origin'[d] = origin[d], d \in linked' <=> d \in linked,
         Working(d) => Working(d)',
         \A i : item[i].status = "triaged" => item'[i] = item[i]
  PROVE  DispInv(d)'
<1>1. Rows(d)'
  BY DEF DispInv, Rows, Closed, Stands, Asked
<1>2. ASSUME d \notin broken', ~Working(d)'
      PROVE  Whole(d)' /\ Triaged(d)'
  BY <1>2 DEF DispInv, Whole, Triaged, Stands, Asked
<1> QED
  BY <1>1, <1>2 DEF DispInv

\* An item nobody touches.
LEMMA ItemFrame ==
  ASSUME NEW i \in Items, ItemInv(i), item'[i] = item[i],
         item[i].to # None =>
            /\ Stands(item[i].to) => Stands(item[i].to)'
            /\ origin'[item[i].to] = origin[item[i].to]
            /\ \A c \in Callers : call'[c].dispute # item[i].to
  PROVE  ItemInv(i)'
  BY DEF ItemInv, Stands

-----------------------------------------------------------------------------
(* The steps of a call. *)

\* Call c, about dispute d, goes on as k or ends; of the other disputes and of
\* the items that are triaged it changes nothing.
LEMMA CallStep ==
  ASSUME IInv, TypeOK', NEW c \in Callers, NEW k \in CallRow,
         NEW d, d = call[c].dispute, call[c].pc # "idle",
         call' = [call EXCEPT ![c] = k],
         k = Idle \/ (k.dispute = call[c].dispute /\ k.item = call[c].item),
         Busy(k) /\ k.item # None => Busy(call[c]) \/ ~Locked(k.item),
         broken \subseteq broken',
         \A x \in Disputes \ {d} :
            /\ dispute'[x] = dispute[x] /\ phase'[x] = phase[x] /\ log'[x] = log[x]
            /\ origin'[x] = origin[x] /\ (x \in linked' <=> x \in linked),
         \A i \in Items : item'[i] # item[i] =>
            /\ i = call[c].item /\ Busy(call[c]) /\ k = Idle /\ ItemInv(i)',
         \A i : item[i].status = "triaged" => item'[i] = item[i],
         CallInv(c)', DispInv(d)'
  PROVE  IInv'
<1>1. /\ call \in [Callers -> CallRow]
      /\ call'[c] = k /\ \A e \in Callers \ {c} : call'[e] = call[e]
  BY DEF IInv, TypeOK, CallRow
<1>2. /\ d \in Disputes /\ d # None
      /\ \A e \in Callers \ {c} : call[e].dispute # d
  BY DisputesAssumption DEF IInv, CallInv, Exclusive
<1>3. k.dispute \in {d, None}
  BY DEF Idle
<1>4. ASSUME NEW e \in Callers
      PROVE  CallInv(e)'
  <2>1. CASE e = c
    BY <2>1
  <2>2. CASE e # c
    <3>1. CallInv(e) /\ call'[e] = call[e]
      BY <1>1, <2>2 DEF IInv
    <3>2. call[e].pc # "idle" => call[e].dispute \in Disputes \ {d}
      BY <1>2, <2>2, <3>1 DEF CallInv
    <3>3. Busy(call[e]) /\ call[e].item # None => item'[call[e].item] = item[call[e].item]
      <4>1. SUFFICES ASSUME Busy(call[e]), call[e].item # None,
                            item'[call[e].item] # item[call[e].item]
                     PROVE  FALSE
        OBVIOUS
      <4>2. call[e].item \in Items
        BY <1>1, <4>1 DEF CallRow
      <4>3. call[e].item = call[c].item /\ Busy(call[c])
        BY <4>1, <4>2
      <4> QED
        BY <2>2, <4>1, <4>3 DEF IInv, OneHolder
    <3> QED
      BY <3>1, <3>2, <3>3, CallFrame
  <2> QED
    BY <2>1, <2>2
<1>5. ASSUME NEW x \in Disputes
      PROVE  DispInv(x)'
  <2>1. CASE x = d
    BY <2>1
  <2>2. CASE x # d
    <3>1. Working(x) => Working(x)'
      BY <1>1, <2>2 DEF Working
    <3> QED
      BY <2>2, <3>1, DispFrame DEF IInv
  <2> QED
    BY <2>1, <2>2
<1>6. ASSUME NEW i \in Items
      PROVE  ItemInv(i)'
  <2>1. CASE item'[i] = item[i]
    <3>1. ItemInv(i)
      BY DEF IInv
    <3>2. item[i].to # None => item[i].to \in Disputes \ {d}
      BY <3>1 DEF ItemInv, IInv, TypeOK
    <3>3. item[i].to # None => \A e \in Callers : call'[e].dispute # item[i].to
      BY <1>1, <1>3, <3>1, <3>2 DEF ItemInv
    <3> QED
      BY <2>1, <3>1, <3>2, <3>3, ItemFrame DEF Stands
  <2>2. CASE item'[i] # item[i]
    BY <2>2
  <2> QED
    BY <2>1, <2>2
<1>7. Exclusive'
  <2>1. \A e \in Callers : call'[e].dispute \in {call[e].dispute, None}
    BY <1>1, <1>3
  <2> QED
    BY <2>1 DEF IInv, Exclusive
<1>8. OneHolder'
  <2>1. SUFFICES ASSUME NEW e \in Callers \ {c}, Busy(call[e]), Busy(k), k.item # None,
                        k.item = call[e].item
                 PROVE  FALSE
    BY <1>1 DEF IInv, OneHolder, Busy
  <2>2. k.item = call[c].item
    BY <2>1 DEF Busy, Idle
  <2>3. Locked(k.item)
    BY <2>1 DEF Locked, Busy
  <2> QED
    BY <2>1, <2>2, <2>3 DEF IInv, OneHolder
<1> QED
  BY <1>4, <1>5, <1>6, <1>7, <1>8 DEF IInv

\* Call c goes on, and no item changes.
LEMMA GoesOn ==
  ASSUME IInv, TypeOK', NEW c \in Callers, NEW d, d = call[c].dispute,
         call[c].pc # "idle",
         NEW pc \in CallPC \ {"idle", "wait"}, Goes(c, pc),
         Busy(call[c]) \/ ~Locked(call[c].item),
         broken \subseteq broken', UNCHANGED item,
         \A x \in Disputes \ {d} :
            /\ dispute'[x] = dispute[x] /\ phase'[x] = phase[x] /\ log'[x] = log[x]
            /\ origin'[x] = origin[x] /\ (x \in linked' <=> x \in linked),
         CallInv(c)', Rows(d)'
  PROVE  IInv'
<1> DEFINE k == [call[c] EXCEPT !.pc = pc]
<1>1. /\ call \in [Callers -> CallRow] /\ k \in CallRow
      /\ k.pc = pc /\ k.dispute = d /\ k.item = call[c].item
  BY CallType DEF IInv, TypeOK, CallRow
<1>2. call' = [call EXCEPT ![c] = k] /\ call'[c] = k
  BY <1>1 DEF Goes
<1>3. Working(d)'
  BY <1>1, <1>2 DEF Working
<1>4. DispInv(d)'
  BY <1>3 DEF DispInv
<1> HIDE DEF k
<1> QED
  BY <1>1, <1>2, <1>4, CallStep

\* Call c ends.
LEMMA EndsCall ==
  ASSUME IInv, TypeOK', NEW c \in Callers, NEW d, d = call[c].dispute,
         call[c].pc # "idle",
         call' = [call EXCEPT ![c] = Idle],
         broken \subseteq broken', UNCHANGED <<dispute, phase, log, origin, linked>>,
         \A i \in Items : item'[i] # item[i] =>
            i = call[c].item /\ Busy(call[c]) /\ ItemInv(i)',
         \A i : item[i].status = "triaged" => item'[i] = item[i],
         d \notin broken' => Whole(d) /\ Triaged(d)'
  PROVE  IInv'
<1>1. Idle \in CallRow /\ ~Busy(Idle)
  BY CallType DEF IInv, Busy, Idle
<1>2. call'[c] = Idle
  BY DEF IInv, TypeOK
<1>3. CallInv(c)'
  BY <1>2 DEF CallInv, Idle, Busy, Started
<1>4. Rows(d)
  BY DEF IInv, CallInv, DispInv
<1>5. Rows(d)' /\ (Whole(d)' <=> Whole(d))
  BY <1>4 DEF Rows, Closed, Whole, Stands, Asked
<1>6. DispInv(d)'
  BY <1>5 DEF DispInv
<1> QED
  BY <1>1, <1>3, <1>6, CallStep

\* What the invariant says of call c and its dispute, unfolded.
LEMMA CallFacts ==
  ASSUME IInv, NEW c \in Callers, call[c].pc # "idle", NEW d, d = call[c].dispute
  PROVE  /\ d \in Disputes /\ call[c] \in CallRow /\ CallInv(c) /\ Rows(d)
         /\ dispute \in [Disputes -> {"none", "open", "resolved", "deleted"}]
         /\ origin \in [Disputes -> Items \cup {None}]
         /\ phase \in [Disputes -> {"none", "open", "deleted"} \cup Request!Terminal]
         /\ log \in [Disputes -> SUBSET {"opened", "resolved", "forced"}]
         /\ \A pc : [call EXCEPT ![c].pc = pc][c] = [call[c] EXCEPT !.pc = pc]
  BY CallType DEF IInv, CallInv, DispInv, TypeOK

LEMMA InsertDisputeInv ==
  ASSUME IInv, TypeOK', NEW c \in Callers, InsertDispute(c)
  PROVE  IInv'
<1>1. PICK d : d = call[c].dispute
  OBVIOUS
<1>2. /\ call[c].pc = "insert" /\ Goes(c, "submit")
      /\ dispute' = [dispute EXCEPT ![d] = "open"]
      /\ origin' = [origin EXCEPT ![d] = call[c].item]
      /\ UNCHANGED <<linked, log, item, broken, phase>>
  BY <1>1 DEF InsertDispute, requestVars
<1>3. d \in Disputes /\ call[c] \in CallRow /\ CallInv(c) /\ Rows(d)
  BY <1>1, <1>2, CallFacts
<1>4. dispute'[d] = "open" /\ origin'[d] = call[c].item
  BY <1>1, <1>2, <1>3, CallFacts
<1>5. call'[c] = [call[c] EXCEPT !.pc = "submit"]
  BY <1>1, <1>2, CallFacts DEF Goes
<1>6. dispute[d] = "none" /\ d \notin linked /\ phase[d] = "none" /\ log[d] = {}
  BY <1>1, <1>2, <1>3 DEF CallInv, Rows
<1>7. Rows(d)'
  BY <1>2, <1>4, <1>6 DEF Rows, Closed
<1>8. CallInv(c)'
  BY <1>1, <1>2, <1>3, <1>4, <1>5, <1>6 DEF CallInv, CallRow, Busy, Started, Stands
<1>9. "submit" \in CallPC \ {"idle", "wait"} /\ Busy(call[c])
  BY <1>2 DEF CallPC, Busy
<1> QED
  BY <1>1, <1>2, <1>7, <1>8, <1>9, GoesOn, CallFacts

LEMMA SubmitRefusedInv ==
  ASSUME IInv, TypeOK', NEW c \in Callers, SubmitRefused(c)
  PROVE  IInv'
<1>1. PICK d : d = call[c].dispute
  OBVIOUS
<1>2. /\ call[c].pc = "submit" /\ Goes(c, "undo")
      /\ UNCHANGED <<dispute, origin, linked, log, item, broken, phase>>
  BY DEF SubmitRefused, requestVars, rowVars
<1>3. d \in Disputes /\ call[c] \in CallRow /\ CallInv(c) /\ Rows(d)
  BY <1>1, <1>2, CallFacts
<1>4. call'[c] = [call[c] EXCEPT !.pc = "undo"]
  BY <1>1, <1>2, CallFacts DEF Goes
<1>5. Rows(d)'
  BY <1>2, <1>3 DEF Rows, Closed, Stands, Asked
<1>6. CallInv(c)'
  BY <1>1, <1>2, <1>3, <1>4 DEF CallInv, CallRow, Busy, Started, Stands
<1>7. "undo" \in CallPC \ {"idle", "wait"} /\ Busy(call[c])
  BY <1>2 DEF CallPC, Busy
<1> QED
  BY <1>1, <1>2, <1>5, <1>6, <1>7, GoesOn, CallFacts

LEMMA SubmitThrowsInv ==
  ASSUME IInv, TypeOK', NEW c \in Callers, SubmitThrows(c)
  PROVE  IInv'
<1>1. PICK d : d = call[c].dispute
  OBVIOUS
<1>2. /\ call[c].pc = "submit" /\ Goes(c, "fail")
      /\ broken' = broken \cup {d}
      /\ UNCHANGED <<dispute, origin, linked, log, item, phase>>
  BY <1>1 DEF SubmitThrows, Break, requestVars, rowVars
<1>3. d \in Disputes /\ call[c] \in CallRow /\ CallInv(c) /\ Rows(d)
  BY <1>1, <1>2, CallFacts
<1>4. call'[c] = [call[c] EXCEPT !.pc = "fail"]
  BY <1>1, <1>2, CallFacts DEF Goes
<1>5. Rows(d)'
  BY <1>2, <1>3 DEF Rows, Closed, Stands, Asked
<1>6. CallInv(c)'
  BY <1>1, <1>2, <1>3, <1>4 DEF CallInv, CallRow, Busy, Started, Stands
<1>7. "fail" \in CallPC \ {"idle", "wait"} /\ Busy(call[c])
  BY <1>2 DEF CallPC, Busy
<1> QED
  BY <1>1, <1>2, <1>5, <1>6, <1>7, GoesOn, CallFacts

LEMMA SubmitRequestInv ==
  ASSUME IInv, TypeOK', NEW c \in Callers, SubmitRequest(c)
  PROVE  IInv'
<1>1. PICK d : d = call[c].dispute
  OBVIOUS
<1>2. /\ call[c].pc = "submit" /\ Goes(c, "link")
      /\ phase' = [phase EXCEPT ![d] = "open"]
      /\ UNCHANGED <<dispute, origin, linked, log, item, broken>>
  BY <1>1 DEF SubmitRequest, Request!Submit, rowVars
<1>3. d \in Disputes /\ call[c] \in CallRow /\ CallInv(c) /\ Rows(d)
  BY <1>1, <1>2, CallFacts
<1>4. call'[c] = [call[c] EXCEPT !.pc = "link"] /\ phase'[d] = "open"
  BY <1>1, <1>2, <1>3, CallFacts DEF Goes
<1>5. Stands(d) /\ d \notin linked
  BY <1>1, <1>2, <1>3 DEF CallInv, Started
<1>6. Rows(d)'
  BY <1>2, <1>3, <1>5 DEF Rows, Closed, Stands
<1>7. CallInv(c)'
  BY <1>1, <1>2, <1>3, <1>4 DEF CallInv, CallRow, Busy, Started, Stands, Asked
<1>8. "link" \in CallPC \ {"idle", "wait"} /\ Busy(call[c])
  BY <1>2 DEF CallPC, Busy
<1> QED
  BY <1>1, <1>2, <1>6, <1>7, <1>8, GoesOn, CallFacts

LEMMA UndoInv ==
  ASSUME IInv, TypeOK', NEW c \in Callers, Undo(c)
  PROVE  IInv'
<1>1. PICK d : d = call[c].dispute
  OBVIOUS
<1>2. /\ call[c].pc = "undo" /\ Goes(c, "fail")
      /\ dispute' = [dispute EXCEPT ![d] = "deleted"]
      /\ UNCHANGED <<origin, linked, log, item, broken, phase>>
  BY <1>1 DEF Undo, requestVars
<1>3. d \in Disputes /\ call[c] \in CallRow /\ CallInv(c) /\ Rows(d)
  BY <1>1, <1>2, CallFacts
<1>4. call'[c] = [call[c] EXCEPT !.pc = "fail"] /\ dispute'[d] = "deleted"
  BY <1>1, <1>2, <1>3, CallFacts DEF Goes
<1>5. d \notin linked /\ phase[d] = "none"
  BY <1>1, <1>2, <1>3 DEF CallInv, Started
<1>6. Rows(d)'
  BY <1>2, <1>3, <1>4, <1>5 DEF Rows, Closed
<1>7. CallInv(c)'
  BY <1>1, <1>2, <1>3, <1>4, <1>5 DEF CallInv, CallRow, Busy, Started, Stands, Asked
<1>8. "fail" \in CallPC \ {"idle", "wait"} /\ Busy(call[c])
  BY <1>2 DEF CallPC, Busy
<1> QED
  BY <1>1, <1>2, <1>6, <1>7, <1>8, GoesOn, CallFacts

LEMMA LinkRequestInv ==
  ASSUME IInv, TypeOK', NEW c \in Callers, LinkRequest(c)
  PROVE  IInv'
<1>1. PICK d : d = call[c].dispute
  OBVIOUS
<1>2. /\ call[c].pc = "link" /\ Goes(c, "event")
      /\ linked' = linked \cup {d}
      /\ UNCHANGED <<dispute, origin, log, item, broken, phase>>
  BY <1>1 DEF LinkRequest, requestVars
<1>3. d \in Disputes /\ call[c] \in CallRow /\ CallInv(c) /\ Rows(d)
  BY <1>1, <1>2, CallFacts
<1>4. call'[c] = [call[c] EXCEPT !.pc = "event"]
  BY <1>1, <1>2, CallFacts DEF Goes
<1>5. Stands(d) /\ Asked(d)
  BY <1>1, <1>2, <1>3 DEF CallInv, Started
<1>6. Rows(d)'
  BY <1>2, <1>3, <1>5 DEF Rows, Closed, Stands, Asked
<1>7. CallInv(c)'
  BY <1>1, <1>2, <1>3, <1>4 DEF CallInv, CallRow, Busy, Started, Stands
<1>8. "event" \in CallPC \ {"idle", "wait"} /\ Busy(call[c])
  BY <1>2 DEF CallPC, Busy
<1> QED
  BY <1>1, <1>2, <1>6, <1>7, <1>8, GoesOn, CallFacts

\* The compensation may take back both rows, or one, or neither.
LEMMA LinkFailsInv ==
  ASSUME IInv, TypeOK', NEW c \in Callers, LinkFails(c)
  PROVE  IInv'
<1>1. PICK d : d = call[c].dispute
  OBVIOUS
<1>2. PICK gone \in SUBSET {"request", "dispute"} :
      /\ phase' = IF "request" \in gone THEN [phase EXCEPT ![d] = "deleted"] ELSE phase
      /\ dispute' = IF "dispute" \in gone THEN [dispute EXCEPT ![d] = "deleted"] ELSE dispute
      /\ broken' = IF gone = {"request", "dispute"} THEN broken ELSE broken \cup {d}
  BY <1>1 DEF LinkFails
<1>3. /\ call[c].pc = "link" /\ Goes(c, "fail")
      /\ UNCHANGED <<origin, linked, log, item>>
  BY DEF LinkFails
<1>4. d \in Disputes /\ call[c] \in CallRow /\ CallInv(c) /\ Rows(d)
  BY <1>1, <1>3, CallFacts
<1>5. /\ call'[c] = [call[c] EXCEPT !.pc = "fail"]
      /\ phase'[d] = IF "request" \in gone THEN "deleted" ELSE phase[d]
      /\ dispute'[d] = IF "dispute" \in gone THEN "deleted" ELSE dispute[d]
  BY <1>1, <1>2, <1>3, <1>4, CallFacts DEF Goes
<1>6. d \notin linked /\ Stands(d)
  BY <1>1, <1>3, <1>4 DEF CallInv, Started
<1>7. Rows(d)'
  BY <1>3, <1>4, <1>5, <1>6 DEF Rows, Closed, Stands
<1>8. d \in broken' \/ (phase'[d] = "deleted" /\ dispute'[d] = "deleted")
  BY <1>2, <1>5
<1>9. CallInv(c)'
  BY <1>1, <1>3, <1>4, <1>5, <1>6, <1>8 DEF CallInv, CallRow, Busy, Started, Stands, Asked
<1>10. "fail" \in CallPC \ {"idle", "wait"} /\ Busy(call[c]) /\ broken \subseteq broken'
  BY <1>2, <1>3 DEF CallPC, Busy
<1> QED
  BY <1>1, <1>2, <1>3, <1>7, <1>9, <1>10, GoesOn, CallFacts

LEMMA LogOpenedInv ==
  ASSUME IInv, TypeOK', NEW c \in Callers, LogOpened(c)
  PROVE  IInv'
<1>1. PICK d : d = call[c].dispute
  OBVIOUS
<1>2. /\ call[c].pc = "event" /\ Goes(c, "ok")
      /\ log' = [log EXCEPT ![d] = IF topic = "closed" THEN @ ELSE @ \cup {"opened"}]
      /\ UNCHANGED <<dispute, origin, linked, item, broken, phase>>
  BY <1>1 DEF LogOpened, requestVars
<1>3. d \in Disputes /\ call[c] \in CallRow /\ CallInv(c) /\ Rows(d)
  BY <1>1, <1>2, CallFacts
<1>4. call'[c] = [call[c] EXCEPT !.pc = "ok"]
  BY <1>1, <1>2, CallFacts DEF Goes
<1>5. log'[d] = log[d] \/ log'[d] = log[d] \cup {"opened"}
  BY <1>1, <1>2, <1>3, CallFacts
<1>6. Stands(d)
  BY <1>1, <1>2, <1>3 DEF CallInv, Started
<1>7. Rows(d)'
  <2>1. ("resolved" \in log'[d] <=> "resolved" \in log[d]) /\ ("forced" \in log'[d] <=> "forced" \in log[d])
    BY <1>5
  <2> QED
    BY <1>2, <1>3, <1>6, <2>1 DEF Rows, Closed, Stands, Asked
<1>8. CallInv(c)'
  BY <1>1, <1>2, <1>3, <1>4 DEF CallInv, CallRow, Busy, Started, Stands
<1>9. "ok" \in CallPC \ {"idle", "wait"} /\ Busy(call[c])
  BY <1>2 DEF CallPC, Busy
<1> QED
  BY <1>1, <1>2, <1>7, <1>8, <1>9, GoesOn, CallFacts

\* A call is done with its dispute: what it leaves is whole.
LEMMA LeavesWhole ==
  ASSUME IInv, NEW c \in Callers, call[c].pc \in {"ok", "fail"}, NEW d, d = call[c].dispute,
         d \notin broken
  PROVE  Whole(d) /\ (call[c].pc = "fail" => ~Stands(d)) /\ (call[c].pc = "ok" => Stands(d))
<1>1. CallInv(c) /\ Rows(d)
  BY CallFacts
<1> QED
  BY <1>1 DEF CallInv, Rows, Whole, Started

LEMMA ReturnInv ==
  ASSUME IInv, TypeOK', NEW c \in Callers, Return(c)
  PROVE  IInv'
<1>1. PICK d : d = call[c].dispute
  OBVIOUS
<1>2. /\ call[c].pc \in {"ok", "fail"} /\ call[c].item = None
      /\ call' = [call EXCEPT ![c] = Idle]
      /\ UNCHANGED <<dispute, origin, linked, log, item, broken, phase>>
  BY DEF Return, requestVars, rowVars
<1>3. d \notin broken => Whole(d) /\ (Stands(d) => origin[d] = None)
  BY <1>1, <1>2, LeavesWhole, CallFacts DEF CallInv, Started
<1>4. d \notin broken' => Whole(d) /\ Triaged(d)'
  BY <1>2, <1>3 DEF Triaged, Stands
<1> QED
  BY <1>1, <1>2, <1>4, EndsCall

LEMMA TakeItemInv ==
  ASSUME IInv, TypeOK', NEW c \in Callers, TakeItem(c)
  PROVE  IInv'
<1>1. PICK d : d = call[c].dispute
  OBVIOUS
<1>2. /\ call[c].pc = "wait" /\ ~Locked(call[c].item) /\ Goes(c, "route")
      /\ item[call[c].item].status = "received"
      /\ UNCHANGED <<dispute, origin, linked, log, item, broken, phase>>
  BY DEF TakeItem, requestVars, rowVars
<1>3. d \in Disputes /\ call[c] \in CallRow /\ CallInv(c) /\ Rows(d)
  BY <1>1, <1>2, CallFacts
<1>4. call'[c] = [call[c] EXCEPT !.pc = "route"]
  BY <1>1, <1>2, CallFacts DEF Goes
<1>5. item[call[c].item] = [status |-> "received", to |-> None]
  <2>1. PICK i : i = call[c].item
    OBVIOUS
  <2>2. i \in Items
    BY <1>2, <1>3, <2>1 DEF CallInv, CallRow
  <2>3. item[i] \in [status : {"none", "received", "triaged", "dismissed"},
                     to : Disputes \cup {None}] /\ ItemInv(i)
    BY <2>2 DEF IInv, TypeOK
  <2> QED
    BY <1>2, <2>1, <2>3 DEF ItemInv
<1>6. Rows(d)'
  BY <1>2, <1>3 DEF Rows, Closed, Stands, Asked
<1>7. CallInv(c)'
  BY <1>1, <1>2, <1>3, <1>4, <1>5 DEF CallInv, CallRow, Busy, Started, Stands
<1>8. "route" \in CallPC \ {"idle", "wait"}
  BY DEF CallPC
<1> QED
  BY <1>1, <1>2, <1>6, <1>7, <1>8, GoesOn

LEMMA RefuseItemInv ==
  ASSUME IInv, TypeOK', NEW c \in Callers, RefuseItem(c)
  PROVE  IInv'
<1>1. PICK d : d = call[c].dispute
  OBVIOUS
<1>2. /\ call[c].pc = "wait"
      /\ call' = [call EXCEPT ![c] = Idle]
      /\ UNCHANGED <<dispute, origin, linked, log, item, broken, phase>>
  BY DEF RefuseItem, requestVars, rowVars
<1>3. dispute[d] = "none" /\ d \notin linked /\ phase[d] = "none"
  BY <1>1, <1>2, CallFacts DEF CallInv, Rows
<1>4. Whole(d) /\ Triaged(d)'
  BY <1>2, <1>3 DEF Whole, Triaged, Stands, Asked
<1> QED
  BY <1>1, <1>2, <1>4, EndsCall

LEMMA RouteToDisputeInv ==
  ASSUME IInv, TypeOK', NEW c \in Callers, RouteToDispute(c)
  PROVE  IInv'
<1>1. PICK d : d = call[c].dispute
  OBVIOUS
<1>2. PICK pc \in {"insert", "fail"} : Goes(c, pc)
  BY DEF RouteToDispute
<1>3. /\ call[c].pc = "route"
      /\ UNCHANGED <<dispute, origin, linked, log, item, broken, phase>>
  BY DEF RouteToDispute, requestVars, rowVars
<1>4. d \in Disputes /\ call[c] \in CallRow /\ CallInv(c) /\ Rows(d)
  BY <1>1, <1>3, CallFacts
<1>5. call'[c] = [call[c] EXCEPT !.pc = pc]
  BY <1>1, <1>2, <1>3, CallFacts DEF Goes
<1>6. dispute[d] = "none" /\ d \notin linked /\ phase[d] = "none"
  BY <1>1, <1>3, <1>4 DEF CallInv, Rows
<1>7. Rows(d)'
  BY <1>3, <1>4 DEF Rows, Closed, Stands, Asked
<1>8. CallInv(c)'
  BY <1>1, <1>3, <1>4, <1>5, <1>6 DEF CallInv, CallRow, Busy, Started, Stands, Asked
<1>9. pc \in CallPC \ {"idle", "wait"} /\ Busy(call[c])
  BY <1>3 DEF CallPC, Busy
<1> QED
  BY <1>1, <1>2, <1>3, <1>7, <1>8, <1>9, GoesOn

LEMMA RouteToLinkInv ==
  ASSUME IInv, TypeOK', NEW c \in Callers, RouteToLink(c)
  PROVE  IInv'
<1>1. PICK d, i : d = call[c].dispute /\ i = call[c].item
  OBVIOUS
<1>2. /\ call[c].pc = "route"
      /\ item' = [item EXCEPT ![i].status = "triaged"]
      /\ call' = [call EXCEPT ![c] = Idle]
      /\ UNCHANGED <<dispute, origin, linked, log, broken, phase>>
  BY <1>1 DEF RouteToLink, requestVars
<1>3. d \in Disputes /\ call[c] \in CallRow /\ CallInv(c) /\ Rows(d)
  BY <1>1, <1>2, CallFacts
<1>4. dispute[d] = "none" /\ d \notin linked /\ phase[d] = "none"
  BY <1>1, <1>2, <1>3 DEF CallInv, Rows
<1>5. i \in Items /\ item[i] = [status |-> "received", to |-> None]
  BY <1>1, <1>2, <1>3 DEF CallInv, CallRow, Busy
<1>6. /\ item'[i].to = None /\ item'[i].status = "triaged"
      /\ \A j : j # i => item'[j] = item[j]
  BY <1>2, <1>5 DEF IInv, TypeOK
<1>7. ItemInv(i)'
  BY <1>6 DEF ItemInv
<1>8. Whole(d) /\ Triaged(d)'
  BY <1>2, <1>4 DEF Whole, Triaged, Stands, Asked
<1>9. /\ \A j \in Items : item'[j] # item[j] => j = call[c].item /\ Busy(call[c]) /\ ItemInv(j)'
      /\ \A j : item[j].status = "triaged" => item'[j] = item[j]
  BY <1>1, <1>2, <1>5, <1>6, <1>7 DEF Busy
<1> QED
  BY <1>1, <1>2, <1>8, <1>9, EndsCall

LEMMA CommitTriageInv ==
  ASSUME IInv, TypeOK', NEW c \in Callers, CommitTriage(c)
  PROVE  IInv'
<1>1. PICK d, i : d = call[c].dispute /\ i = call[c].item
  OBVIOUS
<1>2. /\ call[c].pc = "ok" /\ i # None
      /\ item' = [item EXCEPT ![i] = [status |-> "triaged", to |-> d]]
      /\ call' = [call EXCEPT ![c] = Idle]
      /\ UNCHANGED <<dispute, origin, linked, log, broken, phase>>
  BY <1>1 DEF CommitTriage, requestVars
<1>3. d \in Disputes /\ call[c] \in CallRow /\ CallInv(c) /\ Rows(d)
  BY <1>1, <1>2, CallFacts
<1>4. Stands(d) /\ origin[d] = i
  BY <1>1, <1>2, <1>3 DEF CallInv, Started
<1>5. i \in Items /\ item[i] = [status |-> "received", to |-> None]
  BY <1>1, <1>2, <1>3 DEF CallInv, CallRow, Busy
<1>6. /\ item'[i] = [status |-> "triaged", to |-> d]
      /\ \A j : j # i => item'[j] = item[j]
  BY <1>2, <1>5 DEF IInv, TypeOK
<1>7. \A e \in Callers : call'[e].dispute # d
  <2>1. \A e \in Callers \ {c} : call[e].dispute # d /\ call'[e] = call[e]
    BY <1>1, <1>2, <1>3, DisputesAssumption DEF IInv, Exclusive, TypeOK
  <2>2. call'[c].dispute = None
    BY <1>2 DEF IInv, TypeOK, Idle
  <2> QED
    BY <1>3, <2>1, <2>2, DisputesAssumption
<1>8. ItemInv(i)'
  BY <1>2, <1>4, <1>6, <1>7 DEF ItemInv, Stands
<1>9. d \notin broken' => Whole(d) /\ Triaged(d)'
  BY <1>1, <1>2, <1>4, <1>6, LeavesWhole DEF Triaged
<1>10. /\ \A j \in Items : item'[j] # item[j] => j = call[c].item /\ Busy(call[c]) /\ ItemInv(j)'
       /\ \A j : item[j].status = "triaged" => item'[j] = item[j]
  BY <1>1, <1>2, <1>5, <1>6, <1>8 DEF Busy
<1> QED
  BY <1>1, <1>2, <1>9, <1>10, EndsCall

LEMMA AbandonTriageInv ==
  ASSUME IInv, TypeOK', NEW c \in Callers, AbandonTriage(c)
  PROVE  IInv'
<1>1. PICK d : d = call[c].dispute
  OBVIOUS
<1>2. /\ call[c].pc \in {"fail", "route", "ok"}
      /\ call[c].pc = "ok" => broken' = broken \cup {d}
      /\ broken \subseteq broken'
      /\ call' = [call EXCEPT ![c] = Idle]
      /\ UNCHANGED <<dispute, origin, linked, log, item, phase>>
  BY <1>1 DEF AbandonTriage, Break, requestVars, rowVars
<1>3. d \notin broken' => Whole(d) /\ ~Stands(d)
  <2>1. CASE call[c].pc = "fail"
    BY <1>1, <1>2, <2>1, LeavesWhole
  <2>2. CASE call[c].pc = "route"
    BY <1>1, <2>2, CallFacts DEF CallInv, Rows, Whole, Stands, Asked
  <2>3. CASE call[c].pc = "ok"
    BY <1>2, <2>3
  <2> QED
    BY <1>2, <2>1, <2>2, <2>3
<1>4. d \notin broken' => Whole(d) /\ Triaged(d)'
  BY <1>2, <1>3 DEF Triaged, Stands
<1> QED
  BY <1>1, <1>2, <1>4, EndsCall

LEMMA CrashInv ==
  ASSUME IInv, TypeOK', NEW c \in Callers, Crash(c)
  PROVE  IInv'
<1>1. PICK d : d = call[c].dispute
  OBVIOUS
<1>2. /\ call[c].pc # "idle"
      /\ broken' = broken \cup {d}
      /\ call' = [call EXCEPT ![c] = Idle]
      /\ UNCHANGED <<dispute, origin, linked, log, item, phase>>
  BY <1>1 DEF Crash, Break, requestVars, rowVars
<1> QED
  BY <1>1, <1>2, EndsCall

-----------------------------------------------------------------------------
(* Calls begin. *)

\* Call c begins as k, about a dispute that is not there yet.
LEMMA CallBegins ==
  ASSUME IInv, TypeOK', NEW c \in Callers, NEW d \in Disputes, NEW k \in CallRow,
         call[c].pc = "idle", Fresh(d),
         call' = [call EXCEPT ![c] = k], k.dispute = d,
         \/ k.pc = "insert" /\ k.item = None
         \/ k.pc = "wait" /\ k.item # None,
         UNCHANGED <<dispute, origin, linked, log, item, broken, phase>>
  PROVE  IInv'
<1>1. /\ call \in [Callers -> CallRow]
      /\ call'[c] = k /\ \A e \in Callers \ {c} : call'[e] = call[e]
  BY DEF IInv, TypeOK, CallRow
<1>2. dispute[d] = "none" /\ \A e \in Callers : call[e].dispute # d
  BY DEF Fresh
<1>3. ASSUME NEW e \in Callers
      PROVE  CallInv(e)'
  <2>1. CASE e = c
    BY <1>1, <1>2, <2>1 DEF CallInv, Busy, Started
  <2>2. CASE e # c
    BY <1>1, <2>2, CallFrame DEF IInv
  <2> QED
    BY <2>1, <2>2
<1>4. ASSUME NEW x \in Disputes
      PROVE  DispInv(x)'
  <2>1. ASSUME Working(x)
        PROVE  Working(x)'
    <3>1. PICK e \in Callers : call[e].dispute = x /\ call[e].pc # "wait"
      BY <2>1 DEF Working
    <3>2. CASE e = c
      <4>1. call[c] = Idle
        BY DEF IInv, CallInv
      <4> QED
        BY <3>1, <3>2, <4>1, DisputesAssumption DEF Idle
    <3>3. CASE e # c
      BY <1>1, <3>1, <3>3 DEF Working
    <3> QED
      BY <3>2, <3>3
  <2> QED
    BY <2>1, DispFrame DEF IInv
<1>5. ASSUME NEW i \in Items
      PROVE  ItemInv(i)'
  <2>1. ItemInv(i)
    BY DEF IInv
  <2>2. item[i].to # None => item[i].to # d
    BY <1>2, <2>1 DEF ItemInv, Stands
  <2>3. item[i].to # None => \A e \in Callers : call'[e].dispute # item[i].to
    BY <1>1, <2>1, <2>2 DEF ItemInv
  <2> QED
    BY <2>1, <2>3, ItemFrame DEF Stands
<1>6. Exclusive'
  BY <1>1, <1>2 DEF IInv, Exclusive
<1>7. OneHolder'
  BY <1>1 DEF IInv, OneHolder, Busy
<1> QED
  BY <1>3, <1>4, <1>5, <1>6, <1>7 DEF IInv

LEMMA OpenDisputeInv ==
  ASSUME IInv, TypeOK', NEW c \in Callers, NEW d \in Disputes, OpenDispute(c, d)
  PROVE  IInv'
<1> DEFINE k == [pc |-> "insert", item |-> None, dispute |-> d]
<1>1. /\ call[c].pc = "idle" /\ Fresh(d)
      /\ call' = [call EXCEPT ![c] = k]
      /\ UNCHANGED <<dispute, origin, linked, log, item, broken, phase>>
  BY DEF OpenDispute, requestVars, rowVars
<1>2. k \in CallRow /\ k.dispute = d /\ k.pc = "insert" /\ k.item = None
  BY DEF CallRow, CallPC
<1> HIDE DEF k
<1> QED
  BY <1>1, <1>2, CallBegins

LEMMA TriageIntakeInv ==
  ASSUME IInv, TypeOK', NEW c \in Callers, NEW i \in Items, NEW d \in Disputes,
         TriageIntake(c, i, d)
  PROVE  IInv'
<1> DEFINE k == [pc |-> "wait", item |-> i, dispute |-> d]
<1>1. /\ call[c].pc = "idle" /\ Fresh(d)
      /\ call' = [call EXCEPT ![c] = k]
      /\ UNCHANGED <<dispute, origin, linked, log, item, broken, phase>>
  BY DEF TriageIntake, requestVars, rowVars
<1>2. k \in CallRow /\ k.dispute = d /\ k.pc = "wait" /\ k.item # None
  BY DisputesAssumption DEF CallRow, CallPC
<1> HIDE DEF k
<1> QED
  BY <1>1, <1>2, CallBegins

-----------------------------------------------------------------------------
(* Rows change outside the calls. *)

\* Dispute d is closed, or its request moves.
LEMMA RowStep ==
  ASSUME IInv, TypeOK', NEW d \in Disputes,
         UNCHANGED <<call, item, origin, linked, broken>>,
         \A x \in Disputes \ {d} :
            dispute'[x] = dispute[x] /\ phase'[x] = phase[x] /\ log'[x] = log[x],
         dispute'[d] = dispute[d] \/ (Stands(d) /\ Stands(d)'),
         phase'[d] = phase[d] \/ (Asked(d) /\ Asked(d)'),
         Rows(d)'
  PROVE  IInv'
<1>1. ASSUME NEW x \in Disputes
      PROVE  /\ dispute'[x] = dispute[x] \/ (Stands(x) /\ Stands(x)')
             /\ phase'[x] = phase[x] \/ (Asked(x) /\ Asked(x)')
  BY <1>1 DEF Stands
<1>2. ASSUME NEW c \in Callers
      PROVE  CallInv(c)'
  <2>1. CallInv(c) /\ (call[c].pc # "idle" => call[c].dispute \in Disputes)
    BY DEF IInv, CallInv
  <2> QED
    BY <1>1, <2>1, CallFrame
<1>3. ASSUME NEW x \in Disputes
      PROVE  DispInv(x)'
  <2>1. DispInv(x) /\ (Working(x)' <=> Working(x))
    BY DEF IInv, Working
  <2>2. CASE x = d
    BY <1>1, <2>1, <2>2 DEF DispInv, Whole, Triaged, Stands, Asked
  <2>3. CASE x # d
    BY <2>1, <2>3, DispFrame
  <2> QED
    BY <2>2, <2>3
<1>4. ASSUME NEW i \in Items
      PROVE  ItemInv(i)'
  <2>1. ItemInv(i) /\ item[i].to \in Disputes \cup {None}
    BY DEF IInv, TypeOK
  <2>2. item[i].to # None => (Stands(item[i].to) => Stands(item[i].to)')
    BY <1>1, <2>1 DEF Stands
  <2>3. item[i].to # None => \A c \in Callers : call'[c].dispute # item[i].to
    BY <2>1 DEF ItemInv
  <2> QED
    BY <2>1, <2>2, <2>3, ItemFrame
<1>5. Exclusive' /\ OneHolder'
  BY DEF IInv, Exclusive, OneHolder, Busy
<1> QED
  BY <1>2, <1>3, <1>4, <1>5 DEF IInv

LEMMA ResolveDisputeInv ==
  ASSUME IInv, TypeOK', NEW d \in Disputes, ResolveDispute(d)
  PROVE  IInv'
<1>1. /\ dispute[d] = "open" /\ d \in linked /\ phase[d] \in Heard
      /\ dispute' = [dispute EXCEPT ![d] = "resolved"]
      /\ log' = [log EXCEPT ![d] = @ \cup {"resolved"}]
      /\ UNCHANGED <<call, item, origin, linked, broken, phase>>
  BY DEF ResolveDispute, requestVars
<1>2. dispute'[d] = "resolved" /\ log'[d] = log[d] \cup {"resolved"}
  BY <1>1 DEF IInv, TypeOK
<1>3. Rows(d)
  BY DEF IInv, DispInv
<1>4. Rows(d)'
  BY <1>1, <1>2, <1>3 DEF Rows, Closed, Stands, Asked
<1> QED
  BY <1>1, <1>2, <1>4, RowStep DEF Stands

LEMMA DrainDisputeInv ==
  ASSUME IInv, TypeOK', NEW d \in Disputes, DrainDispute(d)
  PROVE  IInv'
<1>1. /\ dispute[d] = "open"
      /\ dispute' = [dispute EXCEPT ![d] = "resolved"]
      /\ log' = [log EXCEPT ![d] = @ \cup {"forced"}]
      /\ UNCHANGED <<call, item, origin, linked, broken, phase>>
  BY DEF DrainDispute, requestVars
<1>2. dispute'[d] = "resolved" /\ log'[d] = log[d] \cup {"forced"}
  BY <1>1 DEF IInv, TypeOK
<1>3. Rows(d)
  BY DEF IInv, DispInv
<1>4. Rows(d)'
  BY <1>1, <1>2, <1>3 DEF Rows, Closed, Stands, Asked
<1> QED
  BY <1>1, <1>2, <1>4, RowStep DEF Stands

\* A request that is open may be decided.
LEMMA DecideRequestInv ==
  ASSUME IInv, TypeOK', NEW d \in Disputes, DecideRequest(d)
  PROVE  IInv'
<1>1. /\ phase[d] = "open"
      /\ \/ UNCHANGED phase
         \/ \E o \in Outcomes : phase' = [phase EXCEPT ![d] = o]
      /\ UNCHANGED <<dispute, log, call, item, origin, linked, broken>>
  BY DEF DecideRequest, Request!Endorse, Request!Climb, Request!Resolve, rowVars
<1>2. PICK o \in {"open"} \cup Outcomes : phase' = [phase EXCEPT ![d] = o]
  <2>1. phase = [phase EXCEPT ![d] = "open"]
    BY <1>1 DEF IInv, TypeOK
  <2>2. CASE UNCHANGED phase
    BY <2>1, <2>2
  <2>3. CASE \E o \in Outcomes : phase' = [phase EXCEPT ![d] = o]
    BY <2>3
  <2> QED
    BY <1>1, <2>2, <2>3
<1>3. /\ phase'[d] = o /\ o \notin {"none", "deleted"}
      /\ \A x \in Disputes \ {d} : phase'[x] = phase[x]
  BY <1>2, DisputesAssumption DEF IInv, TypeOK
<1>4. Rows(d)
  BY DEF IInv, DispInv
<1>5. Rows(d)'
  BY <1>1, <1>3, <1>4 DEF Rows, Closed, Stands, Asked, Heard
<1> QED
  BY <1>1, <1>3, <1>5, RowStep DEF Asked

\* An item nobody has triaged gets another status; no call holds its row if it
\* was received.
LEMMA ItemStep ==
  ASSUME IInv, TypeOK', NEW i \in Items, NEW s \in {"received", "dismissed"},
         item[i].status = "none" \/ (item[i].status = "received" /\ ~Locked(i)),
         item' = [item EXCEPT ![i].status = s],
         UNCHANGED <<call, dispute, phase, log, origin, linked, broken>>
  PROVE  IInv'
<1>1. /\ item'[i].status = s /\ item'[i].to = None
      /\ \A j : j # i => item'[j] = item[j]
  BY DEF IInv, TypeOK, ItemInv
<1>2. ASSUME NEW c \in Callers
      PROVE  CallInv(c)'
  <2>1. Busy(call[c]) /\ call[c].item # None => call[c].item # i
    BY DEF IInv, CallInv, Locked, Busy
  <2> QED
    BY <1>1, <2>1, CallFrame DEF IInv
<1>3. ASSUME NEW x \in Disputes
      PROVE  DispInv(x)'
  <2>1. \A j : item[j].status = "triaged" => item'[j] = item[j]
    BY <1>1
  <2> QED
    BY <2>1, DispFrame DEF IInv, Working
<1>4. ASSUME NEW j \in Items
      PROVE  ItemInv(j)'
  <2>1. CASE j = i
    BY <1>1, <2>1 DEF ItemInv
  <2>2. CASE j # i
    <3>1. ItemInv(j)
      BY DEF IInv
    <3> QED
      BY <1>1, <2>2, <3>1, ItemFrame DEF Stands, ItemInv
  <2> QED
    BY <2>1, <2>2
<1>5. Exclusive' /\ OneHolder'
  BY DEF IInv, Exclusive, OneHolder, Busy
<1> QED
  BY <1>2, <1>3, <1>4, <1>5 DEF IInv

\* A step that changes the topic only, or none at all.
LEMMA QuietInv ==
  ASSUME IInv, TypeOK', UNCHANGED <<call, item, dispute, phase, log, origin, linked, broken>>
  PROVE  IInv'
<1>1. ASSUME NEW c \in Callers
      PROVE  CallInv(c)'
  BY CallFrame DEF IInv
<1>2. ASSUME NEW x \in Disputes
      PROVE  DispInv(x)'
  BY DispFrame DEF IInv, Working
<1>3. ASSUME NEW i \in Items
      PROVE  ItemInv(i)'
  BY DEF IInv, ItemInv, Stands
<1>4. Exclusive' /\ OneHolder'
  BY DEF IInv, Exclusive, OneHolder, Busy
<1> QED
  BY <1>1, <1>2, <1>3, <1>4 DEF IInv

-----------------------------------------------------------------------------
(* Every step keeps the invariant. *)

LEMMA OthersType ==
  ASSUME TypeOK, [Next]_vars, ~ \E c \in Callers : Advance(c) \/ Crash(c)
  PROVE  TypeOK'
<1>1. ASSUME NEW c \in Callers, NEW d \in Disputes, OpenDispute(c, d)
      PROVE  TypeOK'
  <2>1. [pc |-> "insert", item |-> None, dispute |-> d] \in CallRow
    BY DEF CallRow, CallPC
  <2>2. call' \in [Callers -> CallRow]
    BY <1>1, <2>1, CallType DEF OpenDispute
  <2> QED
    BY <1>1, <2>2 DEF OpenDispute, rowVars, requestVars, TypeOK, CallRow
<1>2. ASSUME NEW c \in Callers, NEW i \in Items, NEW d \in Disputes, TriageIntake(c, i, d)
      PROVE  TypeOK'
  <2>1. [pc |-> "wait", item |-> i, dispute |-> d] \in CallRow
    BY DEF CallRow, CallPC
  <2>2. call' \in [Callers -> CallRow]
    BY <1>2, <2>1, CallType DEF TriageIntake
  <2> QED
    BY <1>2, <2>2 DEF TriageIntake, rowVars, requestVars, TypeOK, CallRow
<1>3. ASSUME NEW d \in Disputes, ResolveDispute(d) \/ DrainDispute(d)
      PROVE  TypeOK'
  BY <1>3 DEF ResolveDispute, DrainDispute, requestVars, TypeOK
<1>4. ASSUME NEW d \in Disputes, DecideRequest(d)
      PROVE  TypeOK'
  <2>1. UNCHANGED phase \/ \E o \in Outcomes : phase' = [phase EXCEPT ![d] = o]
    BY <1>4 DEF DecideRequest, Request!Endorse, Request!Climb, Request!Resolve
  <2>2. phase' \in [Disputes -> {"none", "open", "deleted"} \cup Request!Terminal]
    BY <2>1, DisputesAssumption DEF TypeOK, Request!Terminal
  <2>3. UNCHANGED <<topic, rowVars, call, broken, faults>>
    BY <1>4 DEF DecideRequest
  <2> QED
    BY <2>2, <2>3 DEF rowVars, TypeOK
<1>5. ASSUME NEW i \in Items, SubmitIntake(i) \/ DismissIntake(i)
      PROVE  TypeOK'
  <2>1. PICK s \in {"received", "dismissed"} : item' = [item EXCEPT ![i].status = s]
    BY <1>5 DEF SubmitIntake, DismissIntake
  <2> QED
    BY <1>5, <2>1, ItemType DEF SubmitIntake, DismissIntake, requestVars, TypeOK
<1>6. CASE Freeze \/ Seal \/ UNCHANGED vars
  BY <1>6 DEF Freeze, Seal, vars, rowVars, requestVars, TypeOK
<1> QED
  BY <1>1, <1>2, <1>3, <1>4, <1>5, <1>6 DEF Next, DrainItem

LEMMA TypeInv ==
  ASSUME IInv, [Next]_vars
  PROVE  TypeOK'
<1>1. TypeOK /\ HasDispute
  BY DEF IInv, CallInv, HasDispute
<1> QED
  BY <1>1, AdvanceType, OthersType

LEMMA AdvanceInv ==
  ASSUME IInv, TypeOK', NEW c \in Callers, Advance(c)
  PROVE  IInv'
  BY InsertDisputeInv, SubmitRefusedInv, SubmitThrowsInv, SubmitRequestInv, UndoInv,
     LinkRequestInv, LinkFailsInv, LogOpenedInv, ReturnInv, TakeItemInv, RefuseItemInv,
     RouteToDisputeInv, RouteToLinkInv, CommitTriageInv, AbandonTriageInv DEF Advance

LEMMA NextInv ==
  ASSUME IInv, [Next]_vars
  PROVE  IInv'
<1>1. TypeOK'
  BY TypeInv
<1>2. ASSUME NEW c \in Callers, Advance(c) \/ Crash(c)
      PROVE  IInv'
  BY <1>1, <1>2, AdvanceInv, CrashInv
<1>3. ASSUME NEW c \in Callers, NEW d \in Disputes, OpenDispute(c, d)
      PROVE  IInv'
  BY <1>1, <1>3, OpenDisputeInv
<1>4. ASSUME NEW c \in Callers, NEW i \in Items, NEW d \in Disputes, TriageIntake(c, i, d)
      PROVE  IInv'
  BY <1>1, <1>4, TriageIntakeInv
<1>5. ASSUME NEW d \in Disputes, ResolveDispute(d) \/ DrainDispute(d) \/ DecideRequest(d)
      PROVE  IInv'
  BY <1>1, <1>5, ResolveDisputeInv, DrainDisputeInv, DecideRequestInv
<1>6. ASSUME NEW i \in Items, SubmitIntake(i)
      PROVE  IInv'
  <2>1. /\ item[i].status = "none" /\ item' = [item EXCEPT ![i].status = "received"]
        /\ UNCHANGED <<call, dispute, phase, log, origin, linked, broken>>
    BY <1>6 DEF SubmitIntake, requestVars
  <2> QED
    BY <1>1, <2>1, ItemStep
<1>7. ASSUME NEW i \in Items, DismissIntake(i)
      PROVE  IInv'
  <2>1. /\ item[i].status = "received" /\ ~Locked(i)
        /\ item' = [item EXCEPT ![i].status = "dismissed"]
        /\ UNCHANGED <<call, dispute, phase, log, origin, linked, broken>>
    BY <1>7 DEF DismissIntake, requestVars
  <2> QED
    BY <1>1, <2>1, ItemStep
<1>8. CASE Freeze \/ Seal \/ UNCHANGED vars
  BY <1>1, <1>8, QuietInv DEF Freeze, Seal, vars, rowVars, requestVars
<1> QED
  BY <1>2, <1>3, <1>4, <1>5, <1>6, <1>7, <1>8 DEF Next, DrainItem

LEMMA InitInv ==
  ASSUME Init
  PROVE  IInv
<1>1. /\ topic = "active" /\ dispute = [d \in Disputes |-> "none"]
      /\ linked = {} /\ broken = {} /\ log = [d \in Disputes |-> {}]
      /\ item = [i \in Items |-> [status |-> "none", to |-> None]]
      /\ origin = [d \in Disputes |-> None] /\ call = [c \in Callers |-> Idle]
      /\ faults = 0 /\ phase = [d \in Disputes |-> "none"]
  BY DEF Init, Request!Init
<1>2. TypeOK
  <2>1. Idle \in CallRow
    BY DEF Idle, CallRow, CallPC
  <2> QED
    BY <1>1, <2>1, DisputesAssumption DEF TypeOK, CallRow
<1>3. \A c \in Callers : CallInv(c)
  BY <1>1 DEF CallInv, Idle, Busy, Started
<1>4. \A d \in Disputes : DispInv(d)
  BY <1>1 DEF DispInv, Rows, Closed, Whole, Triaged, Stands, Asked
<1>5. \A i \in Items : ItemInv(i)
  BY <1>1 DEF ItemInv
<1>6. Exclusive /\ OneHolder
  BY <1>1 DEF Exclusive, OneHolder, Busy, Idle
<1> QED
  BY <1>2, <1>3, <1>4, <1>5, <1>6 DEF IInv

\* The invariant holds of every behaviour.
LEMMA AlwaysInv == Spec => []IInv
<1>1. Init => IInv
  BY InitInv
<1>2. IInv /\ [Next]_vars => IInv'
  BY NextInv
<1> QED
  BY <1>1, <1>2, PTL DEF Spec

-----------------------------------------------------------------------------
(* The theorems. *)

\* Disputes, intake items and calls keep within their values.
THEOREM RowsHaveTheirTypes == Spec => []TypeOK
<1>1. IInv => TypeOK
  BY DEF IInv
<1> QED
  BY <1>1, AlwaysInv, PTL

\* A dispute is closed once, by resolveDispute or by the drain, and by the former
\* only after its request was decided.
THEOREM ResolvedOnceAlways == Spec => []ResolvedOnce
<1>1. IInv => ResolvedOnce
  BY DEF IInv, DispInv, Rows, Closed, ResolvedOnce
<1> QED
  BY <1>1, AlwaysInv, PTL

\* openDispute leaves a dispute and a request that know each other, or neither,
\* unless a fault cut it short.
THEOREM NothingIsHalfOpened == Spec => []NothingHalfOpened
<1>1. IInv => NothingHalfOpened
  BY DEF IInv, DispInv, Whole, Stands, Asked, NothingHalfOpened
<1> QED
  BY <1>1, AlwaysInv, PTL

\* A dispute opened for an item is the one the item was triaged to, and no item
\* has two, however many triages of it run.
THEOREM TriagesMatchDisputes == Spec => []TriageMatchesDispute
<1>1. IInv => TriageMatchesDispute
  BY DEF IInv, DispInv, Triaged, ItemInv, Stands, TriageMatchesDispute
<1> QED
  BY <1>1, AlwaysInv, PTL

-----------------------------------------------------------------------------
(* The pool.  A statement outside a transaction waits for a connection, a   *)
(* triage at its SELECT ... FOR UPDATE for the intake row; neither has a    *)
(* timeout.                                                                 *)

Waits(c) ==
    \/ call[c].pc \in {"route", "insert", "submit", "undo", "link", "event"} /\ ~Slot
    \/ call[c].pc = "wait" /\ Locked(call[c].item)

\* Calls are under way, and every one of them waits for another.
Standstill ==
    /\ \E c \in Callers : call[c].pc # "idle"
    /\ \A c \in Callers : call[c].pc # "idle" => Waits(c)

\* A row lock alone never brings the calls to a standstill, for its holder can
\* go on; they stand still only when triages hold the whole pool, one of them
\* within openDispute, unless there is no pool.
PoolDiscipline ==
    /\ Cardinality(Held) <= PoolSize
    /\ Standstill =>
          /\ Cardinality(Held) = PoolSize
          /\ PoolSize > 0 => \E c \in Held : call[c].pc # "wait"

LEMMA HeldIsFinite ==
  /\ IsFiniteSet(Held) /\ Cardinality(Held) \in Nat
  /\ Cardinality(Held) <= Cardinality(Callers)
<1>1. Held \subseteq Callers
  BY DEF Held
<1> QED
  BY <1>1, DisputesAssumption, FS_Subset, FS_CardinalityType

\* A connection is kept for long only by a triage that begins, which found one.
LEMMA HeldStep ==
  ASSUME TypeOK, [Next]_vars, NEW c \in Held' \ Held
  PROVE  Slot /\ Held' = Held \cup {c}
<1>1. ASSUME NEW e \in Callers, Advance(e) \/ Crash(e)
      PROVE  FALSE
  <2>1. \A b \in Callers : call'[b].item \in {call[b].item, None}
    <3>1. \/ \E pc \in CallPC : call' = [call EXCEPT ![e].pc = pc]
          \/ call' = [call EXCEPT ![e] = Idle]
      BY <1>1 DEF Advance, Crash, InsertDispute, SubmitRefused, SubmitThrows,
         SubmitRequest, Undo, LinkRequest, LinkFails, LogOpened, Return, TakeItem, RefuseItem,
         RouteToDispute, RouteToLink, CommitTriage, AbandonTriage, Goes, CallPC
    <3> QED
      BY <3>1 DEF Idle, TypeOK
  <2> QED
    BY <2>1 DEF Held
<1>2. ASSUME NEW e \in Callers, NEW d \in Disputes, OpenDispute(e, d)
      PROVE  FALSE
  BY <1>2 DEF OpenDispute, Held, TypeOK
<1>3. ASSUME NEW e \in Callers, NEW i \in Items, NEW d \in Disputes, TriageIntake(e, i, d)
      PROVE  Slot /\ Held' = Held \cup {c}
  <2>1. Slot /\ call' = [call EXCEPT ![e] = [pc |-> "wait", item |-> i, dispute |-> d]]
    BY <1>3 DEF TriageIntake
  <2>2. \A b \in Callers : b # e => call'[b] = call[b]
    BY <2>1 DEF TypeOK
  <2>3. call'[e].item # None
    BY <2>1, DisputesAssumption DEF TypeOK
  <2> QED
    BY <2>1, <2>2, <2>3 DEF Held
<1>4. CASE UNCHANGED call
  BY <1>4 DEF Held
<1> QED
  BY <1>1, <1>2, <1>3, <1>4 DEF Next, vars, ResolveDispute, DrainDispute, DecideRequest,
     SubmitIntake, DismissIntake, DrainItem, Freeze, Seal

\* The pool is never exceeded.
LEMMA PoolStep ==
  ASSUME TypeOK, Cardinality(Held) <= PoolSize, [Next]_vars
  PROVE  Cardinality(Held') <= PoolSize
<1>1. CASE Held' \subseteq Held
  BY <1>1, HeldIsFinite, FS_Subset, FS_CardinalityType, DisputesAssumption
<1>2. ASSUME NEW c \in Held' \ Held
      PROVE  Cardinality(Held') <= PoolSize
  <2>1. Slot /\ Held' = Held \cup {c}
    BY <1>2, HeldStep
  <2>2. Cardinality(Held') = Cardinality(Held) + 1
    BY <1>2, <2>1, HeldIsFinite, FS_AddElement
  <2> QED
    BY <2>1, <2>2, HeldIsFinite, DisputesAssumption DEF Slot
<1> QED
  BY <1>1, <1>2

LEMMA StandstillFacts ==
  ASSUME TypeOK, \A c \in Callers : CallInv(c), Cardinality(Held) <= PoolSize, Standstill
  PROVE  /\ Cardinality(Held) = PoolSize
         /\ PoolSize > 0 => \E c \in Held : call[c].pc # "wait"
<1>1. ASSUME NEW c \in Callers, call[c].pc = "wait"
      PROVE  \E e \in Held : call[e].pc \notin {"idle", "wait"}
  <2>1. Locked(call[c].item) /\ call[c].item # None
    BY <1>1 DEF Standstill, Waits, CallInv
  <2>2. PICK e \in Callers : call[e].item = call[c].item /\ call[e].pc # "wait"
    BY <2>1 DEF Locked
  <2>3. call[e].pc # "idle"
    BY <2>1, <2>2 DEF CallInv, Idle
  <2> QED
    BY <2>1, <2>2, <2>3 DEF Held
<1>2. PICK c \in Callers : call[c].pc # "idle" /\ call[c].pc # "wait"
  BY <1>1 DEF Standstill, Held
<1>3. ~Slot
  BY <1>2 DEF Standstill, Waits
<1>4. Cardinality(Held) = PoolSize
  BY <1>3, HeldIsFinite, DisputesAssumption DEF Slot
<1>5. ASSUME PoolSize > 0
      PROVE  \E e \in Held : call[e].pc # "wait"
  <2>1. Held # {}
    BY <1>4, <1>5, FS_EmptySet
  <2>2. PICK e \in Held : TRUE
    BY <2>1
  <2> QED
    BY <1>1, <2>2 DEF Held
<1> QED
  BY <1>4, <1>5

\* However many calls are under way, however small the pool: triages hold no
\* more than it has, and the calls wait for each other in a circle only when
\* they hold all of it and openDispute needs one more.
THEOREM OnlyThePoolRunsDry == Spec => []PoolDiscipline
<1> DEFINE Bounded == Cardinality(Held) <= PoolSize
<1>1. Init => Bounded
  <2>1. ASSUME Init
        PROVE  Held = {}
    BY <2>1 DEF Init, Held, Idle
  <2> QED
    BY <2>1, FS_EmptySet, DisputesAssumption
<1>2. TypeOK /\ Bounded /\ [Next]_vars => Bounded'
  BY PoolStep
<1>3. IInv => TypeOK
  BY DEF IInv
<1>4. IInv /\ Bounded => PoolDiscipline
  BY StandstillFacts DEF IInv, PoolDiscipline
<1> HIDE DEF Bounded
<1> QED
  BY <1>1, <1>2, <1>3, <1>4, AlwaysInv, PTL DEF Spec

\* With more connections than calls there is no standstill: some call under
\* way can always go on.
THEOREM NoStandstill ==
  ASSUME Cardinality(Callers) < PoolSize
  PROVE  Spec => []~Standstill
<1>1. PoolDiscipline => ~Standstill
  BY HeldIsFinite, DisputesAssumption, FS_CardinalityType DEF PoolDiscipline
<1> QED
  BY <1>1, OnlyThePoolRunsDry, PTL
=============================================================================
