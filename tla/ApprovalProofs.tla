--------------------------- MODULE ApprovalProofs ---------------------------
(***************************************************************************)
(* Proofs about approval requests, for any requests, actors, bodies and    *)
(* matrix rows, and any bounds.                                            *)
(***************************************************************************)
EXTENDS Approvals, TLAPS

(* Routes. *)

\* deriveRoute goes before one office or two; the two are coordination and
\* authority, in that order, and it is a counter-signature.
LEMMA RouteFacts ==
  ASSUME NEW r \in Requests
  PROVE  /\ Route(r) \in Seq(Offices)
         /\ Len(Route(r)) \in 1..2
         /\ Steps(r) = 1..Len(Route(r))
         /\ \A i \in Steps(r) : Route(r)[i] \in Offices
         /\ Len(Route(r)) = 2 => /\ Shape[r] = "counter_sign"
                                 /\ Route(r)[1] = 1 /\ Route(r)[2] = 2
<1> DEFINE low == Level[Submitter[r]]
           high == RequiredLevel[r]
<1>1. low \in Offices /\ high \in Offices
  BY RequestsAssumption
<1>2. CASE Shape[r] = "counter_sign" /\ low < high
  <2>1. Route(r) = [i \in 1..(high - low) |-> low + i]
    BY <1>2 DEF Route
  <2>2. high - low \in 1..2 /\ high - low \in Nat
    BY <1>1, <1>2 DEF Offices
  <2>3. \A i \in 1..(high - low) : low + i \in Offices
    BY <1>1 DEF Offices
  <2>4. Route(r) \in Seq(Offices) /\ Len(Route(r)) = high - low
    BY <2>1, <2>2, <2>3
  <2> QED
    BY <1>1, <1>2, <2>1, <2>2, <2>3, <2>4 DEF Steps, Offices
<1>3. CASE ~(Shape[r] = "counter_sign" /\ low < high)
  <2>1. Route(r) = <<high>>
    BY <1>3 DEF Route
  <2> QED
    BY <1>1, <2>1 DEF Steps
<1> QED
  BY <1>2, <1>3

-----------------------------------------------------------------------------
(* The inductive invariant. *)

\* A request not yet submitted is as Init made it; one that is was routable.
AdmittedOne(r) ==
    IF status[r] = "none"
    THEN cur[r] = 1 /\ step[r] = StepRows(r)
    ELSE Routable(r)

\* A row never goes back down its route, and goes up only while it is current;
\* it is decided by nobody before it is current; and its procedure, body and
\* motion belong together.
RowFits(r, i) ==
    LET s == step[r][i]
    IN  /\ s.office >= Route(r)[i]
        /\ i > cur[r] => s.office = Route(r)[i] /\ s.motion = Nobody
        /\ i > cur[r] \/ s.status \in {"pending", "motion_proposed"} => s.by = Nobody
        /\ s.procedure = "collective" =>
              r \in Collective /\ s.body = BodyByLevel[r][s.office]
        /\ s.procedure = "collective" /\ status[r] # "none" => s.body # Nobody
        /\ s.procedure = "unilateral" => s.body = Nobody /\ s.motion = Nobody
        /\ r \in Collective /\ i < Len(Route(r)) => s.procedure = "collective"
        /\ s.motion # Nobody =>
              /\ motion[s.motion].ref = <<r, i>>
              /\ motion[s.motion].status # "none"
RowsFit(r) == \A i \in Steps(r) : RowFits(r, i)

\* All that the invariant says of a request by itself.
RequestInv(r) ==
    /\ AdmittedOne(r)
    /\ MatchesSteps(r)
    /\ DifferentEyes(r)
    /\ RowsFit(r)
    /\ status[r] = "open" => HasItsMotion(r)

\* A live motion about a step is the one that step waits for.
MotionsWaitedFor ==
    \A m \in Motion, r \in Requests, i \in 1..3 :
        motion[m].status \in LiveMotion /\ motion[m].ref = <<r, i>> => WaitedFor(m, r, i)

\* What every transaction keeps of the requests and their rows.
RequestsKept ==
    /\ status' \in [Requests -> {"none", "open"} \cup Terminal]
    /\ cur' \in [Requests -> Nat] /\ \A q \in Requests : cur'[q] \in Steps(q)
    /\ DOMAIN step' = Requests /\ \A q \in Requests : step'[q] \in [Steps(q) -> StepRow]
    /\ stalled' \subseteq Requests
    /\ \A q \in Requests : RequestInv(q)'
    /\ MotionsWaitedFor'

RequestsInv ==
    /\ TypeOK
    /\ \A r \in Requests : RequestInv(r)
    /\ MotionsWaitedFor
    /\ OneTaskPerApproval

\* The rows a drain holds are still pending, and are all that come after the
\* current one; a pending current one it holds as well, unless that became
\* pending behind its back.
DrainFits(r) ==
    /\ \A i \in Steps(r) : <<r, i>> \in held =>
          r \in draining /\ step[r][i].status = "pending"
    /\ r \in draining => status[r] # "none"
    /\ r \in draining /\ status[r] = "open" =>
          /\ \A i \in Steps(r) : i > cur[r] => <<r, i>> \in held
          /\ \/ <<r, cur[r]>> \in held
             \/ Current(r).status # "pending"
             \/ LapsedToOfficers(r)
DrainsFit ==
    /\ topic = "active" => draining = {}
    /\ \A r \in Requests : DrainFits(r)

IInv == RequestsInv /\ DrainsFit

-----------------------------------------------------------------------------
(* What an UPDATE of one row does. *)

\* The rows are of their type.
LEMMA RowType ==
  ASSUME TypeOK, NEW r \in Requests, NEW i \in Steps(r)
  PROVE  step[r][i] \in StepRow
  BY DEF TypeOK

\* The current step of a request is one of its route.
LEMMA CurrentType ==
  ASSUME TypeOK, NEW r \in Requests
  PROVE  /\ cur[r] \in Steps(r) /\ cur[r] \in 1..Len(Route(r)) /\ cur[r] \in 1..2
         /\ Current(r) = step[r][cur[r]]
         /\ Current(r) \in StepRow
<1>1. cur[r] \in Steps(r)
  BY DEF TypeOK
<1> QED
  BY <1>1, RowType, RouteFacts DEF Current

\* What deciding a step changes of its row, and that it changes nothing else.
LEMMA DecideRow ==
  ASSUME TypeOK, NEW r \in Requests, NEW i \in Steps(r), NEW s \in StepStatus,
         NEW by \in Actors \cup Motion \cup {System, Nobody},
         step' = [step EXCEPT ![r][i] = Decided(@, s, by)]
  PROVE  /\ DOMAIN step' = Requests
         /\ \A q \in Requests : step'[q] \in [Steps(q) -> StepRow]
         /\ \A q \in Requests : q # r => step'[q] = step[q]
         /\ \A j \in Steps(r) : j # i => step'[r][j] = step[r][j]
         /\ step'[r][i].status = s /\ step'[r][i].by = by
         /\ step'[r][i].office = step[r][i].office
         /\ step'[r][i].procedure = step[r][i].procedure
         /\ step'[r][i].body = step[r][i].body
         /\ step'[r][i].motion = step[r][i].motion
<1> DEFINE row == Decided(step[r][i], s, by)
<1>1. /\ row \in StepRow /\ row.status = s /\ row.by = by
      /\ row.office = step[r][i].office /\ row.procedure = step[r][i].procedure
      /\ row.body = step[r][i].body /\ row.motion = step[r][i].motion
  BY RowType DEF Decided, StepRow
<1>2. step' = [step EXCEPT ![r][i] = row]
  OBVIOUS
<1> HIDE DEF row
<1> QED
  BY <1>1, <1>2 DEF TypeOK

\* A transaction that leaves a request, its rows and the motions of its rows
\* alone keeps what the invariant says of it.
LEMMA RequestFrame ==
  ASSUME TypeOK, NEW q \in Requests, RequestInv(q),
         status'[q] = status[q], cur'[q] = cur[q], step'[q] = step[q],
         topic' = "active" => topic = "active",
         \A m \in Motion :
            motion[m].status # "none" =>
               /\ motion'[m].status # "none"
               /\ motion'[m].ref = motion[m].ref /\ motion'[m].body = motion[m].body
               /\ \/ motion[m].status \in LiveMotion => motion'[m].status \in LiveMotion
                  \/ topic' # "active"
                  \/ motion[m].ref # <<q, cur[q]>>
                  \/ status[q] # "open"
  PROVE  RequestInv(q)'
<1> USE DEF RequestInv
<1>1. AdmittedOne(q)'
  BY DEF AdmittedOne, Routable, StepRows
<1>2. Current(q)' = Current(q)
  BY DEF Current
<1>3. MatchesSteps(q)'
  BY <1>2 DEF MatchesSteps, LastStep, LapsedToOfficers
<1>4. DifferentEyes(q)'
  BY DEF DifferentEyes
<1>5. RowsFit(q)'
  <2> SUFFICES ASSUME NEW i \in Steps(q) PROVE RowFits(q, i)'
    BY DEF RowsFit
  <2>1. step[q][i].motion \in Motion \cup {Nobody} /\ RowFits(q, i)
    BY RowType DEF StepRow, RowsFit
  <2> QED
    BY <2>1 DEF RowFits
<1>6. (status[q] = "open" => HasItsMotion(q))'
  <2> SUFFICES ASSUME status[q] = "open" PROVE HasItsMotion(q)'
    OBVIOUS
  <2>1. HasItsMotion(q)
    OBVIOUS
  <2>2. CASE Current(q).procedure = "collective"
    <3>1. motion[Current(q).motion].status # "none"
      BY <2>1, <2>2, CurrentType, RequestsAssumption, SMTT(40) DEF HasItsMotion, RowsFit, RowFits
    <3> QED
      BY <1>2, <2>1, <2>2, <3>1 DEF HasItsMotion
  <2>3. CASE Current(q).procedure # "collective"
    BY <1>2, <2>1, <2>3 DEF HasItsMotion
  <2> QED
    BY <2>2, <2>3
<1> QED
  BY <1>1, <1>3, <1>4, <1>5, <1>6

-----------------------------------------------------------------------------
(* The steps of an officer. *)

\* decideStep 'endorse', with a step to follow: that one is an officer's too.
LEMMA EndorseStepInv ==
  ASSUME RequestsInv, NEW r \in Requests, NEW a \in Actors, EndorseStep(r, a)
  PROVE  RequestsInv'
<1> USE DEF RequestsInv, EndorseStep, MayDecide, motionVars, drainVars
<1> DEFINE i == cur[r]
<1>1. i \in Steps(r) /\ i + 1 \in Steps(r) /\ Current(r) = step[r][i]
  BY CurrentType, RouteFacts DEF LastStep
<1>2. /\ cur' \in [Requests -> Nat] /\ cur'[r] = i + 1
      /\ \A q \in Requests : q # r => cur'[q] = cur[q]
  BY DEF TypeOK
<1>3. "endorsed" \in StepStatus
  BY DEF StepStatus
<1>4. /\ DOMAIN step' = Requests
      /\ \A q \in Requests : step'[q] \in [Steps(q) -> StepRow]
      /\ \A q \in Requests : q # r => step'[q] = step[q]
      /\ \A j \in Steps(r) : j # i => step'[r][j] = step[r][j]
      /\ step'[r][i].status = "endorsed" /\ step'[r][i].by = a
      /\ step'[r][i].office = step[r][i].office
      /\ step'[r][i].procedure = step[r][i].procedure
      /\ step'[r][i].body = step[r][i].body
      /\ step'[r][i].motion = step[r][i].motion
  BY <1>1, <1>3, DecideRow
<1>5. r \notin Collective /\ \A j \in Steps(r) : RowFits(r, j)
  <2>1. /\ \A j \in Steps(r) : RowFits(r, j)
        /\ step[r][i].procedure = "unilateral" /\ i < Len(Route(r))
    BY <1>1, RouteFacts DEF RequestInv, RowsFit, LastStep
  <2> QED
    BY <1>1, <2>1 DEF RowFits
<1>9. UNCHANGED <<topic, motion, late, status, art, chain, draining, held>>
      /\ stalled' \subseteq stalled
  OBVIOUS
<1>10. TypeOK'
  <2> HIDE DEF EndorseStep, MayDecide, drainVars, motionVars
  <2> QED
    BY <1>1, <1>2, <1>4, <1>9 DEF TypeOK, MotionsTypeOK
<1>11. ASSUME NEW q \in Requests, q # r PROVE RequestInv(q)'
  BY <1>2, <1>4, <1>11, RequestFrame
<1>12. RequestInv(r)'
  <2> USE DEF RequestInv
  <2>1. AdmittedOne(r)'
    BY DEF AdmittedOne, Routable
  <2>2. MatchesSteps(r)'
    BY <1>1, <1>2, <1>4, RouteFacts DEF MatchesSteps, Current, LastStep
  <2>3. DifferentEyes(r)'
    <3>1. \A j \in Steps(r) : j # i /\ Shape[r] = "counter_sign" => step[r][j].by # a
      <4> SUFFICES ASSUME NEW j \in Steps(r), j # i, Shape[r] = "counter_sign"
          PROVE  step[r][j].by # a
        OBVIOUS
      <4>1. i \in Nat /\ j \in Nat /\ j >= 1
        BY <1>1, RouteFacts
      <4>2. CASE j < i
        BY <4>1, <4>2
      <4>3. CASE j > i
        BY <4>3, <1>5, RequestsAssumption DEF RowFits
      <4> QED
        BY <4>1, <4>2, <4>3
    <3>2. DifferentEyes(r)
      OBVIOUS
    <3> QED
      BY <1>1, <1>4, <3>1, <3>2 DEF DifferentEyes
  <2>4. RowsFit(r)'
    <3> SUFFICES ASSUME NEW j \in Steps(r) PROVE RowFits(r, j)'
      BY DEF RowsFit
    <3>1. RowFits(r, j) /\ i \in Nat /\ j \in Nat /\ i = cur[r] /\ cur'[r] = i + 1
      BY <1>1, <1>2, <1>5, RouteFacts
    <3>2. /\ status'[r] = status[r] /\ motion' = motion /\ status[r] = "open"
          /\ step'[r][i].status = "endorsed"
      BY <1>1, <1>4
    <3>3. step'[r][j].office = step[r][j].office /\ step'[r][j].procedure = step[r][j].procedure
          /\ step'[r][j].body = step[r][j].body /\ step'[r][j].motion = step[r][j].motion
      BY <1>4
    <3>4. j > i + 1 => j > i
      BY <3>1
    <3>5. \/ step'[r][j].by = step[r][j].by /\ step'[r][j].status = step[r][j].status
          \/ j = i /\ step'[r][j].status = "endorsed"
      BY <1>4
    <3>6. ~(i > i + 1)
      BY <3>1
    <3> HIDE DEF i
    <3> QED
      BY <1>5, <3>1, <3>2, <3>3, <3>4, <3>5, <3>6 DEF RowFits
  <2>5. HasItsMotion(r)'
    <3>1. /\ i + 1 \in Steps(r) /\ i + 1 # i /\ i + 1 > cur[r] /\ i + 1 \in (cur[r] + 1)..Len(Route(r))
          /\ cur'[r] = i + 1
      BY <1>1, <1>2, RouteFacts
    <3>2. step'[r][i + 1] = step[r][i + 1] /\ step[r][i + 1] \in StepRow
      BY <1>1, <1>4, <3>1 DEF TypeOK
    <3>3. step[r][i + 1].motion = Nobody /\ step[r][i + 1].procedure # "collective"
      BY <1>5, <3>1 DEF RowFits
    <3>4. MatchesSteps(r) /\ status[r] = "open"
      BY <1>1
    <3>5. step[r][i + 1].status = "pending"
      BY <3>1, <3>4 DEF MatchesSteps
    <3> QED
      BY <3>1, <3>2, <3>3, <3>5 DEF HasItsMotion, Current, StepRow
  <2> QED
    BY <2>1, <2>2, <2>3, <2>4, <2>5
<1>13. MotionsWaitedFor'
  <2> SUFFICES ASSUME NEW m \in Motion, NEW q \in Requests, NEW k \in 1..3,
                      motion[m].status \in LiveMotion, motion[m].ref = <<q, k>>
      PROVE  WaitedFor(m, q, k)'
    BY DEF MotionsWaitedFor
  <2>1. WaitedFor(m, q, k)
    BY DEF MotionsWaitedFor
  <2>2. q # r
    BY <2>1, <1>1, <1>5, RequestsAssumption DEF WaitedFor, RowFits
  <2> QED
    BY <2>1, <2>2, <1>2, <1>4 DEF WaitedFor
<1>14. OneTaskPerApproval'
  BY DEF OneTaskPerApproval
<1> QED
  BY <1>10, <1>11, <1>12, <1>13, <1>14

\* What a transaction that settles a request, with its current step, has to
\* see to: the outcome of the request and the status of the step agree, an
\* officer is not the submitter nor the officer of an earlier step, and no
\* motion about the request is live afterwards.
LEMMA ConcludeInv ==
  ASSUME RequestsInv, NEW r \in Requests, status[r] = "open",
         NEW outcome \in Terminal, NEW s \in StepStatus,
         NEW by \in Actors \cup Motion \cup {System},
         Conclude(r, cur[r], outcome, s, by),
         outcome = "approved" => s = "endorsed" /\ LastStep(r),
         outcome = "returned" => s = "returned",
         outcome = "rejected" => s = "rejected",
         outcome = "escalation_exhausted" => s = "escalated",
         by \in Actors =>
            /\ by # Submitter[r]
            /\ Shape[r] = "counter_sign" => \A j \in 1..(cur[r] - 1) : step[r][j].by # by,
         topic' = topic,
         \A m \in Motion :
            motion[m].status # "none" =>
               /\ motion'[m].status # "none"
               /\ motion'[m].ref = motion[m].ref /\ motion'[m].body = motion[m].body
               /\ \/ motion'[m].status = motion[m].status
                  \/ motion[m].ref = <<r, cur[r]>>,
         \A m \in Motion, q \in Requests, k \in 1..3 :
            motion'[m].status \in LiveMotion /\ motion'[m].ref = <<q, k>> =>
               q # r /\ motion[m].status \in LiveMotion /\ motion[m].ref = <<q, k>>
  PROVE  RequestsKept
<1> USE DEF RequestsInv
<1> DEFINE i == cur[r]
<1>1. i \in Steps(r) /\ i \in Nat /\ Current(r) = step[r][i]
  BY CurrentType, RouteFacts
<1>2. /\ cur' = cur /\ status' = [status EXCEPT ![r] = outcome] /\ stalled' = stalled
      /\ step' = [step EXCEPT ![r][i] = Decided(@, s, by)]
  BY DEF Conclude
<1>3. /\ DOMAIN step' = Requests
      /\ \A q \in Requests : step'[q] \in [Steps(q) -> StepRow]
      /\ \A q \in Requests : q # r => step'[q] = step[q]
      /\ \A j \in Steps(r) : j # i => step'[r][j] = step[r][j]
      /\ step'[r][i].status = s /\ step'[r][i].by = by
      /\ step'[r][i].office = step[r][i].office
      /\ step'[r][i].procedure = step[r][i].procedure
      /\ step'[r][i].body = step[r][i].body
      /\ step'[r][i].motion = step[r][i].motion
  <2>1. by \in Actors \cup Motion \cup {System, Nobody}
    OBVIOUS
  <2> QED
    BY <1>1, <1>2, <2>1, DecideRow, ZenonT(60)
<1>4. status'[r] = outcome /\ \A q \in Requests : q # r => status'[q] = status[q]
  BY <1>2 DEF TypeOK
<1>5. \A j \in Steps(r) : RowFits(r, j)
  BY DEF RequestInv, RowsFit
<1>6. outcome # "none" /\ outcome # "open"
  BY DEF Terminal
<1>10. /\ status' \in [Requests -> {"none", "open"} \cup Terminal]
       /\ cur' \in [Requests -> Nat] /\ \A q \in Requests : cur'[q] \in Steps(q)
       /\ stalled' \subseteq Requests
  BY <1>2 DEF TypeOK
<1>11. ASSUME NEW q \in Requests, q # r PROVE RequestInv(q)'
  <2>1. RequestInv(q) /\ \A k \in Motion : <<q, cur[q]>> # <<r, cur[r]>>
    BY <1>11
  <2> QED
    BY <1>2, <1>3, <1>4, <1>11, <2>1, RequestFrame
<1>12. RequestInv(r)'
  <2> USE DEF RequestInv
  <2>1. AdmittedOne(r)'
    BY <1>4, <1>6 DEF AdmittedOne, Routable
  <2>2. MatchesSteps(r)'
    BY <1>1, <1>2, <1>3, <1>4, RouteFacts DEF MatchesSteps, Current, LastStep, Terminal
  <2>3. DifferentEyes(r)'
    <3>1. ASSUME NEW j \in Steps(r), j # i, Shape[r] = "counter_sign", by \in Actors
          PROVE  step[r][j].by # by
      <4>1. j \in Nat /\ j >= 1
        BY RouteFacts
      <4>2. CASE j < i
        BY <1>1, <3>1, <4>1, <4>2
      <4>3. CASE j > i
        BY <3>1, <4>3, <1>5, RequestsAssumption DEF RowFits
      <4> QED
        BY <1>1, <3>1, <4>1, <4>2, <4>3
    <3>2. DifferentEyes(r)
      OBVIOUS
    <3> QED
      BY <1>1, <1>3, <3>1, <3>2 DEF DifferentEyes
  <2>4. RowsFit(r)'
    <3> SUFFICES ASSUME NEW j \in Steps(r) PROVE RowFits(r, j)'
      BY DEF RowsFit
    <3>1. step[r][j].motion \in Motion \cup {Nobody} /\ RowFits(r, j)
      BY <1>5, RowType DEF StepRow
    <3>2. s \notin {"pending", "motion_proposed"}
      BY DEF Terminal
    <3>3. CASE j = i
      <4>1. RowFits(r, i) /\ step[r][i].motion \in Motion \cup {Nobody}
        BY <3>1, <3>3
      <4> QED
        BY <1>1, <1>2, <1>3, <1>4, <3>2, <3>3, <4>1, SMTT(60) DEF RowFits
    <3>4. CASE j # i
      BY <1>2, <1>3, <1>4, <3>1, <3>4, SMTT(40) DEF RowFits
    <3> QED
      BY <3>3, <3>4
  <2> QED
    BY <1>4, <1>6, <2>1, <2>2, <2>3, <2>4
<1>13. MotionsWaitedFor'
  <2> SUFFICES ASSUME NEW m \in Motion, NEW q \in Requests, NEW k \in 1..3,
                      motion'[m].status \in LiveMotion, motion'[m].ref = <<q, k>>
      PROVE  WaitedFor(m, q, k)'
    BY DEF MotionsWaitedFor
  <2>1. q # r /\ WaitedFor(m, q, k)
    BY DEF MotionsWaitedFor
  <2> QED
    BY <2>1, <1>2, <1>3, <1>4 DEF WaitedFor
<1> QED
  BY <1>3, <1>10, <1>11, <1>12, <1>13 DEF RequestsKept

\* No motion about a request is live while an officer has its current step.
LEMMA OfficerHasStep ==
  ASSUME RequestsInv, NEW r \in Requests, Current(r).procedure = "unilateral",
         NEW m \in Motion, NEW q \in Requests, NEW k \in 1..3,
         motion[m].status \in LiveMotion, motion[m].ref = <<q, k>>
  PROVE  q # r
<1>1. WaitedFor(m, q, k)
  BY DEF RequestsInv, MotionsWaitedFor
<1>2. RowFits(r, cur[r]) /\ Current(r) = step[r][cur[r]]
  BY CurrentType DEF RequestsInv, RequestInv, RowsFit
<1> QED
  BY <1>1, <1>2, RequestsAssumption DEF WaitedFor, RowFits

\* The officer who passes the checks of decideStep is none of those that
\* endorsed the request before, nor its submitter.
LEMMA OfficerConcludes ==
  ASSUME RequestsInv, NEW r \in Requests, NEW a \in Actors, MayDecide(r, a),
         NEW outcome \in Terminal, NEW s \in StepStatus,
         Conclude(r, cur[r], outcome, s, a),
         outcome = "approved" => s = "endorsed" /\ LastStep(r),
         outcome = "returned" => s = "returned",
         outcome = "rejected" => s = "rejected",
         outcome # "escalation_exhausted",
         UNCHANGED <<topic, motionVars, drainVars>>
  PROVE  RequestsKept
<1>1. \A m \in Motion, q \in Requests, k \in 1..3 :
         motion[m].status \in LiveMotion /\ motion[m].ref = <<q, k>> => q # r
  BY OfficerHasStep DEF MayDecide
<1> QED
  BY <1>1, ConcludeInv DEF MayDecide, motionVars

\* decideStep 'endorse' of the last step: the task is posted or deferred.
LEMMA ApproveRequestInv ==
  ASSUME RequestsInv, NEW r \in Requests, NEW a \in Actors, ApproveRequest(r, a)
  PROVE  RequestsInv'
<1> USE DEF ApproveRequest, motionVars, drainVars
<1>1. "approved" \in Terminal /\ "endorsed" \in StepStatus
  BY DEF Terminal, StepStatus
<1>2. RequestsKept
  BY <1>1, OfficerConcludes
<1>3. TypeOK'
  BY <1>2 DEF RequestsKept, RequestsInv, TypeOK, MotionsTypeOK, ResolveArtifact, EmitChain
<1>4. OneTaskPerApproval'
  BY RequestsAssumption
     DEF RequestsInv, TypeOK, OneTaskPerApproval, EmitChain, Conclude, MayDecide
<1> QED
  BY <1>2, <1>3, <1>4 DEF RequestsKept, RequestsInv

\* decideStep 'return'.
LEMMA ReturnRequestInv ==
  ASSUME RequestsInv, NEW r \in Requests, NEW a \in Actors, ReturnRequest(r, a)
  PROVE  RequestsInv'
<1> USE DEF ReturnRequest, motionVars, drainVars
<1>1. "returned" \in Terminal /\ "returned" \in StepStatus
  BY DEF Terminal, StepStatus
<1>2. RequestsKept
  BY <1>1, OfficerConcludes
<1>3. TypeOK'
  BY <1>2 DEF RequestsKept, RequestsInv, TypeOK, MotionsTypeOK, ResolveArtifact
<1>4. OneTaskPerApproval'
  BY DEF RequestsInv, TypeOK, OneTaskPerApproval, Conclude, MayDecide
<1> QED
  BY <1>2, <1>3, <1>4 DEF RequestsKept, RequestsInv

\* decideStep 'reject'.
LEMMA RejectRequestInv ==
  ASSUME RequestsInv, NEW r \in Requests, NEW a \in Actors, RejectRequest(r, a)
  PROVE  RequestsInv'
<1> USE DEF RejectRequest, motionVars, drainVars
<1>1. "rejected" \in Terminal /\ "rejected" \in StepStatus
  BY DEF Terminal, StepStatus
<1>2. RequestsKept
  BY <1>1, OfficerConcludes
<1>3. TypeOK'
  BY <1>2 DEF RequestsKept, RequestsInv, TypeOK, MotionsTypeOK
<1>4. OneTaskPerApproval'
  BY DEF RequestsInv, TypeOK, OneTaskPerApproval, Conclude, MayDecide
<1> QED
  BY <1>2, <1>3, <1>4 DEF RequestsKept, RequestsInv

\* sweepStalledSteps at authority: nobody is left to decide.
LEMMA ExhaustStepInv ==
  ASSUME RequestsInv, NEW r \in Requests, ExhaustStep(r)
  PROVE  RequestsInv'
<1> USE DEF ExhaustStep, MaySweepStep, motionVars, drainVars
<1>1. "escalation_exhausted" \in Terminal /\ "escalated" \in StepStatus
  BY DEF Terminal, StepStatus
<1>2. Current(r).procedure = "unilateral"
  BY CurrentType DEF RequestsInv, RequestInv, HasItsMotion, StepRow
<1>3. \A m \in Motion, q \in Requests, k \in 1..3 :
         motion[m].status \in LiveMotion /\ motion[m].ref = <<q, k>> => q # r
  BY <1>2, OfficerHasStep
<1>4. System \notin Actors /\ System \in Actors \cup Motion \cup {System}
  BY RequestsAssumption
<1>5. RequestsKept
  BY <1>1, <1>3, <1>4, ConcludeInv
<1>6. TypeOK'
  BY <1>5 DEF RequestsKept, RequestsInv, TypeOK, MotionsTypeOK
<1>7. OneTaskPerApproval'
  BY DEF RequestsInv, TypeOK, OneTaskPerApproval, Conclude
<1> QED
  BY <1>5, <1>6, <1>7 DEF RequestsKept, RequestsInv

\* sweepStalledSteps below authority: the same step, before a higher office.
LEMMA EscalateStepInv ==
  ASSUME RequestsInv, NEW r \in Requests, EscalateStep(r)
  PROVE  RequestsInv'
<1> USE DEF RequestsInv, EscalateStep, MaySweepStep, motionVars, drainVars
<1> DEFINE i == cur[r]
           row == Raised(step[r][i])
<1>1. i \in Steps(r) /\ i \in Nat /\ Current(r) = step[r][i] /\ Current(r) \in StepRow
  BY CurrentType, RouteFacts
<1>2. /\ row \in StepRow /\ row.office = step[r][i].office + 1
      /\ row.status = step[r][i].status /\ row.procedure = step[r][i].procedure
      /\ row.body = step[r][i].body /\ row.motion = step[r][i].motion
      /\ row.by = step[r][i].by
  BY <1>1 DEF Raised, StepRow, Offices, Authority
<1>3. Current(r).procedure = "unilateral" /\ \A j \in Steps(r) : RowFits(r, j)
  BY <1>1 DEF RequestInv, HasItsMotion, StepRow, RowsFit
<1>4. step' = [step EXCEPT ![r][i] = row]
  OBVIOUS
<1> HIDE DEF row
<1>5. /\ DOMAIN step' = Requests
      /\ \A q \in Requests : step'[q] \in [Steps(q) -> StepRow]
      /\ \A q \in Requests : q # r => step'[q] = step[q]
      /\ \A j \in Steps(r) : j # i => step'[r][j] = step[r][j]
      /\ step'[r][i] = row
  BY <1>1, <1>2, <1>4 DEF TypeOK
<1>6. ASSUME NEW q \in Requests, q # r PROVE RequestInv(q)'
  BY <1>5, <1>6, RequestFrame
<1>7. RequestInv(r)'
  <2> USE DEF RequestInv
  <2>1. AdmittedOne(r)'
    BY DEF AdmittedOne, Routable
  <2>2. MatchesSteps(r)'
    BY <1>1, <1>2, <1>5, RouteFacts DEF MatchesSteps, Current, LastStep
  <2>3. DifferentEyes(r)'
    BY <1>1, <1>2, <1>5 DEF DifferentEyes
  <2>4. RowsFit(r)'
    <3>1. step[r][i].office \in 0..2 /\ Route(r)[i] \in 0..2
      BY <1>1, RouteFacts DEF StepRow, Offices
    <3> SUFFICES ASSUME NEW j \in Steps(r) PROVE RowFits(r, j)'
      BY DEF RowsFit
    <3>2. CASE j = i
      BY <1>1, <1>2, <1>3, <1>5, <3>1, <3>2, SMTT(40) DEF RowFits
    <3>3. CASE j # i
      BY <1>1, <1>3, <1>5, <3>3 DEF RowFits
    <3> QED
      BY <3>2, <3>3
  <2>5. HasItsMotion(r)'
    BY <1>1, <1>2, <1>3, <1>5 DEF HasItsMotion, Current
  <2> QED
    BY <2>1, <2>2, <2>3, <2>4, <2>5
<1>8. MotionsWaitedFor'
  BY <1>2, <1>5 DEF MotionsWaitedFor, WaitedFor
<1>9. TypeOK'
  BY <1>5 DEF TypeOK, MotionsTypeOK
<1>10. OneTaskPerApproval'
  BY DEF OneTaskPerApproval
<1> QED
  BY <1>6, <1>7, <1>8, <1>9, <1>10

-----------------------------------------------------------------------------
(* The drain. *)

\* closeTopic Phase 2-B: the steps that were pending are rejected with the
\* request; a step under a ballot keeps its row, for that ballot is still to be
\* drained, and so does one whose ballot lapsed meanwhile.
LEMMA DrainRequestInv ==
  ASSUME IInv, NEW r \in Requests, DrainRequest(r)
  PROVE  RequestsInv'
<1> USE DEF IInv, RequestsInv, DrainRequest, motionVars
<1> DEFINE Row(i) == IF <<r, i>> \in held
                     THEN [step[r][i] EXCEPT !.status = "rejected"] ELSE step[r][i]
<1>1. ASSUME NEW i \in Steps(r)
      PROVE  /\ Row(i) \in StepRow /\ Row(i).office = step[r][i].office
             /\ Row(i).procedure = step[r][i].procedure
             /\ Row(i).body = step[r][i].body /\ Row(i).motion = step[r][i].motion
             /\ Row(i).by = step[r][i].by
             /\ Row(i).status = IF <<r, i>> \in held THEN "rejected"
                                ELSE step[r][i].status
  BY RowType DEF StepRow, StepStatus
<1>2. step' = [step EXCEPT ![r] = [i \in Steps(r) |-> Row(i)]]
  OBVIOUS
<1> HIDE DEF Row
<1>3. /\ DOMAIN step' = Requests
      /\ \A q \in Requests : step'[q] \in [Steps(q) -> StepRow]
      /\ \A q \in Requests : q # r => step'[q] = step[q]
      /\ \A i \in Steps(r) : step'[r][i] = Row(i)
  <2>1. DOMAIN step = Requests /\ \A q \in Requests : step[q] \in [Steps(q) -> StepRow]
    BY DEF TypeOK
  <2>2. [i \in Steps(r) |-> Row(i)] \in [Steps(r) -> StepRow]
    BY <1>1
  <2> HIDE DEF RequestsInv, DrainRequest
  <2> QED
    BY <1>2, <2>1, <2>2
<1>4. status'[r] = "rejected" /\ \A q \in Requests : q # r => status'[q] = status[q]
  BY DEF TypeOK
<1>5. cur[r] \in Steps(r) /\ \A j \in Steps(r) : RowFits(r, j)
  BY CurrentType DEF RequestInv, RowsFit
<1>6. ASSUME NEW q \in Requests, q # r PROVE RequestInv(q)'
  BY <1>3, <1>4, <1>6, RequestFrame
<1>7. RequestInv(r)'
  <2> USE DEF RequestInv
  <2>1. AdmittedOne(r)'
    BY <1>4 DEF AdmittedOne, Routable
  <2>2. MatchesSteps(r)'
    <3>1. /\ \A j \in Steps(r) : <<r, j>> \in held => step[r][j].status = "pending"
          /\ \/ <<r, cur[r]>> \in held \/ Current(r).status # "pending"
             \/ LapsedToOfficers(r)
      BY DEF DrainsFit, DrainFits
    <3>2. LapsedToOfficers(r)' <=> LapsedToOfficers(r)
      BY <1>1, <1>3, <1>5 DEF LapsedToOfficers, Current
    <3>3. /\ MatchesSteps(r) /\ Steps(r) = 1..Len(Route(r)) /\ cur[r] \in Nat
          /\ Len(Route(r)) \in Nat
      BY <1>5, RouteFacts
    <3>4. /\ \A j \in 1..(cur[r] - 1) : step'[r][j].status = "endorsed"
          /\ \A j \in (cur[r] + 1)..Len(Route(r)) :
                step'[r][j].status \in {"pending", "rejected"}
      BY <1>1, <1>3, <1>5, <3>1, <3>3 DEF MatchesSteps
    <3>5. \/ Current(r)'.status \in {"rejected", "motion_proposed"}
          \/ Current(r)'.status = "pending" /\ LapsedToOfficers(r)
      BY <1>1, <1>3, <1>5, <3>1, <3>3 DEF MatchesSteps, Current
    <3> QED
      BY <1>4, <3>2, <3>4, <3>5 DEF MatchesSteps, LastStep
  <2>3. DifferentEyes(r)'
    BY <1>1, <1>3 DEF DifferentEyes
  <2>4. RowsFit(r)'
    <3> SUFFICES ASSUME NEW j \in Steps(r) PROVE RowFits(r, j)'
      BY DEF RowsFit
    <3>1. RowFits(r, j) /\ step'[r][j] = Row(j)
      BY <1>3, <1>5
    <3>2. CASE <<r, j>> \in held
      BY <1>1, <1>4, <3>1, <3>2 DEF RowFits
    <3>3. CASE <<r, j>> \notin held
      BY <1>1, <1>4, <3>1, <3>3 DEF RowFits
    <3> QED
      BY <3>2, <3>3
  <2> QED
    BY <1>4, <2>1, <2>2, <2>3, <2>4
<1>8. MotionsWaitedFor'
  <2> SUFFICES ASSUME NEW m \in Motion, NEW q \in Requests, NEW k \in 1..3,
                      motion[m].status \in LiveMotion, motion[m].ref = <<q, k>>
      PROVE  WaitedFor(m, q, k)'
    BY DEF MotionsWaitedFor
  <2>1. WaitedFor(m, q, k)
    BY DEF MotionsWaitedFor
  <2>2. CASE q = r
    BY <1>1, <1>3, <1>4, <1>5, <2>1, <2>2 DEF WaitedFor
  <2>3. CASE q # r
    BY <1>3, <1>4, <2>1, <2>3 DEF WaitedFor
  <2> QED
    BY <2>2, <2>3
<1>9. TypeOK'
  <2>1. held' \subseteq StepRef /\ draining' \subseteq Requests
    BY DEF TypeOK, DrainEnds
  <2> QED
    BY <1>3, <2>1 DEF TypeOK, MotionsTypeOK, Terminal
<1>10. OneTaskPerApproval'
  BY DEF TypeOK, OneTaskPerApproval
<1> QED
  BY <1>6, <1>7, <1>8, <1>9, <1>10

-----------------------------------------------------------------------------
(* The steps of a motion. *)

\* A live motion about a step of an open request decides its current step.
LEMMA WhereItDecides ==
  ASSUME RequestsInv, NEW m \in Motion, NEW r \in Requests,
         motion[m].status \in LiveMotion, Decides(m, r)
  PROVE  /\ StepOf(m, r) = cur[r]
         /\ motion[m].ref = <<r, cur[r]>>
         /\ step[r][cur[r]].motion = m
         /\ step[r][cur[r]].procedure = "collective"
<1> DEFINE i == StepOf(m, r)
<1>1. i \in Steps(r) /\ step[r][i].motion = m
  BY DEF Decides, StepOf
<1> HIDE DEF i
<1>2. i \in 1..3 /\ m # Nobody
  <2>1. i \in 1..3
    BY <1>1, RouteFacts
  <2> QED
    BY <2>1, RequestsAssumption
<1>3. motion[m].ref = <<r, i>> /\ step[r][i].procedure # "unilateral"
  BY <1>1, <1>2 DEF RequestsInv, RequestInv, RowsFit, RowFits
<1>4. cur[r] = i
  BY <1>2, <1>3 DEF RequestsInv, MotionsWaitedFor, WaitedFor
<1> QED
  BY <1>1, <1>3, <1>4, RowType DEF i, RequestsInv, StepRow

\* The UPDATE of a motion to its outcome.
LEMMA SettledMotion ==
  ASSUME MotionsTypeOK, NEW m \in Motion, motion[m].status \in LiveMotion,
         NEW outcome \in Outcome, motion' = Settled(m, outcome)
  PROVE  /\ motion' \in [Motion -> MotionRow]
         /\ motion'[m].status = outcome
         /\ motion'[m].status \notin LiveMotion /\ motion'[m].status # "none"
         /\ motion'[m].ref = motion[m].ref /\ motion'[m].body = motion[m].body
         /\ \A k \in Motion : k # m => motion'[k] = motion[k]
  BY DEF MotionsTypeOK, MotionRow, Settled, Outcome, LiveMotion

\* A motion that settles a request with its current step.
LEMMA MotionConcludes ==
  ASSUME RequestsInv, NEW m \in Motion, NEW r \in Requests,
         motion[m].status \in LiveMotion, Decides(m, r),
         NEW o \in Outcome, motion' = Settled(m, o), topic' = topic,
         NEW outcome \in Terminal, NEW s \in StepStatus,
         Conclude(r, cur[r], outcome, s, m),
         outcome = "approved" => s = "endorsed" /\ LastStep(r),
         outcome = "returned" => s = "returned",
         outcome = "rejected" => s = "rejected",
         outcome = "escalation_exhausted" => s = "escalated"
  PROVE  RequestsKept
<1>1. /\ motion'[m].status \notin LiveMotion /\ motion'[m].status # "none"
      /\ motion'[m].ref = motion[m].ref /\ motion'[m].body = motion[m].body
      /\ \A k \in Motion : k # m => motion'[k] = motion[k]
  BY SettledMotion DEF RequestsInv, TypeOK
<1>2. motion[m].ref = <<r, cur[r]>> /\ step[r][cur[r]].motion = m
  BY WhereItDecides
<1>3. \A k \in Motion, q \in Requests, i \in 1..3 :
         motion'[k].status \in LiveMotion /\ motion'[k].ref = <<q, i>> =>
            q # r /\ motion[k].status \in LiveMotion /\ motion[k].ref = <<q, i>>
  <2> SUFFICES ASSUME NEW k \in Motion, NEW q \in Requests, NEW i \in 1..3,
                      motion'[k].status \in LiveMotion, motion'[k].ref = <<q, i>>
      PROVE  q # r /\ motion[k].status \in LiveMotion /\ motion[k].ref = <<q, i>>
    OBVIOUS
  <2>1. k # m /\ motion'[k] = motion[k]
    BY <1>1
  <2>2. WaitedFor(k, q, i)
    BY <2>1 DEF RequestsInv, MotionsWaitedFor
  <2> QED
    BY <1>2, <2>1, <2>2 DEF WaitedFor
<1>4. m \notin Actors /\ m \in Actors \cup Motion \cup {System}
  BY RequestsAssumption
<1>5. status[r] = "open"
  BY DEF Decides
<1> QED
  BY <1>1, <1>2, <1>3, <1>4, <1>5, ConcludeInv, SMTT(60)

\* What a step's motion is about is no free matter.
LEMMA StepIsNotFree ==
  ASSUME TypeOK, NEW r \in Requests
  PROVE  <<r, cur[r]>> # Free
<1>1. cur[r] \in 1..3
  BY CurrentType
<1> QED
  BY <1>1, MotionsAssumption, RequestsAssumption

\* applyMotionToStep, where it ends the request: carried at the last step,
\* failed, vetoed, or lapsed at authority.
LEMMA ConcludingInv ==
  ASSUME RequestsInv, NEW m \in Motion, NEW r \in Requests,
         motion[m].status \in LiveMotion, Decides(m, r),
         \/ CarryRequest(m, r, cur[r]) \/ FailRequest(m, r, cur[r])
         \/ VetoRequest(m, r, cur[r]) \/ LapseRequest(m, r, cur[r]),
         late' = late \ {m},
         UNCHANGED <<topic, drainVars>>
  PROVE  RequestsInv'
<1> USE DEF CarryRequest, FailRequest, VetoRequest, LapseRequest, drainVars
<1>1. \E o \in Outcome : motion' = Settled(m, o) /\ (chain' = chain \/ EmitChain(r))
  BY DEF Outcome
<1>2. PICK o \in Outcome : motion' = Settled(m, o)
  BY <1>1
<1>3. status[r] = "open" /\ LastStep(r) <=> cur[r] = Len(Route(r)) /\ status[r] = "open"
  BY DEF Decides, LastStep
<1>4. RequestsKept
  <2>1. "endorsed" \in StepStatus /\ "returned" \in StepStatus /\ "rejected" \in StepStatus
        /\ "escalated" \in StepStatus
    BY DEF StepStatus
  <2>2. "approved" \in Terminal /\ "returned" \in Terminal /\ "rejected" \in Terminal
        /\ "escalation_exhausted" \in Terminal
    BY DEF Terminal
  <2>3. CASE CarryRequest(m, r, cur[r])
    BY <1>2, <2>1, <2>2, <2>3, MotionConcludes DEF LastStep
  <2>4. CASE FailRequest(m, r, cur[r])
    BY <1>2, <2>1, <2>2, <2>4, MotionConcludes
  <2>5. CASE VetoRequest(m, r, cur[r])
    BY <1>2, <2>1, <2>2, <2>5, MotionConcludes
  <2>6. CASE LapseRequest(m, r, cur[r])
    BY <1>2, <2>1, <2>2, <2>6, MotionConcludes
  <2> QED
    BY <2>3, <2>4, <2>5, <2>6
<1>5. /\ motion' \in [Motion -> MotionRow]
      /\ motion'[m].status = o
      /\ motion'[m].status \notin LiveMotion /\ motion'[m].status # "none"
      /\ motion'[m].ref = motion[m].ref /\ motion'[m].body = motion[m].body
      /\ \A k \in Motion : k # m => motion'[k] = motion[k]
  BY <1>2, SettledMotion DEF RequestsInv, TypeOK
<1>6. TypeOK'
  BY <1>4, <1>5, ZenonT(60)
     DEF RequestsKept, RequestsInv, TypeOK, MotionsTypeOK, ResolveArtifact, EmitChain
<1>7. OneTaskPerApproval'
  <2>1. motion[m].ref = <<r, cur[r]>> /\ motion[m].ref # Free
    BY WhereItDecides, StepIsNotFree DEF RequestsInv
  <2>2. motion[m].status # "carried"
    BY DEF LiveMotion
  <2>3. \A k \in Motion : motion'[k].status = "carried" /\ motion'[k].ref = Free
                          <=> motion[k].status = "carried" /\ motion[k].ref = Free
    BY <1>5, <2>1, <2>2
  <2>4. status[r] = "open" /\ r \notin Motion
    BY RequestsAssumption DEF Decides
  <2>5. CASE CarryRequest(m, r, cur[r])
    BY <2>3, <2>4, <2>5, RequestsAssumption
       DEF RequestsInv, TypeOK, OneTaskPerApproval, EmitChain, Conclude
  <2>6. CASE ~CarryRequest(m, r, cur[r])
    BY <2>3, <2>4, <2>6 DEF RequestsInv, TypeOK, OneTaskPerApproval, Conclude
  <2> QED
    BY <2>5, <2>6
<1> QED
  BY <1>4, <1>6, <1>7 DEF RequestsKept, RequestsInv

\* A motion that no open request waits for: a free one, or one whose request
\* the drain has rejected.
LEMMA SettleAloneInv ==
  ASSUME RequestsInv, NEW m \in Motion, motion[m].status \in LiveMotion,
         NEW o \in Outcome, SettleAlone(m, o), late' = late \ {m},
         UNCHANGED <<topic, drainVars>>
  PROVE  RequestsInv'
<1> USE DEF RequestsInv, SettleAlone, drainVars
<1>1. /\ motion' \in [Motion -> MotionRow]
      /\ motion'[m].status = o
      /\ motion'[m].status \notin LiveMotion /\ motion'[m].status # "none"
      /\ motion'[m].ref = motion[m].ref /\ motion'[m].body = motion[m].body
      /\ \A k \in Motion : k # m => motion'[k] = motion[k]
  BY SettledMotion DEF TypeOK
<1>2. ASSUME NEW q \in Requests PROVE RequestInv(q)'
  <2>1. CASE status[q] = "open"
    <3>1. ~Decides(m, q) /\ cur[q] \in Steps(q) /\ cur[q] \in 1..3
      BY CurrentType
    <3>2. motion[m].ref # <<q, cur[q]>>
      BY <2>1, <3>1 DEF Decides, MotionsWaitedFor, WaitedFor
    <3> QED
      BY <1>1, <3>2, RequestFrame
  <2>2. CASE status[q] # "open"
    BY <1>1, <2>2, RequestFrame
  <2> QED
    BY <2>1, <2>2
<1>3. MotionsWaitedFor'
  BY <1>1 DEF MotionsWaitedFor, WaitedFor
<1>4. TypeOK'
  BY <1>1 DEF TypeOK, MotionsTypeOK, EmitChain
<1>5. OneTaskPerApproval'
  <2>1. chain[m] = "none"
    BY DEF OneTaskPerApproval, LiveMotion
  <2>2. CASE o = "carried" /\ motion[m].ref = Free
    <3>1. /\ chain'[m] \in {"posted", "deferred"}
          /\ \A s \in Requests \cup Motion : s # m => chain'[s] = chain[s]
          /\ m \in BadChain => chain'[m] # "posted"
      BY <2>2 DEF EmitChain, TypeOK
    <3> QED
      BY <1>1, <2>2, <3>1, RequestsAssumption, SMTT(40) DEF OneTaskPerApproval
  <2>3. CASE ~(o = "carried" /\ motion[m].ref = Free)
    BY <1>1, <2>1, <2>3 DEF OneTaskPerApproval
  <2> QED
    BY <2>2, <2>3
<1> QED
  BY <1>2, <1>3, <1>4, <1>5

\* A motion about to be proposed is no step's yet.
LEMMA FreshMotion ==
  ASSUME RequestsInv, NEW k \in Motion, Fresh(k)
  PROVE  /\ motion[k].status = "none" /\ k # Nobody
         /\ \A q \in Requests : \A j \in Steps(q) : step[q][j].motion # k
<1>1. motion[k].status = "none" /\ k # Nobody
  BY RequestsAssumption DEF Fresh
<1> QED
  BY <1>1 DEF RequestsInv, RequestInv, RowsFit, RowFits

\* A motion is settled, and the next one proposed about a step of the request.
LEMMA ReplacedMotion ==
  ASSUME MotionsTypeOK, NEW m \in Motion, motion[m].status \in LiveMotion,
         NEW outcome \in Outcome, NEW k \in Motion, motion[k].status = "none",
         NEW b \in Bodies \cup {Nobody}, NEW ref \in StepRef,
         motion' = [Settled(m, outcome) EXCEPT ![k] = Proposed(b, ref)]
  PROVE  /\ motion' \in [Motion -> MotionRow]
         /\ motion'[m].status = outcome
         /\ motion'[m].status \notin LiveMotion /\ motion'[m].status # "none"
         /\ motion'[m].ref = motion[m].ref /\ motion'[m].body = motion[m].body
         /\ motion'[k].status = "proposed" /\ motion'[k].ref = ref
         /\ motion'[k].body = b
         /\ k # m
         /\ \A n \in Motion : n # m /\ n # k => motion'[n] = motion[n]
<1>1. k # m
  BY DEF LiveMotion
<1>2. Proposed(b, ref) \in MotionRow
  BY DEF Proposed, MotionRow, LiveMotion
<1>3. Proposed(b, ref).status = "proposed" /\ Proposed(b, ref).ref = ref
      /\ Proposed(b, ref).body = b
  BY DEF Proposed
<1>4. Settled(m, outcome) \in [Motion -> MotionRow]
  BY DEF MotionsTypeOK, Settled, MotionRow
<1> QED
  BY <1>1, <1>2, <1>3, <1>4 DEF MotionsTypeOK, MotionRow, Settled, Outcome, LiveMotion

\* The row of a step that is put to the vote.
LEMMA UnderMotionRow ==
  ASSUME NEW row \in StepRow, NEW k \in Motion
  PROVE  /\ UnderMotion(row, k) \in StepRow
         /\ UnderMotion(row, k).status = "motion_proposed" /\ UnderMotion(row, k).motion = k
         /\ UnderMotion(row, k).office = row.office /\ UnderMotion(row, k).by = row.by
         /\ UnderMotion(row, k).procedure = row.procedure /\ UnderMotion(row, k).body = row.body
  BY DEF UnderMotion, StepRow, StepStatus

\* The row of a step that goes to the body of a higher office.
LEMMA MotionStepRow ==
  ASSUME NEW row \in StepRow, NEW o \in Offices, NEW b \in Bodies \cup {Nobody},
         NEW k \in Motion
  PROVE  /\ MotionStep(row, o, b, k) \in StepRow
         /\ MotionStep(row, o, b, k).status = "motion_proposed"
         /\ MotionStep(row, o, b, k).motion = k /\ MotionStep(row, o, b, k).office = o
         /\ MotionStep(row, o, b, k).by = Nobody /\ MotionStep(row, o, b, k).body = b
         /\ MotionStep(row, o, b, k).procedure = "collective"
  BY DEF MotionStep, StepRow, StepStatus

\* The row of a step that goes to the officers of a higher office.
LEMMA OfficerStepRow ==
  ASSUME NEW row \in StepRow, NEW o \in Offices
  PROVE  /\ OfficerStep(row, o) \in StepRow
         /\ OfficerStep(row, o).status = "pending" /\ OfficerStep(row, o).motion = Nobody
         /\ OfficerStep(row, o).office = o /\ OfficerStep(row, o).by = Nobody
         /\ OfficerStep(row, o).body = Nobody /\ OfficerStep(row, o).procedure = "unilateral"
  BY DEF OfficerStep, StepRow, StepStatus

\* A request goes on when its motion is settled: the others do not notice, and
\* the only motion that may come up is the one about its step.
LEMMA MovesOn ==
  ASSUME RequestsInv, NEW m \in Motion, NEW r \in Requests,
         motion[m].status \in LiveMotion, Decides(m, r),
         status' = status, chain' = chain, topic' = topic,
         cur'[r] \in Steps(r),
         \A q \in Requests : q # r => cur'[q] = cur[q] /\ step'[q] = step[q],
         motion'[m].status \in Outcome,
         motion'[m].ref = motion[m].ref, motion'[m].body = motion[m].body,
         \A n \in Motion :
            \/ n = m
            \/ motion'[n] = motion[n]
            \/ /\ motion[n].status = "none" /\ motion'[n].status = "proposed"
               /\ motion'[n].ref = <<r, cur'[r]>> /\ step'[r][cur'[r]].motion = n
  PROVE  /\ \A q \in Requests : q # r => RequestInv(q)'
         /\ MotionsWaitedFor'
         /\ OneTaskPerApproval'
<1> USE DEF RequestsInv
<1>1. /\ motion[m].ref = <<r, cur[r]>> /\ motion[m].ref # Free
      /\ step[r][cur[r]].motion = m /\ status[r] = "open"
  <2>1. motion[m].ref = <<r, cur[r]>> /\ step[r][cur[r]].motion = m
    BY WhereItDecides
  <2>2. <<r, cur[r]>> # Free
    BY StepIsNotFree
  <2> QED
    BY <2>1, <2>2 DEF Decides
<1>2. <<r, cur'[r]>> # Free
  <2>1. cur'[r] \in 1..3
    BY RouteFacts
  <2> QED
    BY <2>1, MotionsAssumption, RequestsAssumption
<1>3. motion'[m].status \notin LiveMotion \cup {"none"} /\ motion[m].status # "carried"
  BY DEF Outcome, LiveMotion
<1>4. ASSUME NEW q \in Requests, q # r PROVE RequestInv(q)'
  <2>1. motion[m].ref # <<q, cur[q]>>
    BY <1>1, <1>4
  <2> QED
    BY <1>3, <1>4, <2>1, RequestFrame
<1>5. MotionsWaitedFor'
  <2> SUFFICES ASSUME NEW n \in Motion, NEW q \in Requests, NEW k \in 1..3,
                      motion'[n].status \in LiveMotion, motion'[n].ref = <<q, k>>
      PROVE  WaitedFor(n, q, k)'
    BY DEF MotionsWaitedFor
  <2>1. n # m
    BY <1>3
  <2>2. CASE motion'[n] = motion[n]
    <3>1. WaitedFor(n, q, k)
      BY <2>2 DEF MotionsWaitedFor
    <3>2. q # r
      BY <1>1, <2>1, <3>1 DEF WaitedFor
    <3> QED
      BY <3>1, <3>2 DEF WaitedFor
  <2>3. CASE motion'[n] # motion[n]
    BY <1>1, <2>1, <2>3 DEF WaitedFor
  <2> QED
    BY <2>2, <2>3
<1>6. OneTaskPerApproval'
  <2>1. \A n \in Motion : motion'[n].status = "carried" /\ motion'[n].ref = Free
                          <=> motion[n].status = "carried" /\ motion[n].ref = Free
    BY <1>1, <1>2, <1>3
  <2> QED
    BY <2>1 DEF OneTaskPerApproval
<1> QED
  BY <1>4, <1>5, <1>6

\* applyMotionToStep 'carried', with a step to follow.
LEMMA CarryStepInv ==
  ASSUME RequestsInv, NEW m \in Motion, NEW r \in Requests,
         motion[m].status \in LiveMotion, Decides(m, r),
         CarryStep(m, r, cur[r]), late' = late \ {m},
         UNCHANGED <<topic, drainVars>>
  PROVE  RequestsInv'
<1> USE DEF RequestsInv, CarryStep, drainVars
<1> DEFINE i == cur[r]
           row == step[r][i + 1]
<1>1. i \in Steps(r) /\ i + 1 \in Steps(r) /\ i \in Nat /\ i + 1 \in 1..3
      /\ Current(r) = step[r][i]
  BY CurrentType, RouteFacts
<1>2. /\ cur' \in [Requests -> Nat] /\ cur'[r] = i + 1
      /\ \A q \in Requests : q # r => cur'[q] = cur[q]
  BY DEF TypeOK
<1>3. motion[m].ref = <<r, i>> /\ step[r][i].motion = m /\ status[r] = "open"
  BY WhereItDecides DEF Decides
<1>4. row \in StepRow /\ RowFits(r, i + 1) /\ RowFits(r, i) /\ row.status = "pending"
      /\ row.motion = Nobody /\ row.by = Nobody
  <2>1. i + 1 \in (cur[r] + 1)..Len(Route(r)) /\ i + 1 > cur[r]
    BY <1>1, RouteFacts
  <2>2. row.status = "pending"
    BY <1>3, <2>1 DEF RequestInv, MatchesSteps
  <2> QED
    BY <1>1, <2>1, <2>2, RowType DEF RequestInv, RowsFit, RowFits
<1>5. "endorsed" \in StepStatus /\ "carried" \in Outcome
  BY DEF StepStatus, Outcome
<1>6. /\ Decided(step[r][i], "endorsed", m) \in StepRow
      /\ Decided(step[r][i], "endorsed", m).status = "endorsed"
      /\ Decided(step[r][i], "endorsed", m).by = m
      /\ Decided(step[r][i], "endorsed", m).office = step[r][i].office
      /\ Decided(step[r][i], "endorsed", m).procedure = step[r][i].procedure
      /\ Decided(step[r][i], "endorsed", m).body = step[r][i].body
      /\ Decided(step[r][i], "endorsed", m).motion = step[r][i].motion
  BY <1>1, <1>5, RowType, ZenonT(60) DEF Decided, StepRow
<1> DEFINE new == Decided(step[r][i], "endorsed", m)
<1> HIDE DEF new
<1> DEFINE ref == <<r, i + 1>>
\* The row of the step that follows, and its motion if it has one.
<1>7. PICK next \in StepRow :
         /\ step'[r][i + 1] = next
         /\ next.office = row.office /\ next.procedure = row.procedure
         /\ next.body = row.body /\ next.by = row.by
         /\ step' = [step EXCEPT ![r][i] = new, ![r][i + 1] = next] \/ step' = [step EXCEPT ![r][i] = new]
         /\ IF row.procedure = "collective"
            THEN /\ next.status = "motion_proposed" /\ next.motion \in Motion
                 /\ Fresh(next.motion)
                 /\ motion' = [Settled(m, "carried") EXCEPT ![next.motion] =
                       Proposed(row.body, ref)]
            ELSE next = row /\ motion' = Settled(m, "carried")
  <2>1. CASE row.procedure = "collective"
    <3>1. PICK k \in Motion :
             /\ Fresh(k)
             /\ motion' = [Settled(m, "carried") EXCEPT ![k] = Proposed(row.body, ref)]
             /\ step' = [step EXCEPT ![r][i] = new, ![r][i + 1] = UnderMotion(row, k)]
      BY <1>1, <2>1 DEF new
    <3>2. /\ UnderMotion(row, k) \in StepRow
          /\ UnderMotion(row, k).status = "motion_proposed" /\ UnderMotion(row, k).motion = k
          /\ UnderMotion(row, k).office = row.office /\ UnderMotion(row, k).by = row.by
          /\ UnderMotion(row, k).procedure = row.procedure
          /\ UnderMotion(row, k).body = row.body
      BY <1>4, UnderMotionRow
    <3>3. step'[r][i + 1] = UnderMotion(row, k)
      BY <1>1, <3>1 DEF TypeOK
    <3> QED
      BY <2>1, <3>1, <3>2, <3>3
  <2>2. CASE row.procedure # "collective"
    <3>1. step' = [step EXCEPT ![r][i] = new] /\ motion' = Settled(m, "carried")
      BY <2>2 DEF new
    <3>2. step'[r][i + 1] = row
      BY <1>1, <3>1 DEF TypeOK
    <3> QED
      BY <1>4, <2>2, <3>1, <3>2
  <2> QED
    BY <2>1, <2>2
<1>8. /\ DOMAIN step' = Requests
      /\ \A q \in Requests : step'[q] \in [Steps(q) -> StepRow]
      /\ \A q \in Requests : q # r => step'[q] = step[q]
      /\ step'[r][i] = new /\ step'[r][i + 1] = next
      /\ \A j \in Steps(r) : j # i /\ j # i + 1 => step'[r][j] = step[r][j]
  <2>1. new \in StepRow
    BY <1>6 DEF new
  <2>2. CASE step' = [step EXCEPT ![r][i] = new, ![r][i + 1] = next]
    <3>1. /\ DOMAIN step = Requests /\ \A q \in Requests : step[q] \in [Steps(q) -> StepRow]
          /\ i \in Steps(r) /\ i + 1 \in Steps(r) /\ i # i + 1
      BY <1>1 DEF TypeOK
    <3> HIDE DEF i, new, RequestsInv, CarryStep
    <3> QED
      BY <2>1, <2>2, <3>1
  <2>3. CASE step' = [step EXCEPT ![r][i] = new]
    BY <1>1, <1>7, <2>1, <2>3 DEF TypeOK
  <2> QED
    BY <1>7, <2>2, <2>3
<1>9. /\ motion' \in [Motion -> MotionRow]
      /\ motion'[m].status = "carried"
      /\ motion'[m].status # "none"
      /\ motion'[m].ref = motion[m].ref /\ motion'[m].body = motion[m].body
      /\ \A n \in Motion :
            \/ n = m
            \/ motion'[n] = motion[n]
            \/ /\ motion[n].status = "none" /\ motion'[n].status = "proposed"
               /\ motion'[n].ref = <<r, i + 1>> /\ next.motion = n
      /\ row.procedure = "collective" =>
            /\ next.motion \in Motion
            /\ motion'[next.motion].status = "proposed"
            /\ motion'[next.motion].ref = <<r, i + 1>>
            /\ motion'[next.motion].body = row.body
  <2>1. CASE row.procedure = "collective"
    <3>1. motion[next.motion].status = "none" /\ row.body \in Bodies \cup {Nobody}
      BY <1>4, <1>7, <2>1 DEF Fresh, StepRow
    <3>2. ref \in StepRef
      BY <1>1, RequestsAssumption
    <3>3. motion' = [Settled(m, "carried") EXCEPT ![next.motion] = Proposed(row.body, ref)]
          /\ next.motion \in Motion
      BY <1>7, <2>1
    <3>0. MotionsTypeOK /\ "carried" \in Outcome
      BY <1>5 DEF TypeOK
    <3> HIDE DEF ref, row, RequestsInv, CarryStep
    <3>4. /\ motion' \in [Motion -> MotionRow]
          /\ motion'[m].status = "carried"
          /\ motion'[m].status \notin LiveMotion /\ motion'[m].status # "none"
          /\ motion'[m].ref = motion[m].ref /\ motion'[m].body = motion[m].body
          /\ motion'[next.motion].status = "proposed" /\ motion'[next.motion].ref = ref
          /\ motion'[next.motion].body = row.body
          /\ next.motion # m
          /\ \A n \in Motion : n # m /\ n # next.motion => motion'[n] = motion[n]
      BY <3>0, <3>1, <3>2, <3>3, ReplacedMotion
    <3> QED
      BY <2>1, <3>1, <3>3, <3>4 DEF ref
  <2>2. CASE row.procedure # "collective"
    BY <1>5, <1>7, <2>2, SettledMotion DEF TypeOK
  <2> QED
    BY <2>1, <2>2
<1>10. TypeOK'
  BY <1>1, <1>2, <1>8, <1>9 DEF TypeOK, MotionsTypeOK, LiveMotion
<1>11. /\ \A q \in Requests : q # r => RequestInv(q)'
       /\ MotionsWaitedFor'
       /\ OneTaskPerApproval'
  BY <1>1, <1>2, <1>5, <1>8, <1>9, MovesOn
<1>12. RequestInv(r)'
  <2> USE DEF RequestInv
  <2>1. AdmittedOne(r)'
    BY <1>3 DEF AdmittedOne, Routable
  <2>2. i = 1 /\ Steps(r) = {1, 2} /\ Len(Route(r)) = 2
    BY <1>1, RouteFacts
  <2>3. MatchesSteps(r)'
    BY <1>2, <1>3, <1>4, <1>6, <1>7, <1>8, <2>2 DEF new, MatchesSteps, Current, LastStep
  <2>4. DifferentEyes(r)'
    <3>1. m \notin Actors /\ Nobody \notin Actors
      BY RequestsAssumption
    <3>2. step'[r][1].by = m /\ step'[r][2].by = Nobody
      BY <1>4, <1>6, <1>7, <1>8, <2>2 DEF new
    <3> QED
      BY <2>2, <3>1, <3>2 DEF DifferentEyes
  <2>5. RowsFit(r)'
    <3>1. RowFits(r, 1)'
      BY <1>2, <1>3, <1>4, <1>6, <1>8, <1>9, <2>2 DEF new, RowFits
    <3>2. RowFits(r, 2)'
      BY <1>2, <1>3, <1>4, <1>7, <1>8, <1>9, <2>2 DEF RowFits
    <3> QED
      BY <2>2, <3>1, <3>2 DEF RowsFit
  <2>6. HasItsMotion(r)'
    BY <1>2, <1>4, <1>7, <1>8, <1>9, SMTT(40) DEF HasItsMotion, Current, LiveMotion
  <2> QED
    BY <2>1, <2>3, <2>4, <2>5, <2>6
<1> QED
  BY <1>10, <1>11, <1>12

\* applyMotionToStep 'lapsed' below authority: the same step, before the body
\* of the next office, or before its officers if it has no body.
LEMMA LapseStepInv ==
  ASSUME RequestsInv, NEW m \in Motion, NEW r \in Requests,
         motion[m].status \in LiveMotion, Decides(m, r),
         LapseStep(m, r, cur[r]), late' = late \ {m},
         UNCHANGED <<topic, drainVars>>
  PROVE  RequestsInv'
<1> USE DEF RequestsInv, LapseStep, drainVars
<1> DEFINE i == cur[r]
           row == step[r][i]
           up == row.office + 1
           body == BodyByLevel[r][up]
           ref == <<r, i>>
<1>1. i \in Steps(r) /\ i \in Nat /\ i \in 1..3 /\ row \in StepRow
      /\ RowFits(r, i) /\ RequestInv(r)
  BY CurrentType, RouteFacts DEF RequestInv, RowsFit
<1>2. motion[m].ref = ref /\ status[r] = "open" /\ row.procedure = "collective"
      /\ r \in Collective
  <2>1. motion[m].ref = ref /\ row.procedure = "collective"
    BY WhereItDecides
  <2> QED
    BY <1>1, <2>1 DEF RowFits, Decides
<1>3. up \in Offices /\ row.office \in 0..2 /\ body \in Bodies \cup {Nobody}
  <2>1. up \in Offices /\ row.office \in 0..2
    BY <1>1 DEF StepRow, Offices, Authority
  <2> QED
    BY <2>1, RequestsAssumption
<1>4. ref \in StepRef /\ MotionsTypeOK /\ "lapsed" \in Outcome
  BY <1>1, RequestsAssumption DEF TypeOK, Outcome
\* The new row, and its motion if it has one.
<1>5. PICK next \in StepRow :
         /\ step' = [step EXCEPT ![r][i] = next]
         /\ next.office = up /\ next.by = Nobody
         /\ IF body # Nobody
            THEN /\ next.procedure = "collective" /\ next.body = body
                 /\ next.status = "motion_proposed" /\ next.motion \in Motion
                 /\ Fresh(next.motion)
                 /\ motion' = [Settled(m, "lapsed") EXCEPT ![next.motion] = Proposed(body, ref)]
            ELSE /\ next.procedure = "unilateral" /\ next.body = Nobody
                 /\ next.status = "pending" /\ next.motion = Nobody
                 /\ motion' = Settled(m, "lapsed")
  <2>1. CASE body # Nobody
    <3>1. PICK k \in Motion :
             /\ Fresh(k)
             /\ motion' = [Settled(m, "lapsed") EXCEPT ![k] = Proposed(body, ref)]
             /\ step' = [step EXCEPT ![r][i] = MotionStep(row, up, body, k)]
      BY <1>2, <2>1
    <3>2. /\ MotionStep(row, up, body, k) \in StepRow
          /\ MotionStep(row, up, body, k).status = "motion_proposed"
          /\ MotionStep(row, up, body, k).motion = k
          /\ MotionStep(row, up, body, k).office = up
          /\ MotionStep(row, up, body, k).by = Nobody
          /\ MotionStep(row, up, body, k).body = body
          /\ MotionStep(row, up, body, k).procedure = "collective"
      <4> HIDE DEF row, up, body, LapseStep, RequestsInv
      <4> QED
        BY <1>1, <1>3, MotionStepRow
    <3> QED
      BY <2>1, <3>1, <3>2
  <2>2. CASE body = Nobody
    <3>1. /\ motion' = Settled(m, "lapsed")
          /\ step' = [step EXCEPT ![r][i] = OfficerStep(row, up)]
      BY <2>2
    <3>2. /\ OfficerStep(row, up) \in StepRow
          /\ OfficerStep(row, up).status = "pending" /\ OfficerStep(row, up).motion = Nobody
          /\ OfficerStep(row, up).office = up /\ OfficerStep(row, up).by = Nobody
          /\ OfficerStep(row, up).body = Nobody
          /\ OfficerStep(row, up).procedure = "unilateral"
      <4> HIDE DEF row, up, LapseStep, RequestsInv
      <4> QED
        BY <1>1, <1>3, OfficerStepRow
    <3> QED
      BY <2>2, <3>1, <3>2
  <2> QED
    BY <2>1, <2>2
<1>6. /\ DOMAIN step' = Requests
      /\ \A q \in Requests : step'[q] \in [Steps(q) -> StepRow]
      /\ \A q \in Requests : q # r => step'[q] = step[q]
      /\ step'[r][i] = next
      /\ \A j \in Steps(r) : j # i => step'[r][j] = step[r][j]
  BY <1>1, <1>5 DEF TypeOK
<1>7. /\ motion' \in [Motion -> MotionRow]
      /\ motion'[m].status = "lapsed"
      /\ motion'[m].ref = motion[m].ref /\ motion'[m].body = motion[m].body
      /\ \A n \in Motion :
            \/ n = m
            \/ motion'[n] = motion[n]
            \/ /\ motion[n].status = "none" /\ motion'[n].status = "proposed"
               /\ motion'[n].ref = ref /\ next.motion = n
      /\ body # Nobody =>
            /\ next.motion \in Motion
            /\ motion'[next.motion].status = "proposed"
            /\ motion'[next.motion].ref = ref
            /\ motion'[next.motion].body = body
  <2>1. CASE body # Nobody
    <3>1. motion[next.motion].status = "none" /\ next.motion \in Motion
          /\ motion' = [Settled(m, "lapsed") EXCEPT ![next.motion] = Proposed(body, ref)]
      BY <1>5, <2>1 DEF Fresh
    <3> HIDE DEF ref, body, RequestsInv, LapseStep
    <3>2. /\ motion' \in [Motion -> MotionRow]
          /\ motion'[m].status = "lapsed"
          /\ motion'[m].ref = motion[m].ref /\ motion'[m].body = motion[m].body
          /\ motion'[next.motion].status = "proposed" /\ motion'[next.motion].ref = ref
          /\ motion'[next.motion].body = body
          /\ \A n \in Motion : n # m /\ n # next.motion => motion'[n] = motion[n]
      BY <1>3, <1>4, <3>1, ReplacedMotion
    <3> QED
      BY <2>1, <3>1, <3>2
  <2>2. CASE body = Nobody
    <3>1. motion' = Settled(m, "lapsed")
      BY <1>5, <2>2
    <3> QED
      BY <1>4, <2>2, <3>1, SettledMotion
  <2> QED
    BY <2>1, <2>2
<1>8. TypeOK'
  BY <1>6, <1>7 DEF TypeOK, MotionsTypeOK, LiveMotion
<1>9. /\ \A q \in Requests : q # r => RequestInv(q)'
      /\ MotionsWaitedFor'
      /\ OneTaskPerApproval'
  <2>1. motion'[m].status \in Outcome
    BY <1>4, <1>7
  <2> QED
    BY <1>1, <1>6, <1>7, <2>1, MovesOn
<1>10. RequestInv(r)'
  <2> USE DEF RequestInv
  <2>1. AdmittedOne(r)'
    BY <1>2 DEF AdmittedOne, Routable
  <2>2. MatchesSteps(r)'
    BY <1>1, <1>2, <1>5, <1>6, RouteFacts, SMTT(40) DEF MatchesSteps, Current, LastStep
  <2>3. DifferentEyes(r)'
    <3>1. Nobody \notin Actors
      BY RequestsAssumption
    <3> QED
      BY <1>1, <1>5, <1>6, <3>1, SMTT(40) DEF DifferentEyes
  <2>4. RowsFit(r)'
    <3> SUFFICES ASSUME NEW j \in Steps(r) PROVE RowFits(r, j)'
      BY DEF RowsFit
    <3>1. CASE j # i
      <4>1. RowFits(r, j) /\ step'[r][j] = step[r][j]
            /\ step[r][j].motion \in Motion \cup {Nobody}
        BY <1>6, <3>1, RowType DEF RowsFit, StepRow
      <4> QED
        BY <1>2, <1>7, <4>1, SMTT(40) DEF RowFits
    <3>2. CASE j = i
      <4>1. next.office >= Route(r)[i]
        BY <1>1, <1>3, <1>5, RouteFacts, SMTT(40) DEF RowFits, Offices
      <4>2. i < Len(Route(r)) => body # Nobody
        BY <1>1, <1>2, <1>3, RouteFacts, SMTT(40) DEF AdmittedOne, Routable, RowFits, Authority
      <4>3. CASE body # Nobody
        <5>1. /\ cur' = cur /\ step'[r][i] = next /\ next.motion \in Motion
              /\ next.procedure = "collective" /\ next.body = BodyByLevel[r][next.office]
              /\ next.by = Nobody /\ next.body # Nobody
              /\ motion'[next.motion].ref = <<r, i>>
              /\ motion'[next.motion].status = "proposed"
          BY <1>5, <1>6, <1>7, <4>3, ZenonT(60)
        <5> HIDE DEF RequestsInv, LapseStep, body, row, up
        <5> QED
          BY <1>1, <1>2, <3>2, <4>1, <5>1 DEF RowFits
      <4>4. CASE body = Nobody
        <5>1. /\ cur' = cur /\ step'[r][i] = next /\ ~(i < Len(Route(r)))
              /\ next.procedure = "unilateral" /\ next.body = Nobody
              /\ next.motion = Nobody /\ next.by = Nobody
          BY <1>5, <1>6, <4>2, <4>4
        <5>2. i = cur[r] /\ i \in Nat
          BY <1>1
        <5> HIDE DEF RequestsInv, LapseStep, body, row, up, i
        <5> QED
          BY <3>2, <4>1, <5>1, <5>2 DEF RowFits
      <4> QED
        BY <4>3, <4>4
    <3> QED
      BY <3>1, <3>2
  <2>5. HasItsMotion(r)'
    BY <1>5, <1>6, <1>7, SMTT(40) DEF HasItsMotion, Current, LiveMotion
  <2> QED
    BY <2>1, <2>2, <2>3, <2>4, <2>5
<1> QED
  BY <1>8, <1>9, <1>10

\* Every outcome of every motion keeps the invariant.
LEMMA SettleInv ==
  ASSUME RequestsInv, NEW m \in Motion, motion[m].status \in LiveMotion,
         NEW o \in Outcome, Settle(m, o)
  PROVE  RequestsInv'
<1>1. late' = late \ {m} /\ UNCHANGED <<topic, drainVars>>
  BY DEF Settle
<1>2. CASE SettleAlone(m, o)
  BY <1>1, <1>2, SettleAloneInv
<1>3. ASSUME NEW r \in Requests, Decides(m, r), ApplyMotionToStep(m, r, o)
      PROVE  RequestsInv'
  <2>1. StepOf(m, r) = cur[r]
    BY <1>3, WhereItDecides
  <2>2. \/ CarryStep(m, r, cur[r]) \/ LapseStep(m, r, cur[r])
        \/ CarryRequest(m, r, cur[r]) \/ FailRequest(m, r, cur[r])
        \/ VetoRequest(m, r, cur[r]) \/ LapseRequest(m, r, cur[r])
    BY <1>3, <2>1 DEF ApplyMotionToStep
  <2> QED
    BY <1>1, <1>3, <2>2, CarryStepInv, LapseStepInv, ConcludingInv
<1> QED
  BY <1>2, <1>3 DEF Settle

\* tallyMotion, the sweep and vetoMotion settle a motion that is live.
LEMMA SettlingInv ==
  ASSUME RequestsInv, NEW m \in Motion, TallyMotion(m) \/ SweepMotion(m) \/ VetoMotion(m)
  PROVE  RequestsInv'
<1>1. motion[m].status \in LiveMotion
  BY DEF TallyMotion, SweepMotion, VetoMotion, MayTally, MaySweep, MayVeto, LiveMotion
<1>2. \E o \in Outcome : Settle(m, o)
  BY DEF TallyMotion, SweepMotion, VetoMotion, Countable, Outcome
<1> QED
  BY <1>1, <1>2, SettleInv

-----------------------------------------------------------------------------
(* submitRequest, and what other transactions do around the requests. *)

\* A motion is proposed, about a step or about something else.
LEMMA ProposedMotion ==
  ASSUME MotionsTypeOK, NEW k \in Motion, motion[k].status = "none",
         NEW b \in Bodies \cup {Nobody}, NEW ref \in StepRef \cup {Free},
         motion' = [motion EXCEPT ![k] = Proposed(b, ref)]
  PROVE  /\ motion' \in [Motion -> MotionRow]
         /\ motion'[k].status = "proposed" /\ motion'[k].ref = ref /\ motion'[k].body = b
         /\ \A n \in Motion : n # k => motion'[n] = motion[n]
<1>1. Proposed(b, ref) \in MotionRow
  BY DEF Proposed, MotionRow, LiveMotion
<1>2. /\ Proposed(b, ref).status = "proposed" /\ Proposed(b, ref).ref = ref
      /\ Proposed(b, ref).body = b
  BY DEF Proposed
<1> QED
  BY <1>1, <1>2 DEF MotionsTypeOK

\* submitRequest.
LEMMA SubmitRequestInv ==
  ASSUME RequestsInv, NEW r \in Requests, SubmitRequest(r)
  PROVE  RequestsInv'
<1> USE DEF RequestsInv, SubmitRequest, drainVars
<1> DEFINE row == step[r][1]
           ref == <<r, 1>>
<1>1. /\ cur[r] = 1 /\ step[r] = StepRows(r) /\ status[r] = "none"
      /\ 1 \in Steps(r) /\ Len(Route(r)) \in 1..2 /\ Steps(r) = 1..Len(Route(r))
  BY RouteFacts DEF RequestInv, AdmittedOne
<1>2. \A j \in Steps(r) : RowFits(r, j) /\ step[r][j] \in StepRow
  BY RowType DEF RequestInv, RowsFit
<1>3. \A j \in Steps(r) : /\ step[r][j].status = "pending" /\ step[r][j].motion = Nobody
                          /\ step[r][j].by = Nobody
                          /\ step[r][j].procedure =
                                IF r \in Collective THEN "collective" ELSE "unilateral"
                          /\ step[r][j].body = IF r \in Collective
                                THEN BodyByLevel[r][Route(r)[j]] ELSE Nobody
  BY <1>1 DEF StepRows
<1>4. status'[r] = "open" /\ \A q \in Requests : q # r => status'[q] = status[q]
  BY DEF TypeOK
<1>5. ref \in StepRef /\ MotionsTypeOK
  BY RequestsAssumption DEF TypeOK
<1>6. PICK next \in StepRow :
         /\ step' = [step EXCEPT ![r][1] = next] \/ (step' = step /\ next = row)
         /\ next.office = row.office /\ next.procedure = row.procedure
         /\ next.body = row.body /\ next.by = row.by
         /\ IF r \in Collective
            THEN /\ next.status = "motion_proposed" /\ next.motion \in Motion
                 /\ Fresh(next.motion)
                 /\ motion' = [motion EXCEPT ![next.motion] = Proposed(row.body, ref)]
            ELSE next = row /\ motion' = motion
  <2>1. CASE r \in Collective
    <3>1. PICK k \in Motion :
             /\ Fresh(k)
             /\ motion' = [motion EXCEPT ![k] = Proposed(row.body, ref)]
             /\ step' = [step EXCEPT ![r][1] = UnderMotion(row, k)]
      BY <2>1
    <3>2. /\ UnderMotion(row, k) \in StepRow
          /\ UnderMotion(row, k).status = "motion_proposed" /\ UnderMotion(row, k).motion = k
          /\ UnderMotion(row, k).office = row.office /\ UnderMotion(row, k).by = row.by
          /\ UnderMotion(row, k).procedure = row.procedure
          /\ UnderMotion(row, k).body = row.body
      BY <1>1, <1>2, UnderMotionRow
    <3> QED
      BY <2>1, <3>1, <3>2
  <2>2. CASE r \notin Collective
    <3>1. step' = step /\ motion' = motion
      BY <2>2
    <3>2. row \in StepRow
      BY <1>1, <1>2
    <3> QED
      BY <2>2, <3>1, <3>2
  <2> QED
    BY <2>1, <2>2
<1>7. /\ DOMAIN step' = Requests
      /\ \A q \in Requests : step'[q] \in [Steps(q) -> StepRow]
      /\ \A q \in Requests : q # r => step'[q] = step[q]
      /\ step'[r][1] = next
      /\ \A j \in Steps(r) : j # 1 => step'[r][j] = step[r][j]
  <2>1. CASE step' = [step EXCEPT ![r][1] = next]
    BY <1>1, <1>6, <2>1 DEF TypeOK
  <2>2. CASE step' = step /\ next = row
    BY <1>1, <1>6, <2>2 DEF TypeOK
  <2> QED
    BY <1>6, <2>1, <2>2
<1>8. /\ motion' \in [Motion -> MotionRow]
      /\ \A n \in Motion :
            \/ motion'[n] = motion[n]
            \/ /\ motion[n].status = "none" /\ motion'[n].status = "proposed"
               /\ motion'[n].ref = ref /\ next.motion = n
      /\ r \in Collective =>
            /\ next.motion \in Motion
            /\ motion'[next.motion].status = "proposed"
            /\ motion'[next.motion].ref = ref
            /\ motion'[next.motion].body = row.body
  <2>1. CASE r \in Collective
    <3>1. motion[next.motion].status = "none" /\ next.motion \in Motion
          /\ motion' = [motion EXCEPT ![next.motion] = Proposed(row.body, ref)]
          /\ row.body \in Bodies \cup {Nobody}
          /\ ref \in StepRef \cup {Free} /\ MotionsTypeOK
      BY <1>1, <1>2, <1>5, <1>6, <2>1 DEF Fresh, StepRow
    <3> HIDE DEF ref, row, RequestsInv, SubmitRequest
    <3>2. /\ motion' \in [Motion -> MotionRow]
          /\ motion'[next.motion].status = "proposed" /\ motion'[next.motion].ref = ref
          /\ motion'[next.motion].body = row.body
          /\ \A n \in Motion : n # next.motion => motion'[n] = motion[n]
      BY <3>1, ProposedMotion, ZenonT(60)
    <3> QED
      BY <3>1, <3>2
  <2>2. CASE r \notin Collective
    BY <1>5, <1>6, <2>2 DEF MotionsTypeOK
  <2> QED
    BY <2>1, <2>2
<1>9. TypeOK'
  BY <1>7, <1>8 DEF TypeOK, MotionsTypeOK, LiveMotion
<1>10. ASSUME NEW q \in Requests, q # r PROVE RequestInv(q)'
  BY <1>4, <1>7, <1>8, <1>10, RequestFrame
<1>11. RequestInv(r)'
  <2> USE DEF RequestInv
  <2>1. AdmittedOne(r)'
    BY <1>4 DEF AdmittedOne, Routable
  <2>2. MatchesSteps(r)'
    BY <1>1, <1>3, <1>4, <1>6, <1>7 DEF MatchesSteps, Current, LastStep
  <2>3. DifferentEyes(r)'
    <3>1. Nobody \notin Actors
      BY RequestsAssumption
    <3> QED
      BY <1>1, <1>3, <1>6, <1>7, <3>1 DEF DifferentEyes
  <2>4. RowsFit(r)'
    <3> SUFFICES ASSUME NEW j \in Steps(r) PROVE RowFits(r, j)'
      BY DEF RowsFit
    <3>1. r \in Collective => step[r][j].body # Nobody
      BY <1>1, <1>3 DEF Routable
    <3>2. CASE j # 1
      BY <1>1, <1>2, <1>3, <1>4, <1>7, <3>1, <3>2 DEF RowFits
    <3>3. CASE j = 1 /\ r \in Collective
      <4>1. /\ cur' = cur /\ step'[r][1] = next /\ next.motion \in Motion
            /\ next.procedure = "collective" /\ next.by = Nobody
            /\ next.office = row.office /\ next.body = row.body
            /\ motion'[next.motion].ref = <<r, 1>>
            /\ motion'[next.motion].status = "proposed"
        BY <1>1, <1>3, <1>6, <1>7, <1>8, <3>3
      <4> QED
        BY <1>1, <1>2, <1>3, <3>1, <3>3, <4>1 DEF RowFits
    <3>4. CASE j = 1 /\ r \notin Collective
      BY <1>1, <1>2, <1>3, <1>4, <1>6, <1>7, <3>4 DEF RowFits
    <3> QED
      BY <3>2, <3>3, <3>4
  <2>5. HasItsMotion(r)'
    BY <1>1, <1>3, <1>6, <1>7, <1>8, SMTT(40) DEF HasItsMotion, Current, LiveMotion
  <2> QED
    BY <2>1, <2>2, <2>3, <2>4, <2>5
<1>12. MotionsWaitedFor'
  <2> SUFFICES ASSUME NEW n \in Motion, NEW q \in Requests, NEW k \in 1..3,
                      motion'[n].status \in LiveMotion, motion'[n].ref = <<q, k>>
      PROVE  WaitedFor(n, q, k)'
    BY DEF MotionsWaitedFor
  <2>1. CASE motion'[n] = motion[n]
    <3>1. WaitedFor(n, q, k)
      BY <2>1 DEF MotionsWaitedFor
    <3>2. q # r
      BY <1>1, <3>1 DEF WaitedFor
    <3> QED
      BY <1>4, <1>7, <3>1, <3>2 DEF WaitedFor
  <2>2. CASE motion'[n] # motion[n]
    BY <1>1, <1>4, <1>7, <1>8, <2>2 DEF WaitedFor
  <2> QED
    BY <2>1, <2>2
<1>13. OneTaskPerApproval'
  <2>1. \A n \in Motion : motion'[n].status = "carried" /\ motion'[n].ref = Free
                          <=> motion[n].status = "carried" /\ motion[n].ref = Free
    BY <1>8
  <2> QED
    BY <1>1, <1>4, <2>1 DEF OneTaskPerApproval
<1> QED
  BY <1>9, <1>10, <1>11, <1>12, <1>13

\* A transaction that leaves the requests and their rows alone keeps the
\* invariant: a motion may be put, seconded or drained, the topic may close.
LEMMA QuietInv ==
  ASSUME RequestsInv, UNCHANGED <<status, cur, step, chain, drainVars>>,
         topic' \in {"active", "closing", "closed"},
         topic' = "active" => topic = "active",
         motion' \in [Motion -> MotionRow],
         late' \subseteq {m \in Motion : motion'[m].status \in LiveMotion},
         stalled' \subseteq Requests,
         art' \in [Artifacts -> {"draft", "for_review", "working", "final"}],
         \A m \in Motion :
            \/ motion'[m] = motion[m]
            \/ /\ motion[m].status = "none"
               /\ motion'[m].status = "proposed" /\ motion'[m].ref = Free
            \/ /\ motion[m].status \in LiveMotion
               /\ motion'[m].ref = motion[m].ref /\ motion'[m].body = motion[m].body
               /\ \/ motion'[m].status = "balloting"
                  \/ motion'[m].status = "lapsed" /\ topic' # "active"
  PROVE  RequestsInv'
<1> USE DEF RequestsInv, drainVars
<1>1. TypeOK'
  BY DEF TypeOK, MotionsTypeOK
<1>2. \A m \in Motion :
         motion[m].status # "none" =>
            /\ motion'[m].status # "none"
            /\ motion'[m].ref = motion[m].ref /\ motion'[m].body = motion[m].body
            /\ motion[m].status \in LiveMotion =>
                  motion'[m].status \in LiveMotion \/ topic' # "active"
  BY DEF LiveMotion
<1>3. ASSUME NEW q \in Requests PROVE RequestInv(q)'
  BY <1>2, RequestFrame
<1>4. MotionsWaitedFor'
  <2> SUFFICES ASSUME NEW m \in Motion, NEW r \in Requests, NEW i \in 1..3,
                      motion'[m].status \in LiveMotion, motion'[m].ref = <<r, i>>
      PROVE  WaitedFor(m, r, i)'
    BY DEF MotionsWaitedFor
  <2>1. motion'[m].ref # Free
    BY RequestsAssumption, MotionsAssumption
  <2>2. motion[m].status \in LiveMotion /\ motion[m].ref = <<r, i>>
    BY <2>1
  <2>3. WaitedFor(m, r, i)
    BY <2>2 DEF MotionsWaitedFor
  <2> QED
    BY <2>3 DEF WaitedFor
<1>5. OneTaskPerApproval'
  <2>1. \A m \in Motion :
           motion'[m].status = "carried" /\ motion'[m].ref = Free
           <=> motion[m].status = "carried" /\ motion[m].ref = Free
    BY DEF LiveMotion
  <2> QED
    BY <2>1 DEF OneTaskPerApproval
<1> QED
  BY <1>1, <1>3, <1>4, <1>5

\* The operations on motions that decide nothing, and the topic's phases.
LEMMA AroundInv ==
  ASSUME RequestsInv, UNCHANGED requestVars,
         \/ \E m \in Motion, b \in Bodies : ProposeMotion(m, b)
         \/ \E m \in Motion : SecondMotion(m) \/ MotionDeadline(m) \/ DrainMotion(m)
         \/ Freeze \/ Seal
  PROVE  RequestsInv'
<1> USE DEF requestVars
<1>1. MotionsTypeOK /\ stalled' \subseteq Requests
      /\ art' \in [Artifacts -> {"draft", "for_review", "working", "final"}]
      /\ UNCHANGED <<status, cur, step, chain, drainVars>>
  BY DEF RequestsInv, TypeOK
<1>2. ASSUME NEW m \in Motion, NEW b \in Bodies, ProposeMotion(m, b) PROVE RequestsInv'
  <2>1. motion[m].status = "none" /\ motion' = [motion EXCEPT ![m] = Proposed(b, Free)]
        /\ Free \in StepRef \cup {Free} /\ b \in Bodies \cup {Nobody}
        /\ UNCHANGED <<topic, late>>
    BY <1>2 DEF ProposeMotion, Fresh
  <2>2. /\ motion' \in [Motion -> MotionRow]
        /\ motion'[m].status = "proposed" /\ motion'[m].ref = Free
        /\ \A n \in Motion : n # m => motion'[n] = motion[n]
    BY <1>1, <2>1, ProposedMotion
  <2>3. late' \subseteq {n \in Motion : motion'[n].status \in LiveMotion}
    BY <1>1, <2>1, <2>2 DEF MotionsTypeOK, LiveMotion
  <2> QED
    BY <1>1, <2>1, <2>2, <2>3, QuietInv DEF MotionsTypeOK
<1>3. ASSUME NEW m \in Motion, SecondMotion(m) PROVE RequestsInv'
  <2>1. motion[m].status \in LiveMotion /\ motion[m] \in MotionRow
        /\ motion' = [motion EXCEPT ![m].status = "balloting"] /\ UNCHANGED <<topic, late>>
    BY <1>1, <1>3 DEF SecondMotion, LiveMotion, MotionsTypeOK
  <2>2. /\ motion' \in [Motion -> MotionRow]
        /\ motion'[m].status = "balloting"
        /\ motion'[m].ref = motion[m].ref /\ motion'[m].body = motion[m].body
        /\ \A n \in Motion : n # m => motion'[n] = motion[n]
    BY <1>1, <2>1 DEF MotionsTypeOK, MotionRow, LiveMotion
  <2>3. late' \subseteq {n \in Motion : motion'[n].status \in LiveMotion}
    BY <1>1, <2>1, <2>2 DEF MotionsTypeOK, LiveMotion
  <2> QED
    BY <1>1, <2>1, <2>2, <2>3, QuietInv DEF MotionsTypeOK
<1>4. ASSUME NEW m \in Motion, MotionDeadline(m) PROVE RequestsInv'
  BY <1>1, <1>4, QuietInv DEF MotionDeadline, MotionsTypeOK
<1>5. ASSUME NEW m \in Motion, DrainMotion(m) PROVE RequestsInv'
  <2>1. motion[m].status \in LiveMotion /\ motion' = Settled(m, "lapsed")
        /\ late' = late \ {m} /\ UNCHANGED topic /\ topic = "closing"
    BY <1>5 DEF DrainMotion
  <2>2. /\ motion' \in [Motion -> MotionRow]
        /\ motion'[m].status = "lapsed"
        /\ motion'[m].ref = motion[m].ref /\ motion'[m].body = motion[m].body
        /\ \A n \in Motion : n # m => motion'[n] = motion[n]
    BY <1>1, <2>1 DEF MotionsTypeOK, MotionRow, Outcome, Settled
  <2>3. late' \subseteq {n \in Motion : motion'[n].status \in LiveMotion}
    BY <1>1, <2>1, <2>2 DEF MotionsTypeOK
  <2> QED
    BY <1>1, <2>1, <2>2, <2>3, QuietInv
<1>6. CASE Freeze \/ Seal
  BY <1>1, <1>6, QuietInv DEF Freeze, Seal, motionVars, MotionsTypeOK
<1> QED
  BY <1>2, <1>3, <1>4, <1>5, <1>6

\* A deadline passes, or the board puts an artifact up for review.
LEMMA OutsideInv ==
  ASSUME RequestsInv, \/ \E r \in Requests : StepDeadline(r)
               \/ \E x \in Artifacts : PutUp(x)
  PROVE  RequestsInv'
<1>1. MotionsTypeOK /\ stalled \subseteq Requests
      /\ art \in [Artifacts -> {"draft", "for_review", "working", "final"}]
  BY DEF RequestsInv, TypeOK
<1>2. /\ UNCHANGED <<topic, motion, late, status, cur, step, chain, drainVars>>
      /\ stalled' \subseteq Requests
      /\ art' \in [Artifacts -> {"draft", "for_review", "working", "final"}]
  BY <1>1 DEF StepDeadline, PutUp, motionVars, drainVars
<1> QED
  BY <1>1, <1>2, QuietInv DEF MotionsTypeOK

-----------------------------------------------------------------------------
(* The invariant holds. *)

\* No request has been submitted, and there are no motions.
LEMMA InitInv ==
  ASSUME Init
  PROVE  RequestsInv
<1> USE DEF Init, MotionsInit
<1>1. ASSUME NEW r \in Requests
      PROVE  /\ 1 \in Steps(r)
             /\ StepRows(r) \in [Steps(r) -> StepRow]
             /\ \A i \in Steps(r) :
                   /\ StepRows(r)[i].office = Route(r)[i]
                   /\ StepRows(r)[i].status = "pending" /\ StepRows(r)[i].by = Nobody
                   /\ StepRows(r)[i].motion = Nobody
                   /\ StepRows(r)[i].procedure =
                         IF r \in Collective THEN "collective" ELSE "unilateral"
                   /\ StepRows(r)[i].body = IF r \in Collective
                         THEN BodyByLevel[r][Route(r)[i]] ELSE Nobody
  <2>1. \A i \in Steps(r) : BodyByLevel[r][Route(r)[i]] \in Bodies \cup {Nobody}
    BY RouteFacts, RequestsAssumption
  <2>2. /\ 1 \in Steps(r) /\ DOMAIN StepRows(r) = Steps(r)
        /\ StepRows(r) = [i \in Steps(r) |-> StepRows(r)[i]]
        /\ \A i \in Steps(r) : Route(r)[i] \in Offices
    BY RouteFacts, SMTT(40) DEF StepRows
  <2>3. ASSUME NEW i \in Steps(r)
        PROVE  StepRows(r)[i] =
                 [office |-> Route(r)[i], status |-> "pending", motion |-> Nobody,
                  by |-> Nobody,
                  procedure |-> IF r \in Collective THEN "collective" ELSE "unilateral",
                  body |-> IF r \in Collective THEN BodyByLevel[r][Route(r)[i]] ELSE Nobody]
    BY DEF StepRows
  <2>4. \A i \in Steps(r) : StepRows(r)[i] \in StepRow
    BY <2>1, <2>2, <2>3 DEF StepRow, StepStatus
  <2> QED
    BY <2>2, <2>3, <2>4
<1>2. \A m \in Motion : motion[m].status = "none" /\ motion[m] \in MotionRow
  BY DEF MotionRow
<1>3. TypeOK
  BY <1>1, <1>2 DEF TypeOK, MotionsTypeOK
<1>4. ASSUME NEW r \in Requests PROVE RequestInv(r)
  <2>1. cur[r] = 1 /\ status[r] = "none" /\ step[r] = StepRows(r)
        /\ Steps(r) = 1..Len(Route(r)) /\ Nobody \notin Actors
        /\ \A i \in Steps(r) : Route(r)[i] \in Offices
    BY RouteFacts, RequestsAssumption
  <2>2. MatchesSteps(r)
    BY <1>1, <2>1 DEF MatchesSteps, Current
  <2>3. DifferentEyes(r)
    BY <1>1, <2>1 DEF DifferentEyes
  <2>4. RowsFit(r)
    BY <1>1, <2>1 DEF RowsFit, RowFits, Offices
  <2> QED
    BY <2>1, <2>2, <2>3, <2>4 DEF RequestInv, AdmittedOne
<1>5. MotionsWaitedFor /\ OneTaskPerApproval
  BY <1>2, RequestsAssumption DEF MotionsWaitedFor, OneTaskPerApproval, LiveMotion
<1> QED
  BY <1>3, <1>4, <1>5 DEF RequestsInv

\* The drain of a request begins or is rolled back: no row changes.
LEMMA DrainStartsInv ==
  ASSUME RequestsInv, NEW r \in Requests, DrainSteps(r) \/ DrainBack(r)
  PROVE  RequestsInv'
<1> USE DEF RequestsInv
<1>1. UNCHANGED <<topic, motion, late, status, cur, step, stalled, art, chain>>
  BY DEF DrainSteps, DrainBack, motionVars
<1>2. draining' \subseteq Requests /\ held' \subseteq StepRef
  <2>1. CASE DrainSteps(r)
    <3>1. Steps(r) \subseteq 1..3
      BY RouteFacts
    <3> QED
      BY <2>1, <3>1, RequestsAssumption DEF DrainSteps, TypeOK
  <2>2. CASE DrainBack(r)
    BY <2>2 DEF DrainBack, DrainEnds, TypeOK
  <2> QED
    BY <2>1, <2>2
<1>3. TypeOK'
  BY <1>1, <1>2 DEF TypeOK, MotionsTypeOK
<1>4. \A q \in Requests : RequestInv(q)'
  BY <1>1, RequestFrame
<1>5. MotionsWaitedFor' /\ OneTaskPerApproval'
  BY <1>1 DEF MotionsWaitedFor, WaitedFor, OneTaskPerApproval
<1> QED
  BY <1>3, <1>4, <1>5

\* Every step keeps what the requests have.
LEMMA NextRequestsInv ==
  ASSUME IInv, [Next]_vars
  PROVE  RequestsInv'
<1> USE DEF IInv
<1>1. CASE \E r \in Requests : SubmitRequest(r)
  BY <1>1, SubmitRequestInv
<1>2. CASE \E r \in Requests, a \in Actors :
              \/ EndorseStep(r, a) \/ ApproveRequest(r, a)
              \/ ReturnRequest(r, a) \/ RejectRequest(r, a)
  BY <1>2, EndorseStepInv, ApproveRequestInv, ReturnRequestInv, RejectRequestInv
<1>3. CASE \E r \in Requests : EscalateStep(r) \/ ExhaustStep(r) \/ DrainRequest(r)
  BY <1>3, EscalateStepInv, ExhaustStepInv, DrainRequestInv
<1>4. CASE \E m \in Motion : TallyMotion(m) \/ SweepMotion(m) \/ VetoMotion(m)
  BY <1>4, SettlingInv
<1>5. CASE /\ UNCHANGED requestVars
           /\ \/ \E m \in Motion, b \in Bodies : ProposeMotion(m, b)
              \/ \E m \in Motion : SecondMotion(m) \/ MotionDeadline(m) \/ DrainMotion(m)
              \/ Freeze \/ Seal
  BY <1>5, AroundInv
<1>6. CASE \/ \E r \in Requests : StepDeadline(r)
           \/ \E x \in Artifacts : PutUp(x)
  BY <1>6, OutsideInv
<1>8. CASE \E r \in Requests : DrainSteps(r) \/ DrainBack(r)
  BY <1>8, DrainStartsInv
<1>7. CASE UNCHANGED vars
  <2>1. /\ UNCHANGED <<topic, motion, late, status, cur, step, stalled, art, chain, drainVars>>
    BY <1>7 DEF vars, motionVars, requestVars, drainVars
  <2>2. MotionsTypeOK /\ stalled \subseteq Requests
        /\ art \in [Artifacts -> {"draft", "for_review", "working", "final"}]
    BY DEF RequestsInv, TypeOK
  <2> QED
    BY <2>1, <2>2, QuietInv DEF MotionsTypeOK
<1> QED
  BY <1>1, <1>2, <1>3, <1>4, <1>5, <1>6, <1>7, <1>8 DEF Next

-----------------------------------------------------------------------------
(* What a drain holds stays pending. *)

\* A step that does not touch the rows of a request, nor the locks on them.
LEMMA DrainFrame ==
  ASSUME NEW q \in Requests, DrainFits(q),
         status'[q] = status[q], cur'[q] = cur[q], step'[q] = step[q],
         q \in draining' <=> q \in draining,
         \A i \in Steps(q) : <<q, i>> \in held' <=> <<q, i>> \in held,
         cur[q] \in Steps(q)
  PROVE  DrainFits(q)'
  BY DEF DrainFits, Current, LapsedToOfficers

\* A step that changes the current row of a request which the drain does not
\* hold, and leaves the request where it is or ends it.
LEMMA DrainSpared ==
  ASSUME DrainsFit, NEW r \in Requests, cur[r] \in Steps(r), UNCHANGED drainVars,
         topic' = topic, cur' = cur,
         \A q \in Requests : q # r => status'[q] = status[q] /\ step'[q] = step[q],
         <<r, cur[r]>> \notin held,
         \A i \in Steps(r) : i # cur[r] => step'[r][i] = step[r][i],
         status[r] = "open",
         status'[r] # "none",
         status'[r] = "open" => Current(r)'.status # "pending" \/ LapsedToOfficers(r)',
         \A q \in Requests : cur[q] \in Steps(q)
  PROVE  DrainsFit'
<1>1. ASSUME NEW q \in Requests, q # r PROVE DrainFits(q)'
  BY <1>1, DrainFrame DEF DrainsFit, drainVars
<1>2. DrainFits(r)'
  BY DEF DrainsFit, DrainFits, drainVars, Current
<1> QED
  BY <1>1, <1>2 DEF DrainsFit, drainVars

\* A request that is not being drained may do as it likes.
LEMMA DrainAbsent ==
  ASSUME DrainsFit, NEW r \in Requests, r \notin draining, UNCHANGED drainVars,
         topic' = "active" => topic = "active",
         \A q \in Requests : q # r => /\ status'[q] = status[q] /\ cur'[q] = cur[q]
                                       /\ step'[q] = step[q],
         \A q \in Requests : cur[q] \in Steps(q)
  PROVE  DrainsFit'
<1>1. ASSUME NEW q \in Requests, q # r PROVE DrainFits(q)'
  BY <1>1, DrainFrame DEF DrainsFit, drainVars
<1>2. DrainFits(r)'
  BY DEF DrainsFit, DrainFits, drainVars
<1> QED
  BY <1>1, <1>2 DEF DrainsFit, drainVars

\* The row a live motion decides is not pending, so no drain holds it.
LEMMA VotedNotHeld ==
  ASSUME IInv, NEW m \in Motion, NEW r \in Requests,
         motion[m].status \in LiveMotion, Decides(m, r)
  PROVE  <<r, cur[r]>> \notin held /\ cur[r] \in Steps(r)
<1>1. step[r][cur[r]].procedure = "collective" /\ status[r] = "open"
  BY WhereItDecides DEF Decides, IInv
<1>2. cur[r] \in Steps(r) /\ Current(r) = step[r][cur[r]]
  BY CurrentType DEF IInv, RequestsInv
<1>3. step[r][cur[r]].status = "motion_proposed"
  BY <1>1, <1>2 DEF IInv, RequestsInv, RequestInv, HasItsMotion
<1> QED
  BY <1>2, <1>3 DEF IInv, DrainsFit, DrainFits

\* A request moves on to its next step only while no drain is at it: the drain
\* would hold the row of that step.
LEMMA NextRowHeld ==
  ASSUME IInv, NEW r \in Requests, status[r] = "open", cur[r] < Len(Route(r)),
         <<r, cur[r] + 1>> \notin held
  PROVE  r \notin draining
<1>1. cur[r] + 1 \in Steps(r) /\ cur[r] + 1 > cur[r]
  BY CurrentType, RouteFacts DEF IInv, RequestsInv
<1> QED
  BY <1>1 DEF IInv, DrainsFit, DrainFits

\* What ends a request changes its current row alone.
LEMMA ConcludeSpares ==
  ASSUME IInv, NEW r \in Requests, status[r] = "open", <<r, cur[r]>> \notin held,
         NEW outcome \in Terminal, NEW s, NEW by, Conclude(r, cur[r], outcome, s, by),
         topic' = topic, UNCHANGED drainVars
  PROVE  DrainsFit'
<1>1. /\ TypeOK /\ DrainsFit /\ \A q \in Requests : cur[q] \in Steps(q)
  BY DEF IInv, RequestsInv, TypeOK
<1>2. /\ cur' = cur /\ status'[r] = outcome
      /\ \A q \in Requests : q # r => status'[q] = status[q]
  BY <1>1 DEF Conclude, TypeOK
<1>3. /\ \A q \in Requests : q # r => step'[q] = step[q]
      /\ \A i \in Steps(r) : i # cur[r] => step'[r][i] = step[r][i]
  <2> DEFINE row == Decided(step[r][cur[r]], s, by)
  <2>1. step' = [step EXCEPT ![r][cur[r]] = row]
    BY DEF Conclude
  <2> HIDE DEF row
  <2> QED
    BY <1>1, <2>1 DEF TypeOK
<1>4. status'[r] # "none" /\ status'[r] # "open"
  BY <1>2 DEF Terminal
<1> QED
  BY <1>1, <1>2, <1>3, <1>4, DrainSpared

\* decideStep waits for the rows it wants; the sweep has no drain beside it.
LEMMA OfficerSparesDrain ==
  ASSUME IInv, NEW r \in Requests,
         \/ \E a \in Actors : \/ EndorseStep(r, a) \/ ApproveRequest(r, a)
                               \/ ReturnRequest(r, a) \/ RejectRequest(r, a)
         \/ EscalateStep(r) \/ ExhaustStep(r)
  PROVE  DrainsFit'
<1>1. TypeOK /\ DrainsFit /\ \A q \in Requests : cur[q] \in Steps(q) /\ cur[q] \in Nat
  <2>1. TypeOK /\ DrainsFit
    BY DEF IInv, RequestsInv
  <2> QED
    BY <2>1 DEF TypeOK
<1>2. "approved" \in Terminal /\ "returned" \in Terminal /\ "rejected" \in Terminal
      /\ "escalation_exhausted" \in Terminal
  BY DEF Terminal
<1>3. ASSUME NEW a \in Actors, EndorseStep(r, a) PROVE DrainsFit'
  <2>1. r \notin draining
    BY <1>1, <1>3, NextRowHeld, CurrentType, RouteFacts DEF EndorseStep, MayDecide, LastStep
  <2>2. \A q \in Requests : q # r => /\ status'[q] = status[q] /\ cur'[q] = cur[q]
                                     /\ step'[q] = step[q]
    BY <1>1, <1>3 DEF EndorseStep, TypeOK
  <2> QED
    BY <1>1, <1>3, <2>1, <2>2, DrainAbsent DEF EndorseStep
<1>4. ASSUME NEW a \in Actors,
             ApproveRequest(r, a) \/ ReturnRequest(r, a) \/ RejectRequest(r, a)
      PROVE  DrainsFit'
  BY <1>2, <1>4, ConcludeSpares DEF ApproveRequest, ReturnRequest, RejectRequest, MayDecide
<1>5. CASE EscalateStep(r)
  <2>1. r \notin draining
    BY <1>1, <1>5 DEF EscalateStep, MaySweepStep, DrainsFit
  <2>2. \A q \in Requests : q # r => /\ status'[q] = status[q] /\ cur'[q] = cur[q]
                                     /\ step'[q] = step[q]
    BY <1>1, <1>5 DEF EscalateStep, TypeOK
  <2> QED
    BY <1>1, <1>5, <2>1, <2>2, DrainAbsent DEF EscalateStep
<1>6. CASE ExhaustStep(r)
  <2>1. <<r, cur[r]>> \notin held
    BY <1>1, <1>6 DEF ExhaustStep, MaySweepStep, DrainsFit, DrainFits
  <2> QED
    BY <1>2, <1>6, <2>1, ConcludeSpares DEF ExhaustStep, MaySweepStep
<1> QED
  BY <1>3, <1>4, <1>5, <1>6

\* applyMotionToStep waits for the next row, and finds its own one free.
LEMMA SettleSparesDrain ==
  ASSUME IInv, NEW m \in Motion, motion[m].status \in LiveMotion,
         NEW o \in Outcome, Settle(m, o)
  PROVE  DrainsFit'
<1>1. /\ TypeOK /\ DrainsFit /\ \A q \in Requests : cur[q] \in Steps(q)
      /\ topic' = topic /\ UNCHANGED drainVars
  BY DEF IInv, RequestsInv, TypeOK, Settle
<1>2. CASE SettleAlone(m, o)
  <2>1. UNCHANGED <<status, cur, step>>
    BY <1>2 DEF SettleAlone
  <2> QED
    BY <1>1, <2>1, DrainFrame DEF DrainsFit, drainVars
<1>3. ASSUME NEW r \in Requests, Decides(m, r), ApplyMotionToStep(m, r, o)
      PROVE  DrainsFit'
  <2>1. /\ StepOf(m, r) = cur[r] /\ status[r] = "open"
        /\ <<r, cur[r]>> \notin held /\ cur[r] \in Steps(r)
        /\ step[r][cur[r]].procedure = "collective"
    BY <1>3, WhereItDecides, VotedNotHeld DEF Decides, IInv
  <2>2. \/ CarryStep(m, r, cur[r]) \/ LapseStep(m, r, cur[r])
        \/ CarryRequest(m, r, cur[r]) \/ FailRequest(m, r, cur[r])
        \/ VetoRequest(m, r, cur[r]) \/ LapseRequest(m, r, cur[r])
    BY <1>3, <2>1 DEF ApplyMotionToStep
  <2>3. CASE CarryStep(m, r, cur[r])
    <3>1. r \notin draining
      BY <2>1, <2>3, NextRowHeld DEF CarryStep
    <3>2. \A q \in Requests : q # r => /\ status'[q] = status[q] /\ cur'[q] = cur[q]
                                       /\ step'[q] = step[q]
      BY <1>1, <2>3 DEF CarryStep, TypeOK
    <3> QED
      BY <1>1, <3>1, <3>2, DrainAbsent
  <2>4. CASE LapseStep(m, r, cur[r])
    <3> DEFINE row == step[r][cur[r]]
               up == row.office + 1
    <3>0. row \in StepRow
      BY <1>1, <2>1, RowType
    <3>1. PICK next :
             /\ step' = [step EXCEPT ![r][cur[r]] = next]
             /\ \/ next.status = "motion_proposed"
                \/ next.procedure = "unilateral" /\ r \in Collective
      <4>1. \/ step' = [step EXCEPT ![r][cur[r]] = OfficerStep(row, up)]
            \/ \E k \in Motion : step' =
                  [step EXCEPT ![r][cur[r]] = MotionStep(row, up, BodyByLevel[r][up], k)]
        BY <2>4 DEF LapseStep
      <4>2. /\ OfficerStep(row, up).procedure = "unilateral"
            /\ \A b, k : MotionStep(row, up, b, k).status = "motion_proposed"
        BY <3>0 DEF OfficerStep, MotionStep, StepRow
      <4>3. r \in Collective
        BY <2>1 DEF IInv, RequestsInv, RequestInv, RowsFit, RowFits
      <4> QED
        BY <4>1, <4>2, <4>3
    <3>2. /\ \A q \in Requests : q # r => step'[q] = step[q]
          /\ \A i \in Steps(r) : i # cur[r] => step'[r][i] = step[r][i]
          /\ step'[r][cur[r]] = next
      BY <1>1, <2>1, <3>1 DEF TypeOK
    <3>3. cur' = cur /\ status' = status
      BY <2>4 DEF LapseStep
    <3>4. Current(r)'.status # "pending" \/ LapsedToOfficers(r)'
      BY <3>1, <3>2, <3>3 DEF Current, LapsedToOfficers
    <3> QED
      BY <1>1, <2>1, <3>2, <3>3, <3>4, DrainSpared
  <2>5. CASE \/ CarryRequest(m, r, cur[r]) \/ FailRequest(m, r, cur[r])
             \/ VetoRequest(m, r, cur[r]) \/ LapseRequest(m, r, cur[r])
    <3>1. \E outcome \in Terminal, s \in StepStatus : Conclude(r, cur[r], outcome, s, m)
      BY <2>5 DEF CarryRequest, FailRequest, VetoRequest, LapseRequest, Terminal, StepStatus
    <3> QED
      BY <1>1, <2>1, <3>1, ConcludeSpares
  <2> QED
    BY <2>2, <2>3, <2>4, <2>5
<1> QED
  BY <1>2, <1>3 DEF Settle

\* The three statements of a drain themselves.
LEMMA DrainKeepsFit ==
  ASSUME IInv, NEW r \in Requests, DrainSteps(r) \/ DrainRequest(r) \/ DrainBack(r)
  PROVE  DrainsFit'
<1>1. /\ TypeOK /\ DrainsFit /\ \A q \in Requests : cur[q] \in Steps(q)
  BY DEF IInv, RequestsInv, TypeOK
<1>2. topic' = topic /\ cur' = cur
  BY DEF DrainSteps, DrainRequest, DrainBack
<1>3. topic' = "active" => draining' = {}
  BY <1>1, <1>2 DEF DrainSteps, DrainRequest, DrainBack, DrainEnds, DrainsFit
<1>4. ASSUME NEW q \in Requests, q # r PROVE DrainFits(q)'
  <2>1. /\ status'[q] = status[q] /\ step'[q] = step[q]
        /\ q \in draining' <=> q \in draining
        /\ \A i \in Steps(q) : <<q, i>> \in held' <=> <<q, i>> \in held
    BY <1>1, <1>4 DEF DrainSteps, DrainRequest, DrainBack, DrainEnds, TypeOK
  <2> QED
    BY <1>1, <1>2, <1>4, <2>1, DrainFrame DEF DrainsFit
<1>5. CASE DrainSteps(r)
  <2>1. /\ MatchesSteps(r) /\ status[r] = "open" /\ cur[r] \in Steps(r)
        /\ Steps(r) = 1..Len(Route(r)) /\ Len(Route(r)) \in Nat /\ cur[r] \in Nat
    BY <1>1, <1>5, RouteFacts DEF IInv, RequestsInv, RequestInv, DrainSteps
  <2>2. \A i \in Steps(r) : i > cur[r] => step[r][i].status = "pending"
    BY <2>1 DEF MatchesSteps
  <2>3. /\ r \in draining' /\ status' = status /\ step' = step
        /\ \A i \in Steps(r) : <<r, i>> \in held' <=>
              <<r, i>> \in held \/ step[r][i].status = "pending"
    BY <1>5 DEF DrainSteps
  <2>4. \A i \in Steps(r) : <<r, i>> \in held => step[r][i].status = "pending"
    BY <1>1 DEF DrainsFit, DrainFits
  <2>5. DrainFits(r)'
    BY <1>2, <2>1, <2>2, <2>3, <2>4 DEF DrainFits, Current
  <2> QED
    BY <1>3, <1>4, <2>5 DEF DrainsFit
<1>6. CASE DrainRequest(r) \/ DrainBack(r)
  <2>1. r \notin draining' /\ \A i \in Steps(r) : <<r, i>> \notin held'
    BY <1>6 DEF DrainRequest, DrainBack, DrainEnds
  <2> QED
    BY <1>3, <1>4, <2>1 DEF DrainsFit, DrainFits
<1> QED
  BY <1>5, <1>6

\* No step touches a row that a drain holds.
LEMMA NextDrainsFit ==
  ASSUME IInv, [Next]_vars
  PROVE  DrainsFit'
<1>1. /\ TypeOK /\ DrainsFit /\ \A q \in Requests : cur[q] \in Steps(q)
  BY DEF IInv, RequestsInv, TypeOK
<1>2. CASE \E r \in Requests : SubmitRequest(r)
  <2>1. PICK r \in Requests : SubmitRequest(r)
    BY <1>2
  <2>2. r \notin draining
    BY <1>1, <2>1 DEF SubmitRequest, DrainsFit, DrainFits
  <2>3. /\ UNCHANGED <<topic, cur, drainVars>>
        /\ \A q \in Requests : q # r => status'[q] = status[q] /\ step'[q] = step[q]
    BY <1>1, <2>1 DEF SubmitRequest, TypeOK
  <2> QED
    BY <1>1, <2>2, <2>3, DrainAbsent
<1>3. CASE \E r \in Requests :
              \/ \E a \in Actors : \/ EndorseStep(r, a) \/ ApproveRequest(r, a)
                                    \/ ReturnRequest(r, a) \/ RejectRequest(r, a)
              \/ EscalateStep(r) \/ ExhaustStep(r)
  BY <1>3, OfficerSparesDrain
<1>4. CASE \E r \in Requests : DrainSteps(r) \/ DrainRequest(r) \/ DrainBack(r)
  BY <1>4, DrainKeepsFit
<1>5. ASSUME NEW m \in Motion, TallyMotion(m) \/ SweepMotion(m) \/ VetoMotion(m)
      PROVE  DrainsFit'
  <2>1. motion[m].status \in LiveMotion
    BY <1>5 DEF TallyMotion, SweepMotion, VetoMotion, MayTally, MaySweep, MayVeto, LiveMotion
  <2>2. \E o \in Outcome : Settle(m, o)
    BY <1>5 DEF TallyMotion, SweepMotion, VetoMotion, Countable, Outcome
  <2> QED
    BY <2>1, <2>2, SettleSparesDrain
<1>6. CASE /\ UNCHANGED <<status, cur, step, drainVars>>
           /\ topic' = "active" => topic = "active"
  BY <1>1, <1>6, DrainFrame DEF DrainsFit, drainVars
<1>7. CASE \/ UNCHANGED vars
           \/ \E r \in Requests : StepDeadline(r)
           \/ \E x \in Artifacts : PutUp(x)
  BY <1>6, <1>7 DEF vars, requestVars, StepDeadline, PutUp
<1>8. CASE /\ UNCHANGED requestVars
           /\ \/ \E m \in Motion, b \in Bodies : ProposeMotion(m, b)
              \/ \E m \in Motion : SecondMotion(m) \/ MotionDeadline(m) \/ DrainMotion(m)
              \/ Freeze \/ Seal
  BY <1>6, <1>8 DEF requestVars, ProposeMotion, SecondMotion, MotionDeadline, DrainMotion,
     Freeze, Seal
<1> QED
  BY <1>2, <1>3, <1>4, <1>5, <1>7, <1>8 DEF Next

\* The invariant holds in every reachable state.
THEOREM AlwaysInv == Spec => []IInv
<1>1. Init => IInv
  BY InitInv DEF IInv, DrainsFit, DrainFits, Init
<1>2. IInv /\ [Next]_vars => IInv'
  BY NextRequestsInv, NextDrainsFit DEF IInv
<1> QED
  BY <1>1, <1>2, PTL DEF Spec

\* Every row is as its CHECK constraints and the code allow.
THEOREM RowsHaveTheirTypes == Spec => []TypeOK
<1>1. IInv => TypeOK
  BY DEF IInv, RequestsInv
<1> QED
  BY <1>1, AlwaysInv, PTL

\* A request and its steps agree, whatever decides, sweeps or drains them.
THEOREM RequestsMatchTheirSteps == Spec => []RequestMatchesSteps
<1>1. IInv => RequestMatchesSteps
  BY DEF IInv, RequestsInv, RequestInv, RequestMatchesSteps
<1> QED
  BY <1>1, AlwaysInv, PTL

\* A step waits for a motion that will decide it, and every live motion of a
\* step is waited for.
THEOREM StepsHaveTheirMotions == Spec => []StepHasItsMotion
<1>1. IInv => StepHasItsMotion
  BY DEF IInv, RequestsInv, RequestInv, MotionsWaitedFor, StepHasItsMotion
<1> QED
  BY <1>1, AlwaysInv, PTL

\* Nobody endorses his own request, or two steps of a counter-signed one.
THEOREM FourEyesAlways == Spec => []FourEyes
<1>1. IInv => FourEyes
  BY DEF IInv, RequestsInv, RequestInv, FourEyes
<1> QED
  BY <1>1, AlwaysInv, PTL

\* An approval posts or defers its one task, and nothing else does.
THEOREM OneTaskPerApprovalAlways == Spec => []OneTaskPerApproval
<1>1. IInv => OneTaskPerApproval
  BY DEF IInv, RequestsInv
<1> QED
  BY <1>1, AlwaysInv, PTL

\* A body endorses two steps of a counter-signed request only where the first
\* of them lapsed and was carried up: a row of a collective route holds the body
\* of its office, and no two offices of a routable one share a body.
THEOREM BodiesAreDistinct == Spec => []DistinctBodies
<1>1. ASSUME IInv PROVE DistinctBodies
  <2> SUFFICES ASSUME NEW r \in Requests, NEW i \in Steps(r), NEW j \in Steps(r),
                      Shape[r] = "counter_sign",
                      step[r][i].status = "endorsed", step[r][j].status = "endorsed",
                      step[r][i].body = step[r][j].body, step[r][i].body # Nobody,
                      i < j
               PROVE  step[r][i].office > Route(r)[i]
    BY DEF DistinctBodies
  <2>1. RequestInv(r) /\ RowFits(r, i) /\ RowFits(r, j)
        /\ step[r][i] \in StepRow /\ step[r][j] \in StepRow
    BY <1>1, RowType DEF IInv, RequestsInv, RequestInv, RowsFit
  <2>2. /\ i = 1 /\ j = 2 /\ Route(r)[1] = 1 /\ Route(r)[2] = 2
    BY RouteFacts
  <2>3. Routable(r)
    <3>1. CASE status[r] = "none"
      BY <2>1, <3>1 DEF RequestInv, AdmittedOne, StepRows
    <3> QED
      BY <2>1, <3>1 DEF RequestInv, AdmittedOne
  <2>4. /\ r \in Collective
        /\ step[r][i].body = BodyByLevel[r][step[r][i].office]
        /\ step[r][j].body = BodyByLevel[r][step[r][j].office]
        /\ step[r][i].office >= 1 /\ step[r][j].office >= 2
        /\ step[r][i].office \in 0..2 /\ step[r][j].office \in 0..2
    BY <2>1, <2>2 DEF RowFits, StepRow, Offices
  <2>5. step[r][j].office = 2
    BY <2>4
  <2>6. BodyByLevel[r][1] # BodyByLevel[r][2]
    BY <2>2, <2>3, <2>4 DEF Routable
  <2> QED
    BY <2>2, <2>4, <2>5, <2>6
<1> QED
  BY <1>1, AlwaysInv, PTL

-----------------------------------------------------------------------------
(* What a step does to the requests: one of them moves, or none does. *)

Office(r) == Current(r).office

\* The ways a request moves.
Moves(r) ==
    \/ /\ status[r] = "none" /\ status'[r] = "open"
       /\ cur'[r] = cur[r] /\ Office(r)' = Office(r)
    \/ /\ status[r] = "open" /\ status'[r] = "open"
       /\ cur[r] < Len(Route(r)) /\ cur'[r] = cur[r] + 1
       /\ Office(r)' = Route(r)[cur[r] + 1]
    \/ /\ status[r] = "open" /\ status'[r] = "open"
       /\ cur'[r] = cur[r] /\ Office(r) < Authority /\ Office(r)' = Office(r) + 1
    \/ /\ status[r] = "open" /\ status'[r] \in Terminal
       /\ cur'[r] = cur[r] /\ Office(r)' = Office(r)
       /\ status'[r] = "approved" => LastStep(r)
       /\ status'[r] = "escalation_exhausted" => Office(r) = Authority

OthersStay(r) ==
    \A q \in Requests : q # r => /\ status'[q] = status[q] /\ cur'[q] = cur[q]
                                 /\ step'[q] = step[q]

\* The artifacts a step leaves as they are, but for one that it puts up.
NoneLeavesReview == \A x \in Artifacts : art'[x] # art[x] => art[x] = "draft"
OneLeavesReview(r) ==
    \A x \in Artifacts : art'[x] # art[x] =>
        /\ x = Subject[r] /\ art[x] = "for_review" /\ status[r] = "open"
        /\ status'[r] = IF art'[x] = "final" THEN "approved" ELSE "returned"

OneMoves(r) == Moves(r) /\ OthersStay(r) /\ OneLeavesReview(r)
NoneMoves == UNCHANGED <<status, cur, step>> /\ NoneLeavesReview

\* A transaction that concludes a request.
LEMMA ConcludeMoves ==
  ASSUME TypeOK, NEW r \in Requests, status[r] = "open",
         NEW outcome \in Terminal, NEW s \in StepStatus,
         NEW by \in Actors \cup Motion \cup {System, Nobody},
         Conclude(r, cur[r], outcome, s, by),
         outcome = "approved" => LastStep(r),
         outcome = "escalation_exhausted" => Office(r) = Authority,
         \/ art' = art
         \/ outcome = "approved" /\ ResolveArtifact(r, "final")
         \/ outcome = "returned" /\ ResolveArtifact(r, "working")
  PROVE  OneMoves(r)
<1> DEFINE i == cur[r]
<1>1. /\ i \in Steps(r) /\ cur' = cur
      /\ status'[r] = outcome /\ \A q \in Requests : q # r => status'[q] = status[q]
      /\ step' = [step EXCEPT ![r][i] = Decided(@, s, by)]
  BY CurrentType DEF Conclude, TypeOK
<1>2. /\ \A q \in Requests : q # r => step'[q] = step[q]
      /\ step'[r][i].office = step[r][i].office
  <2> HIDE DEF i
  <2> QED
    BY <1>1, DecideRow, ZenonT(60)
<1>3. Office(r)' = Office(r)
  BY <1>1, <1>2 DEF Office, Current
<1>4. Moves(r) /\ OthersStay(r)
  BY <1>1, <1>2, <1>3 DEF Moves, OthersStay
<1>5. OneLeavesReview(r)
  BY <1>1 DEF OneLeavesReview, ResolveArtifact, TypeOK
<1> QED
  BY <1>4, <1>5 DEF OneMoves

\* decideStep.
LEMMA OfficerMoves ==
  ASSUME RequestsInv, NEW r \in Requests, NEW a \in Actors,
         \/ EndorseStep(r, a) \/ ApproveRequest(r, a)
         \/ ReturnRequest(r, a) \/ RejectRequest(r, a)
  PROVE  OneMoves(r)
<1>1. TypeOK /\ status[r] = "open" /\ a \in Actors \cup Motion \cup {System, Nobody}
  BY DEF RequestsInv, EndorseStep, ApproveRequest, ReturnRequest, RejectRequest, MayDecide
<1>2. "endorsed" \in StepStatus /\ "returned" \in StepStatus /\ "rejected" \in StepStatus
      /\ "approved" \in Terminal /\ "returned" \in Terminal /\ "rejected" \in Terminal
  BY DEF StepStatus, Terminal
<1>3. CASE EndorseStep(r, a)
  <2> DEFINE i == cur[r]
  <2>1. /\ i \in Steps(r) /\ i + 1 \in Steps(r) /\ i < Len(Route(r)) /\ i \in 1..2
        /\ RowFits(r, i + 1)
    BY <1>1, <1>3, CurrentType, RouteFacts
       DEF EndorseStep, LastStep, RequestsInv, RequestInv, RowsFit
  <2>2. step' = [step EXCEPT ![r][i] = Decided(@, "endorsed", a)]
    BY <1>3 DEF EndorseStep
  <2>3. /\ \A q \in Requests : q # r => step'[q] = step[q]
        /\ step'[r][i + 1] = step[r][i + 1]
    <3> HIDE DEF i
    <3> QED
      BY <1>1, <1>2, <2>1, <2>2, DecideRow
  <2>4. /\ UNCHANGED <<status, art>> /\ cur'[r] = i + 1
        /\ \A q \in Requests : q # r => cur'[q] = cur[q]
    BY <1>1, <1>3 DEF EndorseStep, TypeOK
  <2>5. Office(r)' = Route(r)[i + 1]
    BY <2>1, <2>3, <2>4 DEF Office, Current, RowFits
  <2> QED
    BY <1>1, <2>1, <2>3, <2>4, <2>5 DEF OneMoves, Moves, OthersStay, OneLeavesReview
<1>4. CASE ApproveRequest(r, a)
  BY <1>1, <1>2, <1>4, ConcludeMoves DEF ApproveRequest
<1>5. CASE ReturnRequest(r, a)
  BY <1>1, <1>2, <1>5, ConcludeMoves DEF ReturnRequest
<1>6. CASE RejectRequest(r, a)
  BY <1>1, <1>2, <1>6, ConcludeMoves DEF RejectRequest
<1> QED
  BY <1>3, <1>4, <1>5, <1>6

\* submitRequest.
LEMMA SubmitMoves ==
  ASSUME RequestsInv, NEW r \in Requests, SubmitRequest(r)
  PROVE  OneMoves(r)
<1>1. TypeOK /\ status[r] = "none" /\ cur[r] = 1 /\ 1 \in Steps(r)
      /\ UNCHANGED <<cur, art>>
  BY RouteFacts DEF RequestsInv, RequestInv, AdmittedOne, SubmitRequest
<1>2. status'[r] = "open" /\ \A q \in Requests : q # r => status'[q] = status[q]
  BY <1>1 DEF SubmitRequest, TypeOK
<1>3. step' = step \/ \E m \in Motion : step' = [step EXCEPT ![r][1] = UnderMotion(@, m)]
  BY DEF SubmitRequest
<1>4. /\ \A q \in Requests : q # r => step'[q] = step[q]
      /\ step'[r][1].office = step[r][1].office
  <2>1. ASSUME NEW m \in Motion, step' = [step EXCEPT ![r][1] = UnderMotion(@, m)]
        PROVE  /\ \A q \in Requests : q # r => step'[q] = step[q]
               /\ step'[r][1].office = step[r][1].office
    <3>1. step[r][1] \in StepRow /\ UnderMotion(step[r][1], m).office = step[r][1].office
      BY <1>1, RowType, UnderMotionRow
    <3> QED
      BY <1>1, <2>1, <3>1 DEF TypeOK
  <2> QED
    BY <1>3, <2>1
<1> QED
  BY <1>1, <1>2, <1>4 DEF OneMoves, Moves, OthersStay, OneLeavesReview, Office, Current

\* sweepStalledSteps, and closeTopic Phase 2-B.
LEMMA SweptMoves ==
  ASSUME RequestsInv, NEW r \in Requests,
         EscalateStep(r) \/ ExhaustStep(r) \/ DrainRequest(r)
  PROVE  OneMoves(r)
<1> DEFINE i == cur[r]
<1>1. TypeOK /\ i \in Steps(r) /\ status[r] = "open" /\ step[r][i] \in StepRow
      /\ System \in Actors \cup Motion \cup {System, Nobody}
      /\ "escalated" \in StepStatus /\ "escalation_exhausted" \in Terminal
      /\ "rejected" \in Terminal
  BY CurrentType, RowType DEF RequestsInv, EscalateStep, ExhaustStep, DrainRequest,
     MaySweepStep, StepStatus, Terminal
<1>2. CASE EscalateStep(r)
  <2>1. /\ UNCHANGED <<status, cur, art>> /\ step[r][i].office < Authority
        /\ step' = [step EXCEPT ![r][i] = Raised(@)]
    BY <1>2 DEF EscalateStep, Current
  <2>2. Raised(step[r][i]).office = step[r][i].office + 1
    BY <1>1 DEF Raised, StepRow
  <2>3. /\ \A q \in Requests : q # r => step'[q] = step[q]
        /\ step'[r][i].office = step[r][i].office + 1
    BY <1>1, <2>1, <2>2 DEF TypeOK
  <2> QED
    BY <1>1, <2>1, <2>3 DEF OneMoves, Moves, OthersStay, OneLeavesReview, Office, Current
<1>3. CASE ExhaustStep(r)
  BY <1>1, <1>3, ConcludeMoves DEF ExhaustStep, Office
<1>4. CASE DrainRequest(r)
  <2>1. /\ UNCHANGED <<cur, art>> /\ status'[r] = "rejected"
        /\ \A q \in Requests : q # r => status'[q] = status[q]
        /\ \A q \in Requests : q # r => step'[q] = step[q]
        /\ step'[r][i] = IF <<r, i>> \in held
                         THEN [step[r][i] EXCEPT !.status = "rejected"] ELSE step[r][i]
    BY <1>1, <1>4 DEF DrainRequest, TypeOK
  <2>2. step'[r][i].office = step[r][i].office
    BY <1>1, <2>1 DEF StepRow
  <2> QED
    BY <1>1, <2>1, <2>2
       DEF OneMoves, Moves, OthersStay, OneLeavesReview, Office, Current, Terminal
<1> QED
  BY <1>2, <1>3, <1>4

\* applyMotionToStep, where the request goes on to its next step.
LEMMA CarryStepMoves ==
  ASSUME RequestsInv, NEW m \in Motion, NEW r \in Requests, status[r] = "open",
         CarryStep(m, r, cur[r])
  PROVE  OneMoves(r)
<1> DEFINE i == cur[r]
           next == step[r][i + 1]
<1>1. TypeOK /\ UNCHANGED <<status, art>> /\ i < Len(Route(r))
      /\ i \in Steps(r) /\ i + 1 \in Steps(r) /\ i \in 1..2
      /\ next \in StepRow /\ RowFits(r, i + 1)
  BY CurrentType, RowType, RouteFacts DEF CarryStep, RequestsInv, RequestInv, RowsFit
<1>2. cur'[r] = i + 1 /\ \A q \in Requests : q # r => cur'[q] = cur[q]
  BY <1>1 DEF CarryStep, TypeOK
<1>3. \/ step' = [step EXCEPT ![r][i] = Decided(@, "endorsed", m)]
      \/ \E k \in Motion :
            step' = [step EXCEPT ![r][i] = Decided(@, "endorsed", m),
                                 ![r][i + 1] = UnderMotion(@, k)]
  BY DEF CarryStep
<1>4. /\ \A q \in Requests : q # r => step'[q] = step[q]
      /\ step'[r][i + 1].office = next.office
  <2>1. CASE step' = [step EXCEPT ![r][i] = Decided(@, "endorsed", m)]
    BY <1>1, <2>1 DEF TypeOK
  <2>2. ASSUME NEW k \in Motion,
               step' = [step EXCEPT ![r][i] = Decided(@, "endorsed", m),
                                    ![r][i + 1] = UnderMotion(@, k)]
        PROVE  /\ \A q \in Requests : q # r => step'[q] = step[q]
               /\ step'[r][i + 1].office = next.office
    <3>1. UnderMotion(next, k).office = next.office
      BY <1>1, UnderMotionRow
    <3>2. step'[r][i + 1] = UnderMotion(next, k)
      BY <1>1, <2>2 DEF TypeOK
    <3> QED
      BY <1>1, <2>2, <3>1, <3>2 DEF TypeOK
  <2> QED
    BY <1>3, <2>1, <2>2
<1>5. Office(r)' = Route(r)[i + 1]
  BY <1>1, <1>2, <1>4 DEF Office, Current, RowFits
<1> QED
  BY <1>1, <1>2, <1>4, <1>5 DEF OneMoves, Moves, OthersStay, OneLeavesReview

\* applyMotionToStep, where the step goes up an office.
LEMMA LapseStepMoves ==
  ASSUME RequestsInv, NEW m \in Motion, NEW r \in Requests, status[r] = "open",
         LapseStep(m, r, cur[r])
  PROVE  OneMoves(r)
<1> DEFINE i == cur[r]
           row == step[r][i]
           up == row.office + 1
<1>1. TypeOK /\ UNCHANGED <<status, cur, art>> /\ row.office < Authority
      /\ i \in Steps(r) /\ row \in StepRow
  BY CurrentType, RowType DEF LapseStep, RequestsInv
<1>2. \E next : next.office = up /\ step' = [step EXCEPT ![r][i] = next]
  <2>1. \/ step' = [step EXCEPT ![r][i] = OfficerStep(row, up)]
        \/ \E k \in Motion :
              step' = [step EXCEPT ![r][i] = MotionStep(row, up, BodyByLevel[r][up], k)]
    BY DEF LapseStep
  <2>2. OfficerStep(row, up).office = up
        /\ \A b, k : MotionStep(row, up, b, k).office = up
    BY <1>1 DEF OfficerStep, MotionStep, StepRow
  <2> QED
    BY <2>1, <2>2
<1>3. /\ \A q \in Requests : q # r => step'[q] = step[q]
      /\ step'[r][i].office = up
  BY <1>1, <1>2 DEF TypeOK
<1>4. Office(r) < Authority /\ Office(r)' = Office(r) + 1
  BY <1>1, <1>3 DEF Office, Current
<1> QED
  BY <1>1, <1>3, <1>4 DEF OneMoves, Moves, OthersStay, OneLeavesReview

\* A motion that is settled moves the request whose step it decides.
LEMMA SettleMoves ==
  ASSUME RequestsInv, NEW m \in Motion, motion[m].status \in LiveMotion,
         NEW o \in Outcome, Settle(m, o)
  PROVE  NoneMoves \/ \E r \in Requests : OneMoves(r)
<1>1. CASE SettleAlone(m, o)
  BY <1>1 DEF SettleAlone, NoneMoves, NoneLeavesReview
<1>2. ASSUME NEW r \in Requests, Decides(m, r), ApplyMotionToStep(m, r, o)
      PROVE  OneMoves(r)
  <2>1. /\ StepOf(m, r) = cur[r] /\ status[r] = "open" /\ TypeOK
        /\ m \in Actors \cup Motion \cup {System, Nobody}
    BY <1>2, WhereItDecides DEF Decides, RequestsInv
  <2>2. \/ CarryStep(m, r, cur[r]) \/ LapseStep(m, r, cur[r])
        \/ CarryRequest(m, r, cur[r]) \/ FailRequest(m, r, cur[r])
        \/ VetoRequest(m, r, cur[r]) \/ LapseRequest(m, r, cur[r])
    BY <1>2, <2>1 DEF ApplyMotionToStep
  <2>3. CASE CarryStep(m, r, cur[r]) \/ LapseStep(m, r, cur[r])
    BY <2>1, <2>3, CarryStepMoves, LapseStepMoves
  <2>4. CASE \/ CarryRequest(m, r, cur[r]) \/ FailRequest(m, r, cur[r])
             \/ VetoRequest(m, r, cur[r]) \/ LapseRequest(m, r, cur[r])
    <3>1. \E outcome \in Terminal, s \in StepStatus :
             /\ Conclude(r, cur[r], outcome, s, m)
             /\ outcome = "approved" => LastStep(r)
             /\ outcome = "escalation_exhausted" => Office(r) = Authority
             /\ \/ art' = art
                \/ outcome = "approved" /\ ResolveArtifact(r, "final")
                \/ outcome = "returned" /\ ResolveArtifact(r, "working")
      BY <2>4 DEF CarryRequest, FailRequest, VetoRequest, LapseRequest, LastStep, Office,
         Current, Terminal, StepStatus
    <3> QED
      BY <2>1, <3>1, ConcludeMoves
  <2> QED
    BY <2>2, <2>3, <2>4
<1> QED
  BY <1>1, <1>2 DEF Settle

\* Of every step.
LEMMA StepMoves ==
  ASSUME RequestsInv, [Next]_vars
  PROVE  NoneMoves \/ \E r \in Requests : OneMoves(r)
<1>1. CASE \E r \in Requests : SubmitRequest(r)
  BY <1>1, SubmitMoves
<1>2. CASE \E r \in Requests, a \in Actors :
              \/ EndorseStep(r, a) \/ ApproveRequest(r, a)
              \/ ReturnRequest(r, a) \/ RejectRequest(r, a)
  BY <1>2, OfficerMoves
<1>3. CASE \E r \in Requests : EscalateStep(r) \/ ExhaustStep(r) \/ DrainRequest(r)
  BY <1>3, SweptMoves
<1>4. ASSUME NEW m \in Motion, TallyMotion(m) \/ SweepMotion(m) \/ VetoMotion(m)
      PROVE  NoneMoves \/ \E r \in Requests : OneMoves(r)
  <2>1. motion[m].status \in LiveMotion
    BY <1>4 DEF TallyMotion, SweepMotion, VetoMotion, MayTally, MaySweep, MayVeto, LiveMotion
  <2>2. \E o \in Outcome : Settle(m, o)
    BY <1>4 DEF TallyMotion, SweepMotion, VetoMotion, Countable, Outcome
  <2> QED
    BY <2>1, <2>2, SettleMoves
<1>5. CASE UNCHANGED requestVars \/ UNCHANGED vars
  BY <1>5 DEF requestVars, vars, NoneMoves, NoneLeavesReview
<1>6. CASE \/ \E r \in Requests : StepDeadline(r) \/ DrainSteps(r) \/ DrainBack(r)
           \/ \E x \in Artifacts : PutUp(x)
  BY <1>6 DEF StepDeadline, PutUp, DrainSteps, DrainBack, NoneMoves, NoneLeavesReview,
     RequestsInv, TypeOK
<1> QED
  BY <1>1, <1>2, <1>3, <1>4, <1>5, <1>6 DEF Next

\* Nothing touches a request that is decided, or its rows.
THEOREM DecisionsAreFinal == Spec => DecidedIsFinal
<1>1. ASSUME IInv, [Next]_vars
      PROVE  [\A r \in Requests :
                 status[r] \in Terminal =>
                    status'[r] = status[r] /\ step'[r] = step[r]]_vars
  BY <1>1, StepMoves DEF IInv, NoneMoves, OneMoves, Moves, OthersStay, Terminal
<1> QED
  BY <1>1, AlwaysInv, PTL DEF Spec, DecidedIsFinal

\* An artifact leaves review only with the request that is decided about it.
THEOREM ArtifactsFollowRequests == Spec => ArtifactFollowsRequests
<1>1. ASSUME IInv, [Next]_vars
      PROVE  [\A x \in Artifacts :
                 art'[x] # art[x] /\ art[x] # "draft" =>
                     /\ art[x] = "for_review"
                     /\ \E r \in Requests :
                           /\ Subject[r] = x
                           /\ status[r] = "open"
                           /\ status'[r] = IF art'[x] = "final" THEN "approved"
                                                                ELSE "returned"]_vars
  BY <1>1, StepMoves DEF IInv, NoneMoves, NoneLeavesReview, OneMoves, OneLeavesReview
<1> QED
  BY <1>1, AlwaysInv, PTL DEF Spec, ArtifactFollowsRequests

-----------------------------------------------------------------------------
(* The refinement: a request keeps the promise of Ladder. *)

\* The UPDATE of one value of a function, known at every point.
LEMMA OneValue ==
  ASSUME NEW S, NEW f, NEW g, NEW r \in S, f = [x \in S |-> f[x]], g = [x \in S |-> g[x]],
         \A q \in S : q # r => g[q] = f[q]
  PROVE  g = [f EXCEPT ![r] = g[r]]
  OBVIOUS

\* submitRequest, the decisions, the sweeps and the drain move a request along
\* its route or up an office, or settle it for good; the rest leaves it alone.
THEOREM RequestsKeepTheirPromise == Spec => KeepsThePromise
<1> DEFINE phase == status
           office == [r \in Requests |-> Current(r).office]
<1>1. ASSUME Init PROVE Promise!Init
  <2>1. \A r \in Requests : /\ 1 \in Steps(r) /\ cur[r] = 1
                            /\ step[r] = StepRows(r)
                            /\ Current(r).office = Route(r)[1]
    <3> SUFFICES ASSUME NEW r \in Requests
                 PROVE  /\ 1 \in Steps(r) /\ cur[r] = 1 /\ step[r] = StepRows(r)
                        /\ Current(r).office = Route(r)[1]
      OBVIOUS
    <3>1. 1 \in Steps(r)
      BY RouteFacts
    <3>2. cur[r] = 1 /\ step[r] = StepRows(r)
      BY <1>1 DEF Init
    <3>3. StepRows(r)[1].office = Route(r)[1]
      BY <3>1 DEF StepRows
    <3> QED
      BY <3>1, <3>2, <3>3 DEF Current
  <2> QED
    BY <1>1, <2>1 DEF Init, Promise!Init
<1>2. ASSUME IInv, [Next]_vars
      PROVE  [Promise!Next]_(Promise!ladderVars)
  <2>1. /\ status = [r \in Requests |-> status[r]] /\ cur = [r \in Requests |-> cur[r]]
        /\ status' = [r \in Requests |-> status'[r]] /\ cur' = [r \in Requests |-> cur'[r]]
    <3>1. TypeOK /\ TypeOK'
      BY <1>2, NextRequestsInv DEF IInv, RequestsInv
    <3> QED
      BY <3>1 DEF TypeOK
  <2>2. CASE NoneMoves
    BY <2>2 DEF NoneMoves, Promise!ladderVars, Current
  <2>3. ASSUME NEW r \in Requests, OneMoves(r) PROVE Promise!Next
    <3>1. Moves(r) /\ OthersStay(r)
      BY <2>3 DEF OneMoves
    <3>2. /\ status' = [status EXCEPT ![r] = status'[r]]
          /\ cur' = [cur EXCEPT ![r] = cur'[r]]
      BY <2>1, <3>1, OneValue DEF OthersStay
    <3>3. /\ office = [q \in Requests |-> office[q]] /\ office' = [q \in Requests |-> office'[q]]
          /\ \A q \in Requests : q # r => office'[q] = office[q]
          /\ office[r] = Office(r) /\ office'[r] = Office(r)'
      BY <3>1 DEF OthersStay, Current, Office
    <3>4. office' = [office EXCEPT ![r] = Office(r)']
      <4> HIDE DEF office
      <4> QED
        BY <3>3, OneValue
    <3> HIDE DEF office
    <3>5. cur'[r] = cur[r] => cur' = cur
      BY <2>1, <3>2
    <3>6. Office(r)' = Office(r) => office' = office
      BY <3>3, <3>4
    <3>7. status'[r] = status[r] => status' = status
      BY <2>1, <3>2
    <3> DEFINE rungs == [q \in Requests |-> Route(q)]
    <3>8. rungs[r] = Route(r)
      OBVIOUS
    <3>9. CASE status[r] = "none" /\ status'[r] = "open" /\ cur'[r] = cur[r]
               /\ Office(r)' = Office(r)
      <4>1. Promise!Submit(r)
        BY <3>2, <3>5, <3>6, <3>9 DEF Promise!Submit, office
      <4> QED
        BY <4>1 DEF Promise!Next
    <3>10. CASE /\ status[r] = "open" /\ status'[r] = "open"
                /\ cur[r] < Len(Route(r)) /\ cur'[r] = cur[r] + 1
                /\ Office(r)' = Route(r)[cur[r] + 1]
      <4>1. Promise!Endorse(r)
        BY <3>2, <3>4, <3>7, <3>10 DEF Promise!Endorse, office
      <4> QED
        BY <4>1 DEF Promise!Next
    <3>11. CASE /\ status[r] = "open" /\ status'[r] = "open" /\ cur'[r] = cur[r]
                /\ Office(r) < Authority /\ Office(r)' = Office(r) + 1
      <4>1. Promise!Climb(r)
        BY <3>3, <3>4, <3>5, <3>7, <3>11 DEF Promise!Climb, office
      <4> QED
        BY <4>1 DEF Promise!Next
    <3>12. CASE /\ status[r] = "open" /\ status'[r] \in Terminal
                /\ cur'[r] = cur[r] /\ Office(r)' = Office(r)
                /\ status'[r] = "approved" => LastStep(r)
                /\ status'[r] = "escalation_exhausted" => Office(r) = Authority
      <4>1. Promise!Resolve(r, status'[r])
        BY <3>2, <3>3, <3>5, <3>6, <3>12 DEF Promise!Resolve, LastStep, office
      <4>2. status'[r] \in Promise!Terminal
        BY <3>12 DEF Terminal, Promise!Terminal
      <4> QED
        BY <4>1, <4>2 DEF Promise!Next
    <3> QED
      BY <3>1, <3>9, <3>10, <3>11, <3>12 DEF Moves
  <2> QED
    BY <1>2, <2>2, <2>3, StepMoves DEF IInv
<1> QED
  BY <1>1, <1>2, AlwaysInv, PTL DEF Spec, KeepsThePromise, Promise!Spec
=============================================================================
