----------------------------- MODULE Approvals ------------------------------
(***************************************************************************)
(* Approval requests: requests.ts, doaMatrix.ts, the request half of       *)
(* coordinationSweep.ts and of closeTopic, and the task emitChain posts.   *)
(* One action per transaction, taken at its COMMIT: each but the drain     *)
(* holds the request row FOR UPDATE from before its first check, so only   *)
(* what it reads outside that lock (topic.status) may have moved;          *)
(* appendEvent refuses a sealed topic.  The drain of a request updates the *)
(* step rows first and the request after them, under no lock of the        *)
(* request in between, so it is two actions and may be rolled back.  A     *)
(* decided motion and the step it decides change in one transaction, so    *)
(* Settle... below composes Motions with the request.                      *)
(***************************************************************************)
EXTENDS Motions, Sequences

CONSTANTS
    Actors,
    System,          \* 'system:sweep'
    Requests,
    Artifacts,
    Subject,         \* [Requests -> Artifacts], requests.subject_id
    Submitter,       \* [Requests -> Actors]
    Level,           \* [Actors -> Offices], topic_participants.level
    Shape,           \* [Requests -> shapes], doa_matrix.route_shape
    RequiredLevel,   \* [Requests -> Offices]
    Collective,      \* requests whose matrix row has procedure 'collective'
    BodyByLevel,     \* [Requests -> [Offices -> Bodies \cup {Nobody}]]
    MaxMatters,      \* bound on the requests and free motions put forward
    BadChain         \* requests and motions whose execution_task depends on a
                     \* task that is not in the topic

\* LEVELS_ASC: execution, coordination, authority.
Offices == 0..2
Authority == 2

ASSUME RequestsAssumption ==
    /\ MaxMatters \in Nat
    /\ Requests \cap Motion = {}
    /\ StepRef = Requests \X (1..3)
    /\ Subject \in [Requests -> Artifacts]
    /\ Submitter \in [Requests -> Actors]
    /\ Level \in [Actors -> Offices]
    /\ Shape \in [Requests -> {"counter_sign", "escalate_to_authority"}]
    /\ RequiredLevel \in [Requests -> Offices]
    /\ BodyByLevel \in [Requests -> [Offices -> Bodies \cup {Nobody}]]
    /\ \A x \in Actors \cup {System, Nobody} : x \notin Motion
    /\ System \notin Actors /\ Nobody \notin Actors
    /\ BadChain \subseteq Requests \cup Motion

VARIABLES
    status,     \* requests.status
    cur,        \* requests.current_step, counted from 1
    step,       \* the request_steps rows
    stalled,    \* requests whose current step's deadline has passed
    art,        \* artifacts.state, as far as requests see it
    chain,      \* what emitChain made of a request or motion
    draining,   \* requests whose step rows a drain has updated ...
    held        \* ... and those rows: locked, and not yet committed

drainVars == <<draining, held>>
requestVars == <<status, cur, step, stalled, art, chain, drainVars>>
vars == <<topic, motionVars, requestVars>>

Terminal == {"approved", "returned", "rejected", "escalation_exhausted"}
StepStatus == {"pending", "motion_proposed", "endorsed", "returned", "rejected", "escalated"}
StepRow == [office : Offices, procedure : {"unilateral", "collective"},
            status : StepStatus, body : Bodies \cup {Nobody},
            motion : Motion \cup {Nobody}, by : Actors \cup Motion \cup {System, Nobody}]

\* deriveRoute.
Route(r) ==
    IF Shape[r] = "counter_sign" /\ Level[Submitter[r]] < RequiredLevel[r]
    THEN [i \in 1..(RequiredLevel[r] - Level[Submitter[r]]) |-> Level[Submitter[r]] + i]
    ELSE <<RequiredLevel[r]>>
Steps(r) == DOMAIN Route(r)

\* The request_steps rows submitRequest inserts.
StepRows(r) ==
    [i \in Steps(r) |->
        [office |-> Route(r)[i], status |-> "pending", motion |-> Nobody, by |-> Nobody,
         procedure |-> IF r \in Collective THEN "collective" ELSE "unilateral",
         body |-> IF r \in Collective THEN BodyByLevel[r][Route(r)[i]] ELSE Nobody]]

\* Faulty variant: a route may go before one body twice.
RoutableTwice(r) ==
    r \in Collective => \A i \in Steps(r) : BodyByLevel[r][Route(r)[i]] # Nobody
\* missing_collective_body and distinct_body_required.
Routable(r) ==
    r \in Collective =>
        /\ \A i \in Steps(r) : BodyByLevel[r][Route(r)[i]] # Nobody
        /\ Shape[r] = "counter_sign" => \A i, j \in Steps(r) :
              BodyByLevel[r][Route(r)[i]] = BodyByLevel[r][Route(r)[j]] => i = j

Init ==
    /\ MotionsInit
    /\ status = [r \in Requests |-> "none"]
    /\ cur = [r \in Requests |-> 1]
    /\ step = [r \in Requests |-> StepRows(r)]
    /\ stalled = {}
    /\ art = [x \in Artifacts |-> "draft"]
    /\ chain = [s \in Requests \cup Motion |-> "none"]
    /\ draining = {} /\ held = {}

-----------------------------------------------------------------------------
(* Pieces the transactions share. *)

Current(r) == step[r][cur[r]]
LastStep(r) == cur[r] = Len(Route(r))

\* The row of a step that is decided, put to the vote, or raised an office.
Decided(row, stepStatus, by) == [row EXCEPT !.status = stepStatus, !.by = by]
UnderMotion(row, m) == [row EXCEPT !.status = "motion_proposed", !.motion = m]
Raised(row) == [row EXCEPT !.office = @ + 1]

\* UPDATE requests SET status, and step i with it.
Conclude(r, i, outcome, stepStatus, by) ==
    /\ status' = [status EXCEPT ![r] = outcome]
    /\ step' = [step EXCEPT ![r][i] = Decided(@, stepStatus, by)]
    /\ UNCHANGED <<cur, stalled>>

\* Faulty variant: the UPDATE does not pin the state it starts from.
ResolveArtifactAnyState(r, state) == art' = [art EXCEPT ![Subject[r]] = state]
\* resolveArtifact: best effort, only from 'for_review'.
ResolveArtifact(r, state) ==
    art' = [art EXCEPT ![Subject[r]] = IF @ = "for_review" THEN state ELSE @]

\* emitChain: posts the task in an active topic, defers it in a closing one,
\* and takes the whole transaction down when a dependency is not there.
EmitChain(s) ==
    /\ topic = "active" => s \notin BadChain
    /\ chain' = [chain EXCEPT ![s] = IF topic = "active" THEN "posted" ELSE "deferred"]

\* The row of a step that goes before office o, under a motion or an officer.
MotionStep(row, o, b, m) ==
    [row EXCEPT !.office = o, !.procedure = "collective", !.body = b,
                !.status = "motion_proposed", !.motion = m, !.by = Nobody]
OfficerStep(row, o) ==
    [row EXCEPT !.office = o, !.procedure = "unilateral", !.body = Nobody,
                !.status = "pending", !.motion = Nobody, !.by = Nobody]

-----------------------------------------------------------------------------
(* Operations on requests. *)

OneMore == Cardinality({q \in Requests : status[q] # "none"}) + Cardinality(FreeMotions)
              < MaxMatters

\* submitRequest.  The topic was active when it was read, before BEGIN.
SubmitRequest(r) ==
    /\ topic # "closed"
    /\ status[r] = "none"
    /\ OneMore
    /\ Routable(r)
    /\ status' = [status EXCEPT ![r] = "open"]
    /\ IF r \in Collective
       THEN \E m \in Motion :
               /\ Fresh(m)
               /\ motion' = [motion EXCEPT ![m] =
                     Proposed(step[r][1].body, <<r, 1>>)]
               /\ step' = [step EXCEPT ![r][1] = UnderMotion(@, m)]
       ELSE UNCHANGED <<motion, step>>
    /\ UNCHANGED <<topic, late, cur, stalled, art, chain, drainVars>>

\* Faulty variant: an officer may endorse two steps of one request.
MayDecideTwice(r, a) ==
    /\ topic # "closed"
    /\ status[r] = "open"
    /\ Current(r).procedure = "unilateral"
    /\ Current(r).status = "pending"
    /\ <<r, cur[r]>> \notin held
    /\ a # Submitter[r]
    /\ Level[a] = Current(r).office
\* The checks of decideStep, which has locked the request and then the step.
MayDecide(r, a) ==
    /\ topic # "closed"
    /\ status[r] = "open"
    /\ Current(r).procedure = "unilateral"
    /\ Current(r).status = "pending"
    /\ <<r, cur[r]>> \notin held
    /\ a # Submitter[r]
    /\ Level[a] = Current(r).office
    /\ Shape[r] = "counter_sign" => \A i \in 1..(cur[r] - 1) : step[r][i].by # a

\* decideStep 'endorse', with a step to follow, whose deadline it sets ...
EndorseStep(r, a) ==
    /\ MayDecide(r, a)
    /\ ~LastStep(r)
    /\ <<r, cur[r] + 1>> \notin held
    /\ step' = [step EXCEPT ![r][cur[r]] = Decided(@, "endorsed", a)]
    /\ cur' = [cur EXCEPT ![r] = @ + 1]
    /\ stalled' = stalled \ {r}
    /\ UNCHANGED <<topic, motionVars, status, art, chain, drainVars>>

\* ... and of the last one.
ApproveRequest(r, a) ==
    /\ MayDecide(r, a)
    /\ LastStep(r)
    /\ Conclude(r, cur[r], "approved", "endorsed", a)
    /\ ResolveArtifact(r, "final")
    /\ EmitChain(r)
    /\ UNCHANGED <<topic, motionVars, drainVars>>

\* decideStep 'return'.
ReturnRequest(r, a) ==
    /\ MayDecide(r, a)
    /\ Conclude(r, cur[r], "returned", "returned", a)
    /\ ResolveArtifact(r, "working")
    /\ UNCHANGED <<topic, motionVars, chain, drainVars>>

\* decideStep 'reject'.
RejectRequest(r, a) ==
    /\ MayDecide(r, a)
    /\ Conclude(r, cur[r], "rejected", "rejected", a)
    /\ UNCHANGED <<topic, motionVars, art, chain, drainVars>>

\* sweepStalledSteps, below authority and at it.
MaySweepStep(r) ==
    /\ topic = "active"
    /\ status[r] = "open"
    /\ r \in stalled
    /\ Current(r).status = "pending"

EscalateStep(r) ==
    /\ MaySweepStep(r)
    /\ Current(r).office < Authority
    /\ step' = [step EXCEPT ![r][cur[r]] = Raised(@)]
    /\ stalled' = stalled \ {r}
    /\ UNCHANGED <<topic, motionVars, status, cur, art, chain, drainVars>>

ExhaustStep(r) ==
    /\ MaySweepStep(r)
    /\ Current(r).office = Authority
    /\ Conclude(r, cur[r], "escalation_exhausted", "escalated", System)
    /\ UNCHANGED <<topic, motionVars, art, chain, drainVars>>

\* Faulty variant: the UPDATE of the steps does not ask for 'pending'.
DrainEveryStep(r) ==
    /\ topic = "closing"
    /\ status[r] = "open" /\ r \notin draining
    /\ draining' = draining \cup {r}
    /\ held' = held \cup {<<r, i>> : i \in Steps(r)}
    /\ UNCHANGED <<topic, motionVars, status, cur, step, stalled, art, chain>>
\* closeTopic Phase 2-B, one request: the UPDATE of its pending steps.  It
\* waits for those that others hold, and from now on others wait for it.  A
\* second drain of the request could only wait, or be rolled back.
DrainSteps(r) ==
    /\ topic = "closing"
    /\ status[r] = "open" /\ r \notin draining
    /\ draining' = draining \cup {r}
    /\ held' = held \cup {<<r, i>> : i \in {k \in Steps(r) : step[r][k].status = "pending"}}
    /\ UNCHANGED <<topic, motionVars, status, cur, step, stalled, art, chain>>

\* The drain of r is over, and its row locks are gone.
DrainEnds(r) ==
    /\ draining' = draining \ {r}
    /\ held' = {s \in held : s[1] # r}

\* ... then the UPDATE of the request, while it is still open, and COMMIT.
DrainRequest(r) ==
    /\ topic = "closing"
    /\ r \in draining
    /\ status[r] = "open"
    /\ status' = [status EXCEPT ![r] = "rejected"]
    /\ step' = [step EXCEPT ![r] = [i \in Steps(r) |->
          IF <<r, i>> \in held THEN [@[i] EXCEPT !.status = "rejected"] ELSE @[i]]]
    /\ DrainEnds(r)
    /\ UNCHANGED <<topic, motionVars, cur, stalled, art, chain>>

\* ... or ROLLBACK: the request is decided, the topic sealed, a statement timed
\* out or failed, or a decision that holds the request waits for one of the
\* rows: the two lock in opposite orders, and PostgreSQL ends one of them.
DrainBack(r) ==
    /\ r \in draining
    /\ DrainEnds(r)
    /\ UNCHANGED <<topic, motionVars, status, cur, step, stalled, art, chain>>

\* Time passes the deadline of the current step; that of a step under a motion
\* is reset before anything reads it.
StepDeadline(r) ==
    /\ status[r] = "open"
    /\ Current(r).status = "pending"
    /\ r \notin stalled
    /\ stalled' = stalled \cup {r}
    /\ UNCHANGED <<topic, motionVars, status, cur, step, art, chain, drainVars>>

-----------------------------------------------------------------------------
(* applyMotionToStep, in the transaction that settles the motion.  Its     *)
(* parts differ by the outcome and by where the request stands.            *)

\* Faulty variant: a request that is already decided is decided again.
DecidesAgain(m, r) == \E i \in Steps(r) : step[r][i].motion = m
\* SELECT ... FROM request_steps WHERE motion_id = m, of a request still open.
Decides(m, r) ==
    /\ status[r] = "open"
    /\ \E i \in Steps(r) : step[r][i].motion = m
StepOf(m, r) == CHOOSE i \in Steps(r) : step[r][i].motion = m

\* Faulty variant: a step's motion posts a task of its own.
SettleAloneAndPost(m, outcome) ==
    /\ \A r \in Requests : ~Decides(m, r)
    /\ motion' = Settled(m, outcome)
    /\ IF outcome = "carried" THEN EmitChain(m) ELSE UNCHANGED chain
    /\ UNCHANGED <<status, cur, step, stalled, art>>
\* No open request waits for the motion.  One that is not a step's has its own
\* task to post when it is carried.
SettleAlone(m, outcome) ==
    /\ \A r \in Requests : ~Decides(m, r)
    /\ motion' = Settled(m, outcome)
    /\ IF outcome = "carried" /\ motion[m].ref = Free
       THEN EmitChain(m)
       ELSE UNCHANGED chain
    /\ UNCHANGED <<status, cur, step, stalled, art>>

\* Faulty variant: the motion of the next step is not proposed.
CarryStepOnly(m, r, i) ==
    /\ i < Len(Route(r))
    /\ <<r, i + 1>> \notin held
    /\ cur' = [cur EXCEPT ![r] = i + 1]
    /\ stalled' = stalled \ {r}
    /\ motion' = Settled(m, "carried")
    /\ step' = [step EXCEPT ![r][i] = Decided(@, "endorsed", m)]
    /\ UNCHANGED <<status, art, chain>>
\* 'carried', with a step to follow: its motion is proposed at once if it is
\* collective.  The next row is updated in any case.
CarryStep(m, r, i) ==
    /\ i < Len(Route(r))
    /\ <<r, i + 1>> \notin held
    /\ cur' = [cur EXCEPT ![r] = i + 1]
    /\ stalled' = stalled \ {r}
    /\ IF step[r][i + 1].procedure = "collective"
       THEN \E k \in Motion :
               /\ Fresh(k)
               /\ motion' = [Settled(m, "carried") EXCEPT ![k] =
                     Proposed(step[r][i + 1].body, <<r, i + 1>>)]
               /\ step' = [step EXCEPT ![r][i] = Decided(@, "endorsed", m),
                                       ![r][i + 1] = UnderMotion(@, k)]
       ELSE /\ motion' = Settled(m, "carried")
            /\ step' = [step EXCEPT ![r][i] = Decided(@, "endorsed", m)]
    /\ UNCHANGED <<status, art, chain>>

\* 'carried' at the last step.
CarryRequest(m, r, i) ==
    /\ i = Len(Route(r))
    /\ motion' = Settled(m, "carried")
    /\ Conclude(r, i, "approved", "endorsed", m)
    /\ ResolveArtifact(r, "final")
    /\ EmitChain(r)

\* 'failed'.
FailRequest(m, r, i) ==
    /\ motion' = Settled(m, "failed")
    /\ Conclude(r, i, "returned", "returned", m)
    /\ ResolveArtifact(r, "working")
    /\ UNCHANGED chain

\* 'vetoed'.
VetoRequest(m, r, i) ==
    /\ motion' = Settled(m, "vetoed")
    /\ Conclude(r, i, "rejected", "rejected", m)
    /\ UNCHANGED <<art, chain>>

\* 'lapsed' below authority: the next level's body if the snapshot has one,
\* else its officers.
LapseStep(m, r, i) ==
    /\ step[r][i].office < Authority
    /\ LET up == step[r][i].office + 1
           body == BodyByLevel[r][up]
       IN  IF r \in Collective /\ body # Nobody
           THEN \E k \in Motion :
                  /\ Fresh(k)
                  /\ motion' = [Settled(m, "lapsed") EXCEPT ![k] =
                        Proposed(body, <<r, i>>)]
                  /\ step' = [step EXCEPT ![r][i] = MotionStep(@, up, body, k)]
           ELSE /\ motion' = Settled(m, "lapsed")
                /\ step' = [step EXCEPT ![r][i] = OfficerStep(@, up)]
    /\ stalled' = stalled \ {r}
    /\ UNCHANGED <<status, cur, art, chain>>

\* Faulty variant: gives up one level too early.
LapseRequestEarly(m, r, i) ==
    /\ step[r][i].office >= Authority - 1
    /\ motion' = Settled(m, "lapsed")
    /\ Conclude(r, i, "escalation_exhausted", "escalated", m)
    /\ UNCHANGED <<art, chain>>
\* 'lapsed' at authority.
LapseRequest(m, r, i) ==
    /\ step[r][i].office = Authority
    /\ motion' = Settled(m, "lapsed")
    /\ Conclude(r, i, "escalation_exhausted", "escalated", m)
    /\ UNCHANGED <<art, chain>>

ApplyMotionToStep(m, r, outcome) ==
    LET i == StepOf(m, r)
    IN  \/ outcome = "carried" /\ (CarryStep(m, r, i) \/ CarryRequest(m, r, i))
        \/ outcome = "failed" /\ FailRequest(m, r, i)
        \/ outcome = "vetoed" /\ VetoRequest(m, r, i)
        \/ outcome = "lapsed" /\ (LapseStep(m, r, i) \/ LapseRequest(m, r, i))

\* What tallyMotion, sweepExpiredMotions and vetoMotion do in one transaction.
Settle(m, outcome) ==
    /\ \/ SettleAlone(m, outcome)
       \/ \E r \in Requests : Decides(m, r) /\ ApplyMotionToStep(m, r, outcome)
    /\ late' = late \ {m}
    /\ UNCHANGED <<topic, drainVars>>

TallyMotion(m) == MayTally(m) /\ \E o \in Countable(m) : Settle(m, o)
SweepMotion(m) == MaySweep(m) /\ \E o \in Countable(m) : Settle(m, o)
VetoMotion(m) == MayVeto(m) /\ Settle(m, "vetoed")

-----------------------------------------------------------------------------
(* The rest of the topic. *)

\* The board's completeTask puts an artifact up for review, once.
PutUp(x) ==
    /\ topic # "closed"
    /\ art[x] = "draft"
    /\ art' = [art EXCEPT ![x] = "for_review"]
    /\ UNCHANGED <<topic, motionVars, status, cur, step, stalled, chain, drainVars>>

Next ==
    \/ \E r \in Requests : SubmitRequest(r)
    \/ \E r \in Requests, a \in Actors : EndorseStep(r, a)
    \/ \E r \in Requests, a \in Actors : ApproveRequest(r, a)
    \/ \E r \in Requests, a \in Actors : ReturnRequest(r, a)
    \/ \E r \in Requests, a \in Actors : RejectRequest(r, a)
    \/ \E r \in Requests : EscalateStep(r)
    \/ \E r \in Requests : ExhaustStep(r)
    \/ \E r \in Requests : DrainSteps(r)
    \/ \E r \in Requests : DrainRequest(r)
    \/ \E r \in Requests : DrainBack(r)
    \/ \E r \in Requests : StepDeadline(r)
    \/ \E m \in Motion : TallyMotion(m)
    \/ \E m \in Motion : SweepMotion(m)
    \/ \E m \in Motion : VetoMotion(m)
    \/ \E m \in Motion, b \in Bodies : OneMore /\ ProposeMotion(m, b) /\ UNCHANGED requestVars
    \/ \E m \in Motion : SecondMotion(m) /\ UNCHANGED requestVars
    \/ \E m \in Motion : MotionDeadline(m) /\ UNCHANGED requestVars
    \/ \E m \in Motion : DrainMotion(m) /\ UNCHANGED requestVars
    \/ Freeze /\ UNCHANGED requestVars
    \/ Seal /\ UNCHANGED requestVars
    \/ \E x \in Artifacts : PutUp(x)

Spec == Init /\ [][Next]_vars

\* The sweep visits every stalled step and every expired motion in each of its
\* cycles, and deadlines pass.  Nobody has to decide, second, vote or tally.
Fairness ==
    /\ \A r \in Requests :
          /\ WF_vars(StepDeadline(r))
          /\ WF_vars(EscalateStep(r))
          /\ WF_vars(ExhaustStep(r))
    /\ \A m \in Motion :
          /\ WF_vars(MotionDeadline(m) /\ UNCHANGED requestVars)
          /\ WF_vars(SweepMotion(m))
FairSpec == Spec /\ Fairness

-----------------------------------------------------------------------------
(* Properties. *)

\* The rows hold what their CHECK constraints and the code allow.
TypeOK ==
    /\ MotionsTypeOK
    /\ status \in [Requests -> {"none", "open"} \cup Terminal]
    /\ cur \in [Requests -> Nat] /\ \A r \in Requests : cur[r] \in Steps(r)
    /\ DOMAIN step = Requests /\ \A r \in Requests : step[r] \in [Steps(r) -> StepRow]
    /\ stalled \subseteq Requests
    /\ art \in [Artifacts -> {"draft", "for_review", "working", "final"}]
    /\ chain \in [Requests \cup Motion -> {"none", "posted", "deferred"}]
    /\ draining \subseteq Requests
    /\ held \subseteq StepRef

\* The status of a request and the statuses of its steps say the same: every
\* step before the current one is endorsed, and the outcome is the current
\* step's - except that the drain rejects a request under a ballot and leaves
\* its step at 'motion_proposed', and at 'pending' if that ballot lapsed, for
\* want of a body above it, after the drain had been at the steps.
LapsedToOfficers(r) == r \in Collective /\ Current(r).procedure = "unilateral"
MatchesSteps(r) ==
    /\ \A i \in 1..(cur[r] - 1) : step[r][i].status = "endorsed"
    /\ \A i \in (cur[r] + 1)..Len(Route(r)) :
          \/ step[r][i].status = "pending"
          \/ step[r][i].status = "rejected" /\ status[r] = "rejected"
    /\ status[r] = "none" => Current(r).status = "pending"
    /\ status[r] = "open" => Current(r).status \in {"pending", "motion_proposed"}
    /\ status[r] = "approved" => Current(r).status = "endorsed" /\ LastStep(r)
    /\ status[r] = "returned" => Current(r).status = "returned"
    /\ status[r] = "rejected" =>
          \/ Current(r).status \in {"rejected", "motion_proposed"}
          \/ Current(r).status = "pending" /\ LapsedToOfficers(r)
    /\ status[r] = "escalation_exhausted" => Current(r).status = "escalated"
RequestMatchesSteps == \A r \in Requests : MatchesSteps(r)

\* A collective step that is current has its motion, that motion is its alone,
\* and a live motion of a step is waited for: no step waits for a motion that
\* is already settled while the topic is active, and no ballot is held for a
\* step that is decided.
\* decideStep never proposes the motion of the step it makes current; that is
\* right only because an officer's step is never followed by a collective one.
HasItsMotion(r) ==
    LET s == Current(r)
    IN  IF s.procedure = "collective"
        THEN /\ s.status = "motion_proposed"
             /\ s.motion \in Motion
             /\ motion[s.motion].ref = <<r, cur[r]>>
             /\ motion[s.motion].body = s.body
             /\ topic = "active" => motion[s.motion].status \in LiveMotion
        ELSE s.status = "pending" /\ s.motion = Nobody
WaitedFor(m, r, i) ==
    /\ cur[r] = i
    /\ step[r][i].motion = m
    /\ status[r] = "open" \/ (topic # "active" /\ status[r] = "rejected")
StepHasItsMotion ==
    /\ \A r \in Requests : status[r] = "open" => HasItsMotion(r)
    /\ \A m \in Motion, r \in Requests, i \in 1..3 :
          motion[m].status \in LiveMotion /\ motion[m].ref = <<r, i>> => WaitedFor(m, r, i)

\* No officer endorses a step of a request of his own, or two steps of one
\* counter-signed request, however the sweep moved the steps between offices.
DifferentEyes(r) ==
    \A i, j \in Steps(r) :
        step[r][i].status = "endorsed" /\ step[r][i].by \in Actors =>
            /\ step[r][i].by # Submitter[r]
            /\ Shape[r] = "counter_sign" /\ step[r][j].by = step[r][i].by => i = j
FourEyes == \A r \in Requests : DifferentEyes(r)

\* Counter-signing by bodies (AC9 of the sprint 15.10 clarification): no body
\* endorses two steps of a request, for submitRequest refuses a route that goes
\* before one body twice - except that a step which lapsed was carried up to
\* the body of a later step; applyMotionToStep does not ask again.
DistinctBodies ==
    \A r \in Requests : \A i, j \in Steps(r) :
        LET twice == /\ Shape[r] = "counter_sign"
                     /\ step[r][i].status = "endorsed" /\ step[r][j].status = "endorsed"
                     /\ step[r][i].body = step[r][j].body /\ step[r][i].body # Nobody
        IN  twice /\ i < j => step[r][i].office > Route(r)[i]

\* An artifact leaves review once, by the request that is decided in the same
\* step: approved, it is final; returned, it goes back to work.  Of two requests
\* about it the first to be decided has it, and a rejected, exhausted or
\* drained one leaves it alone.
ArtifactFollowsRequests ==
    [][\A x \in Artifacts :
          art'[x] # art[x] /\ art[x] # "draft" =>
              /\ art[x] = "for_review"
              /\ \E r \in Requests :
                    /\ Subject[r] = x
                    /\ status[r] = "open"
                    /\ status'[r] = IF art'[x] = "final" THEN "approved" ELSE "returned"]_vars

\* An approval posts or defers one task: the request's, never its motion's as
\* well, and none that depends on a task the topic does not have.
OneTaskPerApproval ==
    /\ \A r \in Requests : chain[r] # "none" <=> status[r] = "approved"
    /\ \A m \in Motion : chain[m] # "none" <=>
          motion[m].status = "carried" /\ motion[m].ref = Free
    /\ \A s \in BadChain : chain[s] # "posted"

\* Once a request is decided neither its status nor a row of it changes, though
\* a ballot on it may still be counted, or a drain reach its rows.
DecidedIsFinal ==
    [][\A r \in Requests :
          status[r] \in Terminal => status'[r] = status[r] /\ step'[r] = step[r]]_vars

\* What a request promises, step by step.
Promise == INSTANCE Ladder WITH
    Rungs <- [r \in Requests |-> Route(r)],
    TopOffice <- Authority,
    phase <- status,
    at <- cur,
    office <- [r \in Requests |-> Current(r).office]
KeepsThePromise == Promise!Spec

\* While its topic is active, no request stays open for good, whoever fails to
\* act - unless a ballot approved it and its task cannot be posted.
OpenRequestIsDecided ==
    \A r \in Requests \ (BadChain \cap Collective) :
        status[r] = "open" ~> status[r] # "open" \/ topic # "active"
=============================================================================
