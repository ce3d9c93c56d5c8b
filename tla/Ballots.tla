------------------------------ MODULE Ballots -------------------------------
(***************************************************************************)
(* Decision bodies and their ballots: decisionBodies.ts and the votes of   *)
(* motions.ts.  A body has a quorum, a threshold, veto holders and         *)
(* weighted members; a ballot keeps the weight its member had when it was  *)
(* cast.  castVote, vetoMotion, tallyMotion and the sweep meet on the      *)
(* motion row; addBodyMember takes no lock at all.                         *)
(***************************************************************************)
EXTENDS Motions, FiniteSetsExt

CONSTANTS
    Actors,
    System,          \* 'system:request-step-proposer'
    Quorum,          \* [Bodies -> Nat], an absolute weight
    Threshold,       \* [Bodies -> [num : Nat, den : Nat]], a part of for + against
    VetoHolders,     \* [Bodies -> SUBSET Actors]
    InitialWeight,   \* [Bodies -> [Actors -> Nat]], 0 for who is not a member
    MaxWeight        \* bound on the weights addBodyMember is called with

ASSUME BallotsAssumption ==
    /\ MaxWeight \in Nat
    /\ System \notin Actors /\ Nobody \notin Actors
    /\ Quorum \in [Bodies -> Nat]
    /\ VetoHolders \in [Bodies -> SUBSET Actors]
    /\ InitialWeight \in [Bodies -> [Actors -> 0..MaxWeight]]
    /\ \A b \in Bodies : Threshold[b].num \in 1..Threshold[b].den

VARIABLES
    proposer,   \* motions.proposed_by
    badChain,   \* motions that, carried, would post a task whose depends_on names
                \* a task that the topic does not have
    ballots,    \* the votes rows
    weight      \* body_members.vote_weight

ballotVars == <<proposer, badChain, ballots, weight>>
vars == <<topic, motionVars, ballotVars>>

Vote == {"for", "against", "abstain"}
BallotRow == [motion : Motion, actor : Actors, choice : Vote, weight : 1..MaxWeight]

TypeOK ==
    /\ MotionsTypeOK
    /\ proposer \in [Motion -> Actors \cup {System, Nobody}]
    /\ badChain \subseteq Motion
    /\ ballots \subseteq BallotRow
    /\ weight \in [Bodies -> [Actors -> 0..MaxWeight]]

Init ==
    /\ MotionsInit
    /\ proposer = [m \in Motion |-> Nobody]
    /\ badChain = {}
    /\ ballots = {}
    /\ weight = InitialWeight

-----------------------------------------------------------------------------
(* The count. *)

Member(m, a) == weight[motion[m].body][a] > 0
BallotsOf(m) == {v \in ballots : v.motion = m}

\* Faulty variant: weighs the ballots by the weights of today.
SumToday(m, c) ==
    MapThenSumSet(LAMBDA v : weight[motion[m].body][v.actor],
                  {v \in BallotsOf(m) : v.choice = c})
\* aggregateVotes: SUM(weight) FILTER (WHERE choice = c).
Weight(votes) == MapThenSumSet(LAMBDA v : v.weight, votes)
Sum(m, c) == Weight({v \in BallotsOf(m) : v.choice = c})
QuorumMet(m) ==
    Sum(m, "for") + Sum(m, "against") + Sum(m, "abstain") >= Quorum[motion[m].body]
Majority(m) ==
    LET base == Sum(m, "for") + Sum(m, "against")
    IN  /\ base > 0
        /\ Sum(m, "for") * Threshold[motion[m].body].den
              >= Threshold[motion[m].body].num * base

\* decideOutcome.
Tally(m) ==
    IF ~QuorumMet(m) THEN "lapsed" ELSE IF Majority(m) THEN "carried" ELSE "failed"

-----------------------------------------------------------------------------
(* Operations. *)

\* proposeMotion by a participant, proposeStepMotion by the system.  The shape
\* of an execution_task is validated, not the tasks it depends on.
Propose(m, b, a) ==
    /\ ProposeMotion(m, b)
    /\ proposer' = [proposer EXCEPT ![m] = a]
    /\ badChain' \in {badChain, badChain \cup {m}}
    /\ UNCHANGED <<ballots, weight>>

\* secondMotion: a member, and not the proposer.
Second(m, a) ==
    /\ SecondMotion(m)
    /\ a # proposer[m]
    /\ Member(m, a)
    /\ UNCHANGED ballotVars

\* castVote: ON CONFLICT DO NOTHING.  Its now() is the start of the
\* transaction: a vote that commits after the deadline is taken where it began.
CastVote(m, a, c) ==
    /\ topic # "closed"
    /\ motion[m].status = "balloting"
    /\ m \notin late
    /\ Member(m, a)
    /\ \A v \in BallotsOf(m) : v.actor # a
    /\ ballots' = ballots \cup
          {[motion |-> m, actor |-> a, choice |-> c, weight |-> weight[motion[m].body][a]]}
    /\ UNCHANGED <<topic, motionVars, proposer, badChain, weight>>

\* addBodyMember: an upsert, whatever ballots are open.
AddBodyMember(b, a, w) ==
    /\ w # weight[b][a]
    /\ weight' = [weight EXCEPT ![b][a] = w]
    /\ UNCHANGED <<topic, motionVars, proposer, badChain, ballots>>

\* emitChain of a carried motion throws when a dependency of the task to post is
\* not there, and the transaction that counted the ballots is rolled back.  Once
\* the topic is closing the task is deferred, whatever it depends on.
ChainFails(m) ==
    /\ topic = "active"
    /\ m \in badChain
    /\ Tally(m) = "carried"

\* The UPDATE of a motion to its outcome.
Settle(m, outcome) ==
    /\ motion' = Settled(m, outcome)
    /\ late' = late \ {m}
    /\ UNCHANGED <<topic, ballotVars>>

\* tallyMotion.
TallyMotion(m) == MayTally(m) /\ ~ChainFails(m) /\ Settle(m, Tally(m))

\* Faulty variant: the sweep leaves a ballot without a quorum open.
AutoTallyQuorate(m) ==
    /\ MaySweep(m) /\ motion[m].status = "balloting" /\ QuorumMet(m)
    /\ ~ChainFails(m)
    /\ Settle(m, Tally(m))
\* sweepExpiredMotions, of a motion nobody seconded and of a ballot.
LapseMotion(m) == MaySweep(m) /\ motion[m].status = "proposed" /\ Settle(m, "lapsed")
AutoTally(m) ==
    /\ MaySweep(m) /\ motion[m].status = "balloting"
    /\ ~ChainFails(m)
    /\ Settle(m, Tally(m))

\* Faulty variant: a veto after the count.
VetoLate(m, a) ==
    /\ topic # "closed"
    /\ motion[m].status \notin {"none", "proposed"}
    /\ a \in VetoHolders[motion[m].body]
    /\ Settle(m, "vetoed")
\* vetoMotion: by a veto holder, who need not be a member.
Veto(m, a) ==
    /\ MayVeto(m)
    /\ a \in VetoHolders[motion[m].body]
    /\ Settle(m, "vetoed")

Next ==
    \/ \E m \in Motion, b \in Bodies, a \in Actors \cup {System} : Propose(m, b, a)
    \/ \E m \in Motion, a \in Actors : Second(m, a)
    \/ \E m \in Motion, a \in Actors, c \in Vote : CastVote(m, a, c)
    \/ \E b \in Bodies, a \in Actors, w \in 1..MaxWeight : AddBodyMember(b, a, w)
    \/ \E m \in Motion : TallyMotion(m)
    \/ \E m \in Motion : LapseMotion(m)
    \/ \E m \in Motion : AutoTally(m)
    \/ \E m \in Motion, a \in Actors : Veto(m, a)
    \/ \E m \in Motion : MotionDeadline(m) /\ UNCHANGED ballotVars
    \/ \E m \in Motion : DrainMotion(m) /\ UNCHANGED ballotVars
    \/ Freeze /\ UNCHANGED ballotVars
    \/ Seal /\ UNCHANGED ballotVars

Spec == Init /\ [][Next]_vars

\* The sweep visits every expired motion in each of its cycles, and deadlines
\* pass.  Nobody has to second, vote, tally or veto.
FairSpec ==
    /\ Spec
    /\ \A m \in Motion :
          /\ WF_vars(MotionDeadline(m) /\ UNCHANGED ballotVars)
          /\ WF_vars(LapseMotion(m))
          /\ WF_vars(AutoTally(m))

-----------------------------------------------------------------------------
(* Properties. *)

\* The outcome of a counted motion is the one its ballots give, at the weights
\* they were cast with (D7 of motions.ts): no ballot lands after the count -
\* castVote and tallyMotion meet on the motion row only - and no later
\* addBodyMember weighs one again.
OutcomeFitsTheBallots ==
    \A m \in Motion : motion[m].status \in {"carried", "failed"} =>
        Tally(m) = motion[m].status

\* A settled motion is settled for good, whichever of tallyMotion, vetoMotion,
\* the sweep and the drain came second, and its votes rows with it.
SettledForGood ==
    [][\A m \in Motion : motion[m].status \in Outcome =>
          motion'[m] = motion[m] /\ {v \in ballots' : v.motion = m} = BallotsOf(m)]_vars

\* While its topic is active, no motion is left open: the sweep counts what
\* nobody tallies and lapses what nobody seconds.  Except a motion carried by
\* its ballots whose task cannot be posted: every count of it is rolled back.
EveryMotionIsSettled ==
    \A m \in Motion :
        motion[m].status \in LiveMotion ~>
            \/ motion[m].status \in Outcome
            \/ m \in late /\ ChainFails(m)
            \/ topic # "active"
=============================================================================
