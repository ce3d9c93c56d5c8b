---------------------------- MODULE BallotProofs ----------------------------
(***************************************************************************)
(* Proofs about ballots, for any bodies, members, weights, quorums and     *)
(* thresholds, and any number of motions.                                  *)
(***************************************************************************)
EXTENDS Ballots, TLAPS

(* The inductive invariant. *)

\* A motion is put to a body; and OutcomeFitsTheBallots.
IInv ==
    /\ TypeOK
    /\ \A m \in Motion : motion[m].status # "none" => motion[m].body \in Bodies
    /\ OutcomeFitsTheBallots

-----------------------------------------------------------------------------
(* The count. *)

\* The count of a motion depends on its own ballots and its body only.
LEMMA SameTally ==
  ASSUME NEW m \in Motion, BallotsOf(m)' = BallotsOf(m), motion'[m].body = motion[m].body
  PROVE  Tally(m)' = Tally(m)
<1>1. \A c : Sum(m, c)' = Sum(m, c)
  BY DEF Sum
<1>2. QuorumMet(m)' <=> QuorumMet(m)
  BY <1>1 DEF QuorumMet
<1>3. Majority(m)' <=> Majority(m)
  BY <1>1 DEF Majority
<1> QED
  BY <1>2, <1>3 DEF Tally

\* What a step that settles or counts nothing must keep.
LEMMA OutcomesStand ==
  ASSUME OutcomeFitsTheBallots,
         \A m \in Motion : motion'[m].status \in {"carried", "failed"} =>
            /\ motion'[m].status = motion[m].status
            /\ motion'[m].body = motion[m].body
            /\ BallotsOf(m)' = BallotsOf(m)
  PROVE  OutcomeFitsTheBallots'
<1>1. SUFFICES ASSUME NEW m \in Motion, motion'[m].status \in {"carried", "failed"}
               PROVE  Tally(m)' = motion'[m].status
  BY DEF OutcomeFitsTheBallots
<1>2. Tally(m)' = Tally(m)
  BY <1>1, SameTally
<1> QED
  BY <1>1, <1>2 DEF OutcomeFitsTheBallots

\* A count settles its motion as its ballots say.
LEMMA SettleInv ==
  ASSUME IInv, NEW m \in Motion, NEW o \in Outcome, motion[m].status \in LiveMotion,
         Settle(m, o), o \in {"carried", "failed"} => o = Tally(m)
  PROVE  IInv'
<1>1. /\ motion' = [motion EXCEPT ![m].status = o]
      /\ late' = late \ {m}
      /\ UNCHANGED <<topic, proposer, badChain, ballots, weight>>
  BY DEF Settle, Settled, ballotVars
<1>2. /\ motion \in [Motion -> MotionRow] /\ o \in {"carried", "failed", "lapsed", "vetoed"}
      /\ motion'[m] = [motion[m] EXCEPT !.status = o]
      /\ \A k \in Motion \ {m} : motion'[k] = motion[k]
  BY <1>1 DEF IInv, TypeOK, MotionsTypeOK, Outcome
<1>3. /\ motion'[m].status = o /\ motion'[m].body = motion[m].body
      /\ motion'[m] \in MotionRow
  BY <1>2 DEF MotionRow, Outcome
<1>4. TypeOK'
  <2>1. motion' \in [Motion -> MotionRow]
    BY <1>1, <1>2, <1>3
  <2>2. late' \subseteq {k \in Motion : motion'[k].status \in LiveMotion}
    BY <1>1, <1>2 DEF IInv, TypeOK, MotionsTypeOK
  <2> QED
    BY <1>1, <2>1, <2>2 DEF IInv, TypeOK, MotionsTypeOK
<1>5. \A k \in Motion : motion'[k].status # "none" => motion'[k].body \in Bodies
  BY <1>2, <1>3 DEF IInv, LiveMotion
<1>6. \A k \in Motion : Tally(k)' = Tally(k)
  <2>1. \A k \in Motion : BallotsOf(k)' = BallotsOf(k) /\ motion'[k].body = motion[k].body
    BY <1>1, <1>2, <1>3 DEF BallotsOf
  <2> QED
    BY <2>1, SameTally
<1>7. OutcomeFitsTheBallots'
  BY <1>2, <1>3, <1>6 DEF IInv, OutcomeFitsTheBallots
<1> QED
  BY <1>4, <1>5, <1>7 DEF IInv

-----------------------------------------------------------------------------
(* Every step keeps the invariant. *)

LEMMA TallyType ==
  ASSUME NEW m \in Motion
  PROVE  Tally(m) \in Outcome
  BY DEF Tally, Outcome

\* One motion's row changes, and it stays or becomes live.
LEMMA LiveInv ==
  ASSUME IInv, NEW m \in Motion, NEW row \in MotionRow,
         motion[m].status \in {"none"} \cup LiveMotion,
         row.status \in LiveMotion, row.body \in Bodies,
         motion' = [motion EXCEPT ![m] = row],
         proposer' \in [Motion -> Actors \cup {System, Nobody}],
         badChain' \subseteq Motion,
         UNCHANGED <<topic, late, ballots, weight>>
  PROVE  IInv'
<1>1. /\ motion'[m] = row /\ \A k \in Motion \ {m} : motion'[k] = motion[k]
      /\ motion' \in [Motion -> MotionRow]
  BY DEF IInv, TypeOK, MotionsTypeOK
<1>2. TypeOK'
  BY <1>1 DEF IInv, TypeOK, MotionsTypeOK
<1>3. \A k \in Motion : motion'[k].status # "none" => motion'[k].body \in Bodies
  BY <1>1 DEF IInv
<1>4. \A k \in Motion : BallotsOf(k)' = BallotsOf(k)
  BY DEF BallotsOf
<1>5. OutcomeFitsTheBallots'
  BY <1>1, <1>4, OutcomesStand DEF IInv, LiveMotion
<1> QED
  BY <1>2, <1>3, <1>5 DEF IInv

LEMMA ProposeInv ==
  ASSUME IInv, NEW m \in Motion, NEW b \in Bodies, NEW a \in Actors \cup {System}, Propose(m, b, a)
  PROVE  IInv'
<1>1. /\ motion[m].status = "none"
      /\ motion' = [motion EXCEPT ![m] = Proposed(b, Free)]
      /\ proposer' = [proposer EXCEPT ![m] = a]
      /\ UNCHANGED <<topic, late, ballots, weight>>
  BY DEF Propose, ProposeMotion, Fresh
<1>2. /\ Proposed(b, Free) \in MotionRow
      /\ Proposed(b, Free).status \in LiveMotion /\ Proposed(b, Free).body \in Bodies
  BY DEF Proposed, MotionRow, LiveMotion
<1>3. proposer' \in [Motion -> Actors \cup {System, Nobody}]
  BY <1>1 DEF IInv, TypeOK
<1>4. badChain' \subseteq Motion
  BY DEF Propose, IInv, TypeOK
<1> QED
  BY <1>1, <1>2, <1>3, <1>4, LiveInv

LEMMA SecondInv ==
  ASSUME IInv, NEW m \in Motion, NEW a \in Actors, Second(m, a)
  PROVE  IInv'
<1> DEFINE row == [motion[m] EXCEPT !.status = "balloting"]
<1>1. /\ motion[m].status = "proposed"
      /\ motion' = [motion EXCEPT ![m] = row]
      /\ UNCHANGED <<topic, late, proposer, badChain, ballots, weight>>
  BY DEF Second, SecondMotion, ballotVars
<1>2. motion[m] \in MotionRow /\ motion[m].body \in Bodies
  BY <1>1 DEF IInv, TypeOK, MotionsTypeOK
<1>3. row \in MotionRow /\ row.status \in LiveMotion /\ row.body \in Bodies
  BY <1>2 DEF MotionRow, LiveMotion
<1>4. proposer' \in [Motion -> Actors \cup {System, Nobody}] /\ badChain' \subseteq Motion
  BY <1>1 DEF IInv, TypeOK
<1>5. motion[m].status \in {"none"} \cup LiveMotion
  BY <1>1 DEF LiveMotion
<1> QED
  BY <1>1, <1>3, <1>4, <1>5, LiveInv

LEMMA CastVoteInv ==
  ASSUME IInv, NEW m \in Motion, NEW a \in Actors, NEW c \in Vote, CastVote(m, a, c)
  PROVE  IInv'
<1> DEFINE w == weight[motion[m].body][a]
           ballot == [motion |-> m, actor |-> a, choice |-> c, weight |-> w]
<1>1. /\ motion[m].status = "balloting" /\ w > 0
      /\ ballots' = ballots \cup {ballot}
      /\ UNCHANGED <<topic, motion, late, proposer, badChain, weight>>
  BY DEF CastVote, Member, motionVars
<1>2. w \in 1..MaxWeight
  <2>1. motion[m].body \in Bodies
    BY <1>1 DEF IInv
  <2>2. w \in 0..MaxWeight /\ MaxWeight \in Nat
    BY <2>1, BallotsAssumption DEF IInv, TypeOK
  <2> QED
    BY <1>1, <2>2
<1>3. ballot \in BallotRow
  BY <1>2 DEF BallotRow
<1>4. TypeOK'
  BY <1>1, <1>3 DEF IInv, TypeOK, MotionsTypeOK
<1>5. \A k \in Motion \ {m} : BallotsOf(k)' = BallotsOf(k)
  BY <1>1 DEF BallotsOf
<1>6. OutcomeFitsTheBallots'
  BY <1>1, <1>5, OutcomesStand DEF IInv
<1> QED
  BY <1>1, <1>4, <1>6 DEF IInv

LEMMA AddBodyMemberInv ==
  ASSUME IInv, NEW b \in Bodies, NEW a \in Actors, NEW w \in 1..MaxWeight, AddBodyMember(b, a, w)
  PROVE  IInv'
<1>1. /\ weight' = [weight EXCEPT ![b][a] = w]
      /\ UNCHANGED <<topic, motion, late, proposer, badChain, ballots>>
  BY DEF AddBodyMember, motionVars
<1>2. weight' \in [Bodies -> [Actors -> 0..MaxWeight]]
  BY <1>1, BallotsAssumption DEF IInv, TypeOK
<1>3. \A k \in Motion : BallotsOf(k)' = BallotsOf(k)
  BY <1>1 DEF BallotsOf
<1>4. TypeOK'
  BY <1>1, <1>2 DEF IInv, TypeOK, MotionsTypeOK
<1>5. OutcomeFitsTheBallots'
  BY <1>1, <1>3, OutcomesStand DEF IInv
<1> QED
  BY <1>1, <1>4, <1>5 DEF IInv

\* The deadline of a motion, and the freeze and the seal of the topic, change
\* no motion and no ballot.
LEMMA QuietInv ==
  ASSUME IInv, UNCHANGED <<motion, proposer, badChain, ballots, weight>>,
         topic' \in {"active", "closing", "closed"},
         late' \subseteq {m \in Motion : motion[m].status \in LiveMotion}
  PROVE  IInv'
<1>1. TypeOK'
  BY DEF IInv, TypeOK, MotionsTypeOK
<1>2. \A k \in Motion : BallotsOf(k)' = BallotsOf(k)
  BY DEF BallotsOf
<1>3. OutcomeFitsTheBallots'
  BY <1>2, OutcomesStand DEF IInv
<1> QED
  BY <1>1, <1>3 DEF IInv

\* The steps that settle a motion.
LEMMA TallyMotionInv ==
  ASSUME IInv, NEW m \in Motion, TallyMotion(m)
  PROVE  IInv'
<1>1. motion[m].status \in LiveMotion /\ Settle(m, Tally(m))
  BY DEF TallyMotion, MayTally, LiveMotion
<1> QED
  BY <1>1, TallyType, SettleInv

LEMMA LapseMotionInv ==
  ASSUME IInv, NEW m \in Motion, LapseMotion(m)
  PROVE  IInv'
<1>1. motion[m].status \in LiveMotion /\ Settle(m, "lapsed") /\ "lapsed" \in Outcome
  BY DEF LapseMotion, LiveMotion, Outcome
<1> QED
  BY <1>1, SettleInv

LEMMA AutoTallyInv ==
  ASSUME IInv, NEW m \in Motion, AutoTally(m)
  PROVE  IInv'
<1>1. motion[m].status \in LiveMotion /\ Settle(m, Tally(m))
  BY DEF AutoTally, LiveMotion
<1> QED
  BY <1>1, TallyType, SettleInv

LEMMA VetoInv ==
  ASSUME IInv, NEW m \in Motion, NEW a \in Actors, Veto(m, a)
  PROVE  IInv'
<1>1. motion[m].status \in LiveMotion /\ Settle(m, "vetoed") /\ "vetoed" \in Outcome
  BY DEF Veto, MayVeto, LiveMotion, Outcome
<1> QED
  BY <1>1, SettleInv

LEMMA DrainMotionInv ==
  ASSUME IInv, NEW m \in Motion, DrainMotion(m), UNCHANGED ballotVars
  PROVE  IInv'
<1>1. motion[m].status \in LiveMotion /\ Settle(m, "lapsed") /\ "lapsed" \in Outcome
  BY DEF DrainMotion, Settle, Outcome
<1> QED
  BY <1>1, SettleInv

LEMMA InitInv ==
  ASSUME Init
  PROVE  IInv
<1>1. /\ topic = "active" /\ late = {} /\ ballots = {} /\ weight = InitialWeight
      /\ motion = [m \in Motion |-> [status |-> "none", body |-> Nobody, ref |-> Free]]
      /\ proposer = [m \in Motion |-> Nobody] /\ badChain = {}
  BY DEF Init, MotionsInit
<1>2. \A m \in Motion : motion[m].status = "none"
  BY <1>1
<1>3. motion \in [Motion -> MotionRow]
  BY <1>1 DEF MotionRow
<1>4. TypeOK
  BY <1>1, <1>3, BallotsAssumption DEF TypeOK, MotionsTypeOK
<1> QED
  BY <1>2, <1>4 DEF IInv, OutcomeFitsTheBallots

LEMMA NextInv ==
  ASSUME IInv, [Next]_vars
  PROVE  IInv'
<1>1. ASSUME NEW m \in Motion, NEW b \in Bodies, NEW a \in Actors \cup {System}, Propose(m, b, a)
      PROVE  IInv'
  BY <1>1, ProposeInv
<1>2. ASSUME NEW m \in Motion, NEW a \in Actors, Second(m, a)
      PROVE  IInv'
  BY <1>2, SecondInv
<1>3. ASSUME NEW m \in Motion, NEW a \in Actors, NEW c \in Vote, CastVote(m, a, c)
      PROVE  IInv'
  BY <1>3, CastVoteInv
<1>4. ASSUME NEW b \in Bodies, NEW a \in Actors, NEW w \in 1..MaxWeight, AddBodyMember(b, a, w)
      PROVE  IInv'
  BY <1>4, AddBodyMemberInv
<1>5. ASSUME NEW m \in Motion, TallyMotion(m) \/ LapseMotion(m) \/ AutoTally(m)
      PROVE  IInv'
  BY <1>5, TallyMotionInv, LapseMotionInv, AutoTallyInv
<1>6. ASSUME NEW m \in Motion, NEW a \in Actors, Veto(m, a)
      PROVE  IInv'
  BY <1>6, VetoInv
<1>7. ASSUME NEW m \in Motion, MotionDeadline(m), UNCHANGED ballotVars
      PROVE  IInv'
  BY <1>7, QuietInv DEF MotionDeadline, ballotVars, IInv, TypeOK, MotionsTypeOK
<1>8. ASSUME NEW m \in Motion, DrainMotion(m), UNCHANGED ballotVars
      PROVE  IInv'
  BY <1>8, DrainMotionInv
<1>9. CASE (Freeze \/ Seal) /\ UNCHANGED ballotVars
  BY <1>9, QuietInv DEF Freeze, Seal, ballotVars, motionVars, IInv, TypeOK, MotionsTypeOK
<1>10. CASE UNCHANGED vars
  BY <1>10, QuietInv DEF vars, ballotVars, motionVars, IInv, TypeOK, MotionsTypeOK
<1> QED
  BY <1>1, <1>2, <1>3, <1>4, <1>5, <1>6, <1>7, <1>8, <1>9, <1>10 DEF Next

\* The invariant holds of every behaviour.
LEMMA AlwaysInv == Spec => []IInv
<1>1. Init => IInv
  BY InitInv
<1>2. IInv /\ [Next]_vars => IInv'
  BY NextInv
<1> QED
  BY <1>1, <1>2, PTL DEF Spec

-----------------------------------------------------------------------------
(* The theorems. *)

\* Motions, votes and members keep within their CHECK constraints.
THEOREM RowsHaveTheirTypes == Spec => []TypeOK
<1>1. IInv => TypeOK
  BY DEF IInv
<1> QED
  BY <1>1, AlwaysInv, PTL

\* The outcome of a counted motion is the one its ballots give, at the weights
\* they were cast with, whatever addBodyMember does before or after the count.
THEOREM OutcomesFitTheirBallots == Spec => []OutcomeFitsTheBallots
<1>1. IInv => OutcomeFitsTheBallots
  BY DEF IInv
<1> QED
  BY <1>1, AlwaysInv, PTL

\* No step changes a motion that is settled, or a ballot on it.
LEMMA SettledStands ==
  ASSUME IInv, Next, NEW m \in Motion, motion[m].status \in Outcome
  PROVE  motion'[m] = motion[m] /\ BallotsOf(m)' = BallotsOf(m)
<1>1. /\ motion[m].status \notin LiveMotion /\ motion[m].status # "none"
      /\ motion \in [Motion -> MotionRow]
  BY DEF Outcome, LiveMotion, IInv, TypeOK, MotionsTypeOK
<1>2. ASSUME NEW k \in Motion, NEW o, motion[k].status \in LiveMotion, Settle(k, o)
      PROVE  motion'[m] = motion[m] /\ BallotsOf(m)' = BallotsOf(m)
  <2>1. motion' = [motion EXCEPT ![k].status = o] /\ ballots' = ballots
    BY <1>2 DEF Settle, Settled, ballotVars
  <2> QED
    BY <1>1, <1>2, <2>1 DEF BallotsOf
<1>3. ASSUME NEW k \in Motion, NEW b \in Bodies, NEW a \in Actors \cup {System}, Propose(k, b, a)
      PROVE  motion'[m] = motion[m] /\ BallotsOf(m)' = BallotsOf(m)
  BY <1>1, <1>3 DEF Propose, ProposeMotion, Fresh, BallotsOf
<1>4. ASSUME NEW k \in Motion, NEW a \in Actors, Second(k, a)
      PROVE  motion'[m] = motion[m] /\ BallotsOf(m)' = BallotsOf(m)
  BY <1>1, <1>4 DEF Second, SecondMotion, LiveMotion, ballotVars, BallotsOf
<1>5. ASSUME NEW k \in Motion, NEW a \in Actors, NEW c \in Vote, CastVote(k, a, c)
      PROVE  motion'[m] = motion[m] /\ BallotsOf(m)' = BallotsOf(m)
  <2>1. /\ k # m /\ motion' = motion
        /\ ballots' = ballots \cup {[motion |-> k, actor |-> a, choice |-> c,
                                     weight |-> weight[motion[k].body][a]]}
    BY <1>1, <1>5 DEF CastVote, LiveMotion, motionVars
  <2> QED
    BY <2>1 DEF BallotsOf
<1>6. ASSUME NEW b \in Bodies, NEW a \in Actors, NEW w \in 1..MaxWeight, AddBodyMember(b, a, w)
      PROVE  motion'[m] = motion[m] /\ BallotsOf(m)' = BallotsOf(m)
  BY <1>6 DEF AddBodyMember, motionVars, BallotsOf
<1>7. ASSUME NEW k \in Motion, TallyMotion(k) \/ LapseMotion(k) \/ AutoTally(k)
      PROVE  motion'[m] = motion[m] /\ BallotsOf(m)' = BallotsOf(m)
  BY <1>2, <1>7 DEF TallyMotion, MayTally, LapseMotion, AutoTally, LiveMotion
<1>8. ASSUME NEW k \in Motion, NEW a \in Actors, Veto(k, a)
      PROVE  motion'[m] = motion[m] /\ BallotsOf(m)' = BallotsOf(m)
  BY <1>2, <1>8 DEF Veto, MayVeto, LiveMotion
<1>9. ASSUME NEW k \in Motion, DrainMotion(k), UNCHANGED ballotVars
      PROVE  motion'[m] = motion[m] /\ BallotsOf(m)' = BallotsOf(m)
  BY <1>2, <1>9 DEF DrainMotion, Settle
<1>10. ASSUME NEW k \in Motion, MotionDeadline(k), UNCHANGED ballotVars
       PROVE  motion'[m] = motion[m] /\ BallotsOf(m)' = BallotsOf(m)
  BY <1>10 DEF MotionDeadline, ballotVars, BallotsOf
<1>11. ASSUME Freeze \/ Seal, UNCHANGED ballotVars
       PROVE  motion'[m] = motion[m] /\ BallotsOf(m)' = BallotsOf(m)
  BY <1>11 DEF Freeze, Seal, motionVars, ballotVars, BallotsOf
<1> QED
  BY <1>3, <1>4, <1>5, <1>6, <1>7, <1>8, <1>9, <1>10, <1>11 DEF Next

\* A settled motion is settled for good, and its votes with it: tallyMotion,
\* vetoMotion, the sweep and the drain find it so under its lock.
THEOREM OutcomesAreFinal == Spec => SettledForGood
<1> DEFINE Stands == \A m \in Motion : motion[m].status \in Outcome =>
                        motion'[m] = motion[m] /\ {v \in ballots' : v.motion = m} = BallotsOf(m)
<1>1. IInv /\ [Next]_vars => [Stands]_vars
  <2>1. SUFFICES ASSUME IInv, Next, NEW m \in Motion, motion[m].status \in Outcome
                 PROVE  motion'[m] = motion[m] /\ {v \in ballots' : v.motion = m} = BallotsOf(m)
    OBVIOUS
  <2>2. motion'[m] = motion[m] /\ BallotsOf(m)' = BallotsOf(m)
    BY <2>1, SettledStands
  <2> QED
    BY <2>2 DEF BallotsOf
<1>2. []IInv /\ [][Next]_vars => [][Stands]_vars
  BY <1>1, PTL
<1> QED
  BY <1>2, AlwaysInv, PTL DEF Spec, SettledForGood
=============================================================================
