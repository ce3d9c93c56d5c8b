------------------------------ MODULE Motions -------------------------------
(***************************************************************************)
(* The motions of a topic, by status and deadline: motions.ts, and the     *)
(* motion half of coordinationSweep.ts and of closeTopic.  Each of these   *)
(* transactions holds its motion row FOR UPDATE from its first statement   *)
(* to its COMMIT, so it is one step here.  How the members of a body       *)
(* second, vote and veto, and how a ballot is counted, is in Ballots; what *)
(* the same transaction does to the request whose step the motion decides  *)
(* is in Approvals.  Both are built on the operators of this module.       *)
(***************************************************************************)
EXTENDS Naturals, FiniteSets

CONSTANTS
    Bodies,          \* decision_bodies
    MaxMotions,      \* bound on the motions of the topic ...
    MaxFreeMotions,  \* ... and on those that no request asked for
    StepRef,         \* what subject_ref names: a step of a request
    Free,            \* ... or anything else
    Nobody           \* SQL NULL

ASSUME MotionsAssumption ==
    /\ MaxMotions \in Nat
    /\ MaxFreeMotions \in Nat
    /\ Free \notin StepRef
    /\ Nobody \notin Bodies

VARIABLES
    topic,      \* topics.status
    motion,     \* the motions rows
    late        \* live motions whose deadline has passed

motionVars == <<motion, late>>

Motion == 1..MaxMotions
LiveMotion == {"proposed", "balloting"}
Outcome == {"carried", "failed", "lapsed", "vetoed"}
MotionRow == [status : {"none"} \cup LiveMotion \cup Outcome,
              body : Bodies \cup {Nobody}, ref : StepRef \cup {Free}]

MotionsTypeOK ==
    /\ topic \in {"active", "closing", "closed"}
    /\ motion \in [Motion -> MotionRow]
    /\ late \subseteq {m \in Motion : motion[m].status \in LiveMotion}

MotionsInit ==
    /\ topic = "active"
    /\ motion = [m \in Motion |-> [status |-> "none", body |-> Nobody, ref |-> Free]]
    /\ late = {}

\* The next motion_id to be inserted.
Fresh(m) ==
    /\ motion[m].status = "none"
    /\ \A k \in Motion : k < m => motion[k].status # "none"

\* The INSERT of proposeMotion and of proposeStepMotion.
Proposed(b, ref) == [status |-> "proposed", body |-> b, ref |-> ref]

FreeMotions == {k \in Motion : motion[k].status # "none" /\ motion[k].ref = Free}

\* proposeMotion, by a participant for a matter of its own.  The topic was
\* active when it was read, and is not sealed when appendEvent locks it.
ProposeMotion(m, b) ==
    /\ topic # "closed"
    /\ Fresh(m)
    /\ Cardinality(FreeMotions) < MaxFreeMotions
    /\ motion' = [motion EXCEPT ![m] = Proposed(b, Free)]
    /\ UNCHANGED <<topic, late>>

\* secondMotion.  It looks at neither the deadline nor the drain.
SecondMotion(m) ==
    /\ topic # "closed"
    /\ motion[m].status = "proposed"
    /\ motion' = [motion EXCEPT ![m].status = "balloting"]
    /\ UNCHANGED <<topic, late>>

\* Time passes the deadline of a motion.
MotionDeadline(m) ==
    /\ motion[m].status \in LiveMotion
    /\ m \notin late
    /\ late' = late \cup {m}
    /\ UNCHANGED <<topic, motion>>

\* tallyMotion: only after the deadline, and never of a motion nobody seconded.
MayTally(m) ==
    /\ topic # "closed"
    /\ motion[m].status = "balloting"
    /\ m \in late

\* Faulty variant: the scan asks for 'balloting' only.
MaySweepSeconded(m) ==
    /\ topic = "active"
    /\ motion[m].status = "balloting"
    /\ m \in late
\* sweepExpiredMotions: in an active topic, seconded or not.
MaySweep(m) ==
    /\ topic = "active"
    /\ motion[m].status \in LiveMotion
    /\ m \in late

\* vetoMotion: before or after the deadline, while the ballot stands.
MayVeto(m) ==
    /\ topic # "closed"
    /\ motion[m].status = "balloting"

\* The outcomes a count may have: a motion nobody seconded lapses.
Countable(m) ==
    IF motion[m].status = "proposed" THEN {"lapsed"} ELSE {"carried", "failed", "lapsed"}

Settled(m, outcome) == [motion EXCEPT ![m].status = outcome]

\* closeTopic Phase 2-C, one motion.  The step it decides is not told.
DrainMotion(m) ==
    /\ topic = "closing"
    /\ motion[m].status \in LiveMotion
    /\ motion' = Settled(m, "lapsed")
    /\ late' = late \ {m}
    /\ UNCHANGED topic

\* closeTopic Phases 1 and 3.
Freeze ==
    /\ topic = "active"
    /\ topic' = "closing"
    /\ UNCHANGED motionVars
Seal ==
    /\ topic = "closing"
    /\ topic' = "closed"
    /\ UNCHANGED motionVars
=============================================================================
