------------------------------- MODULE Board --------------------------------
(***************************************************************************)
(* The contract of the Board: one action per transaction of board.ts,      *)
(* artifacts.ts, coordinationSweep.ts (claims) and topics.ts (closeTopic), *)
(* taken as a single step at its COMMIT.  A guard here is what must still  *)
(* be true at that instant, whatever was read earlier: topic.status may    *)
(* have become 'closing' since claimTask looked at it, but not 'closed',   *)
(* because appendEvent's UPDATE topics refuses a sealed topic.             *)
(***************************************************************************)
EXTENDS BoardState

\* postTask.
Post(t) ==
    /\ task[t] = "none"
    /\ topic # "closed"
    /\ PostEffect(t)

\* claimTask: k is drawn from coordination_fencing_seq while the task row is
\* locked, so it is new and above every token this task has seen.
Grant(t, a, k) ==
    /\ topic # "closed"
    /\ task[t] \in {"posted", "claimed", "abandoned"}
    /\ \A c \in ClaimsOf(t) : c.token \in expired
    /\ \A u \in Tasks : k \notin granted[u]
    /\ barrier[t] <= k
    /\ Topology[t] = "sequential" =>
          \A d \in DependsOn[t] : task[d] = "completed"
    /\ GrantEffect(t, a, k, ClaimsOf(t))

\* releaseTask.
Release(c) ==
    /\ topic # "closed"
    /\ ReleaseEffect(c)

\* completeTask.
Complete(c) ==
    /\ topic # "closed"
    /\ artState[c.task] \in WritableStates
    /\ CompleteEffect(c.task, c.token)

\* writeArtifact, under a claim k that no newer claim, sweep or completion has
\* fenced out, and with whatever number n is not below the accepted one.  The
\* claim may be gone by now: releaseTask and the drain do not wait for a write
\* whose guard has passed.
Write(t, k, n) ==
    /\ topic # "closed"
    /\ artState[t] \in WritableStates
    /\ k \in granted[t]
    /\ barrier[t] <= k
    /\ accepted[t] <= n
    /\ WriteEffect(t, k, n)

\* baselineArtifact.
Baseline(t, k, n) ==
    /\ topic # "closed"
    /\ artState[t] \in {"draft", "working"}
    /\ k \in granted[t]
    /\ barrier[t] <= k
    /\ accepted[t] <= n
    /\ BaselineEffect(t, k, n)

\* sweepAbandonedClaims: the expired claim of an active topic is recovered ...
Retire(c) ==
    /\ c.token \in expired
    /\ topic = "active"
    /\ RetireEffect(c)

\* ... that of a closing or closed one is dropped.
Drop(c) ==
    /\ c.token \in expired
    /\ topic # "active"
    /\ DropEffect(c)

\* closeTopic Phase 2-A, one claim.
ForceLapse(c) ==
    /\ topic = "closing"
    /\ ForceLapseEffect(c)

\* resolveArtifact, called by decideStep and applyMotionToStep.
Resolve(t, outcome) ==
    /\ topic # "closed"
    /\ artState[t] = "for_review"
    /\ ResolveEffect(t, outcome)

\* closeTopic Phase 1 and Phase 3.
Freeze == topic = "active" /\ TopicEffect("closing")
Seal == topic = "closing" /\ TopicEffect("closed")

\* Time passes the expires_at of a claim.
Expire(c) == c.token \notin expired /\ ExpireEffect(c)

Init == BoardInit

Next ==
    \/ \E t \in Tasks : Post(t)
    \/ \E t \in Tasks, a \in Actors, k \in Tokens : Grant(t, a, k)
    \/ \E c \in claims : Release(c)
    \/ \E c \in claims : Complete(c)
    \/ \E t \in Tasks, k \in Tokens, n \in Numbers : Write(t, k, n)
    \/ \E t \in Tasks, k \in Tokens, n \in Numbers : Baseline(t, k, n)
    \/ \E c \in claims : Retire(c)
    \/ \E c \in claims : Drop(c)
    \/ \E c \in claims : ForceLapse(c)
    \/ \E t \in Tasks, o \in {"final", "working"} : Resolve(t, o)
    \/ Freeze
    \/ Seal
    \/ \E c \in claims : Expire(c)

Spec == Init /\ [][Next]_boardVars

-----------------------------------------------------------------------------
(* The inductive invariant behind the properties of BoardState. *)

\* Where a task and its artifact can be together.
RowsAgree ==
    \A t \in Tasks :
        /\ task[t] = "none" <=> artState[t] = "none"
        /\ task[t] = "completed" =>
              artState[t] \in {"for_review", "final", "working"}
        /\ artState[t] \in {"for_review", "final"} => task[t] = "completed"

\* A token belongs to one task, the standing claim's is the barrier, what has
\* been accepted exceeds it only after a number above its claim's token, and a
\* completed task has fenced out all.
TokensInOrder ==
    /\ \A t \in Tasks :
          /\ t \notin strayed => accepted[t] <= barrier[t]
          /\ \A k \in granted[t] :
                k <= barrier[t] /\ (task[t] = "completed" => k < barrier[t])
    /\ \A t, u \in Tasks : t # u => granted[t] \cap granted[u] = {}
    /\ \A c \in claims :
          c.token \in granted[c.task] /\ c.token = barrier[c.task]

\* After every commit of a Board transaction its claims, tasks, artifacts,
\* tokens, baselines and log agree with each other.
BoardInv ==
    /\ OneClaimPerArtifact
    /\ ClaimMatchesTask
    /\ RowsAgree
    /\ TokensInOrder
    /\ BaselineSurvives
    /\ LogTellsTheBoard
=============================================================================
