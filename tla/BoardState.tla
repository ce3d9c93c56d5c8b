----------------------------- MODULE BoardState -----------------------------
(***************************************************************************)
(* The committed rows of one topic's Board (services/board.ts,             *)
(* services/artifacts.ts, migration 0054): its tasks, the one output       *)
(* artifact of each task, the claims (leases) on them, and what the        *)
(* topic's event log tells a reader who replays it.  Board and BoardTxn    *)
(* both describe how these rows change: Board says what every COMMIT must  *)
(* respect, BoardTxn runs the transactions of the code statement by        *)
(* statement.                                                              *)
(*                                                                         *)
(* Data abstracted away: a claim is named by its fencing token, which is   *)
(* drawn once (claim_id and token are always issued together); the content *)
(* of an artifact is the claim it was written under, 0 for NULL; a TTL is  *)
(* the set of tokens whose expires_at has passed; the event log is the     *)
(* task status and artifact state its last events announce.  A topic that  *)
(* is "chartered" is treated as "active": the Board never tells them apart.*)
(*                                                                         *)
(* A writer presents a claim and, apart from it, a number as its fencing   *)
(* token; nothing in the code ties the number to the claim, so neither     *)
(* does the model: k names the claim below, n the number.                  *)
(***************************************************************************)
EXTENDS Naturals

CONSTANTS Tasks,       \* tasks that may ever be posted on the topic
          Actors,      \* actor_ids that claim, write, release and complete
          MaxToken,    \* bound: values coordination_fencing_seq may hand out
          Numbers,     \* bound: values callers present as fencing_token
          DependsOn,   \* depends_on of each task
          Topology     \* topology of each task

Topologies == {"parallel", "sequential", "rolling"}

ASSUME MaxTokenAssumption == MaxToken \in Nat
ASSUME NumbersAssumption == Numbers \subseteq Nat
ASSUME DependsOnAssumption == DependsOn \in [Tasks -> SUBSET Tasks]
ASSUME TopologyAssumption == Topology \in [Tasks -> Topologies]

VARIABLES topic,       \* topics.status
          task,        \* tasks.status, "none" before the row exists
          artState,    \* artifacts.state, "none" before the row exists
          content,     \* artifacts.content_ref
          accepted,    \* artifacts.accepted_fencing_token
          baselined,   \* some artifact_versions row is 'baselined' ...
          base,        \* ... and the content_ref of the last such row
          claims,      \* rows of the claims table
          expired,     \* tokens of the claims whose expires_at <= now()
          logTask,     \* task status announced by the event log
          logArt,      \* artifact state announced by the event log
          granted,     \* history: tokens of the claims ever inserted, per task
          barrier,     \* history: the lowest claim that may still write, per task
          strayed      \* history: tasks whose artifact accepted a number above
                       \* the token of the claim it was presented with

artVars == <<artState, content, accepted, baselined, base>>
logVars == <<logTask, logArt>>
histVars == <<granted, barrier, strayed>>
boardVars == <<topic, task, artVars, claims, expired, logVars, histVars>>

Tokens == 1..MaxToken
TopicStatus == {"active", "closing", "closed"}
TaskStatus == {"none", "posted", "claimed", "completed", "abandoned"}
ArtState == {"none", "draft", "working", "baselined", "for_review", "final"}
ClaimRows == [task : Tasks, actor : Actors, token : Tokens]

\* The rows hold what their columns and CHECK constraints allow (migrations
\* 0053 and 0054).
TypeOK ==
    /\ topic \in TopicStatus
    /\ task \in [Tasks -> TaskStatus]
    /\ artState \in [Tasks -> ArtState]
    /\ content \in [Tasks -> Nat]
    /\ accepted \in [Tasks -> Nat]
    /\ baselined \in [Tasks -> BOOLEAN]
    /\ base \in [Tasks -> Nat]
    /\ claims \subseteq ClaimRows
    /\ expired \subseteq Tokens
    /\ logTask \in [Tasks -> TaskStatus]
    /\ logArt \in [Tasks -> ArtState]
    /\ granted \in [Tasks -> SUBSET Tokens]
    /\ barrier \in [Tasks -> Nat]
    /\ strayed \subseteq Tasks

\* charterTopic / joinTopic have run: an open topic with an empty board.
BoardInit ==
    /\ topic = "active"
    /\ task = [t \in Tasks |-> "none"]
    /\ artState = [t \in Tasks |-> "none"]
    /\ content = [t \in Tasks |-> 0]
    /\ accepted = [t \in Tasks |-> 0]
    /\ baselined = [t \in Tasks |-> FALSE]
    /\ base = [t \in Tasks |-> 0]
    /\ claims = {}
    /\ expired = {}
    /\ logTask = [t \in Tasks |-> "none"]
    /\ logArt = [t \in Tasks |-> "none"]
    /\ granted = [t \in Tasks |-> {}]
    /\ barrier = [t \in Tasks |-> 0]
    /\ strayed = {}

ClaimsOf(t) == {c \in claims : c.task = t}
WritableStates == {"draft", "working", "baselined"}

\* DELETE FROM claims: the rows go, and their expiry with them.
Delete(gone) ==
    /\ claims' = claims \ gone
    /\ expired' = expired \ {c.token : c \in gone}

-----------------------------------------------------------------------------
(* What each transaction writes, once it has decided to commit. *)

\* postTask: the task, its draft artifact, task.posted and artifact.created.
PostEffect(t) ==
    /\ task' = [task EXCEPT ![t] = "posted"]
    /\ artState' = [artState EXCEPT ![t] = "draft"]
    /\ logTask' = [logTask EXCEPT ![t] = "posted"]
    /\ logArt' = [logArt EXCEPT ![t] = "draft"]
    /\ UNCHANGED <<topic, content, accepted, baselined, base, claims, expired,
                   histVars>>

\* claimTask: deletes the rows `gone`, inserts the new claim, task.claimed.
GrantEffect(t, a, k, gone) ==
    /\ claims' = (claims \ gone) \cup {[task |-> t, actor |-> a, token |-> k]}
    /\ task' = [task EXCEPT ![t] = "claimed"]
    /\ logTask' = [logTask EXCEPT ![t] = "claimed"]
    /\ granted' = [granted EXCEPT ![t] = @ \cup {k}]
    /\ barrier' = [barrier EXCEPT ![t] = k]
    /\ expired' = expired \ {c.token : c \in gone}
    /\ UNCHANGED <<topic, artVars, logArt, strayed>>

\* Faulty variants of releaseTask: a status the board does not know, and the
\* task.released event left out.
ReleaseToReleased(c) ==
    /\ Delete({c})
    /\ task' = [task EXCEPT ![c.task] = "released"]
    /\ logTask' = [logTask EXCEPT ![c.task] = "released"]
    /\ UNCHANGED <<topic, artVars, logArt, histVars>>
ReleaseSilently(c) ==
    /\ Delete({c})
    /\ task' = [task EXCEPT ![c.task] = "posted"]
    /\ UNCHANGED <<topic, artVars, logVars, histVars>>

\* releaseTask: the artifact keeps what the holder wrote (a hand-off).
ReleaseEffect(c) ==
    /\ Delete({c})
    /\ task' = [task EXCEPT ![c.task] = "posted"]
    /\ logTask' = [logTask EXCEPT ![c.task] = "posted"]
    /\ UNCHANGED <<topic, artVars, logArt, histVars>>

\* Faulty variant of completeTask: the claim row is left behind.
CompleteKeepsClaim(t, k) ==
    /\ task' = [task EXCEPT ![t] = "completed"]
    /\ artState' = [artState EXCEPT ![t] = "for_review"]
    /\ logTask' = [logTask EXCEPT ![t] = "completed"]
    /\ logArt' = [logArt EXCEPT ![t] = "for_review"]
    /\ barrier' = [barrier EXCEPT ![t] = k + 1]
    /\ UNCHANGED <<topic, content, accepted, baselined, base, claims, expired,
                   granted, strayed>>

\* completeTask: every claim of the artifact goes, the artifact is submitted.
CompleteEffect(t, k) ==
    /\ Delete(ClaimsOf(t))
    /\ task' = [task EXCEPT ![t] = "completed"]
    /\ artState' = [artState EXCEPT ![t] = "for_review"]
    /\ logTask' = [logTask EXCEPT ![t] = "completed"]
    /\ logArt' = [logArt EXCEPT ![t] = "for_review"]
    /\ barrier' = [barrier EXCEPT ![t] = k + 1]
    /\ UNCHANGED <<topic, content, accepted, baselined, base, granted, strayed>>

\* The UPDATE stores the presented number as accepted_fencing_token.
Accept(t, k, n) ==
    /\ accepted' = [accepted EXCEPT ![t] = n]
    /\ strayed' = IF n > k THEN strayed \cup {t} ELSE strayed

\* Faulty variant of writeArtifact: stores the next number it would accept.
WriteStoresNext(t, k, n) ==
    /\ artState' = [artState EXCEPT ![t] = "working"]
    /\ content' = [content EXCEPT ![t] = k]
    /\ accepted' = [accepted EXCEPT ![t] = n + 1]
    /\ strayed' = IF n > k THEN strayed \cup {t} ELSE strayed
    /\ logArt' = [logArt EXCEPT ![t] = "working"]
    /\ UNCHANGED <<topic, task, baselined, base, claims, expired, logTask,
                   granted, barrier>>

\* writeArtifact: new content, state working, the number becomes the accepted one.
WriteEffect(t, k, n) ==
    /\ artState' = [artState EXCEPT ![t] = "working"]
    /\ content' = [content EXCEPT ![t] = k]
    /\ Accept(t, k, n)
    /\ logArt' = [logArt EXCEPT ![t] = "working"]
    /\ UNCHANGED <<topic, task, baselined, base, claims, expired, logTask,
                   granted, barrier>>

\* baselineArtifact: marks the present content as a checkpoint.
BaselineEffect(t, k, n) ==
    /\ artState' = [artState EXCEPT ![t] = "baselined"]
    /\ Accept(t, k, n)
    /\ baselined' = [baselined EXCEPT ![t] = TRUE]
    /\ base' = [base EXCEPT ![t] = content[t]]
    /\ logArt' = [logArt EXCEPT ![t] = "baselined"]
    /\ UNCHANGED <<topic, task, content, claims, expired, logTask, granted, barrier>>

\* Faulty variant of revertArtifact: un-baselines.
RevertToDraft(t) == "draft"

\* revertArtifact's target: the last baseline, or an empty draft.
RevertState(t) == IF baselined[t] THEN "baselined" ELSE "draft"
RevertContent(t) == IF baselined[t] THEN base[t] ELSE 0

\* sweepAbandonedClaims on an open topic: claim dropped, task back on the
\* board, artifact reverted, all of it announced.
RetireEffect(c) ==
    /\ Delete({c})
    /\ task' = [task EXCEPT ![c.task] = IF @ = "claimed" THEN "posted" ELSE @]
    /\ artState' = [artState EXCEPT ![c.task] = RevertState(c.task)]
    /\ content' = [content EXCEPT ![c.task] = RevertContent(c.task)]
    /\ logTask' = [logTask EXCEPT ![c.task] = "posted"]
    /\ logArt' = [logArt EXCEPT ![c.task] = RevertState(c.task)]
    /\ barrier' = [barrier EXCEPT ![c.task] = c.token + 1]
    /\ UNCHANGED <<topic, accepted, baselined, base, granted, strayed>>

\* Faulty variant of the closed-topic branch: the task is forgotten.
DropKeepsTask(c) ==
    /\ Delete({c})
    /\ barrier' = [barrier EXCEPT ![c.task] = c.token + 1]
    /\ UNCHANGED <<topic, task, artVars, logVars, granted, strayed>>

\* sweepAbandonedClaims on a closing or closed topic: claim dropped, task
\* abandoned, no revert and no event.
DropEffect(c) ==
    /\ Delete({c})
    /\ task' = [task EXCEPT ![c.task] = IF @ = "claimed" THEN "abandoned" ELSE @]
    /\ barrier' = [barrier EXCEPT ![c.task] = c.token + 1]
    /\ UNCHANGED <<topic, artVars, logVars, granted, strayed>>

\* closeTopic Phase 2-A: claim dropped, task abandoned, claim.force_lapsed.
ForceLapseEffect(c) ==
    /\ Delete({c})
    /\ task' = [task EXCEPT ![c.task] = "abandoned"]
    /\ logTask' = [logTask EXCEPT ![c.task] = "abandoned"]
    /\ UNCHANGED <<topic, artVars, logArt, histVars>>

\* resolveArtifact (requests.ts): a submitted artifact is approved or returned.
ResolveEffect(t, outcome) ==
    /\ artState' = [artState EXCEPT ![t] = outcome]
    /\ logArt' = [logArt EXCEPT ![t] = outcome]
    /\ UNCHANGED <<topic, task, content, accepted, baselined, base, claims,
                   expired, logTask, histVars>>

\* closeTopic Phase 1 and Phase 3.
TopicEffect(status) ==
    /\ topic' = status
    /\ UNCHANGED <<task, artVars, claims, expired, logVars, histVars>>

\* The TTL of a claim runs out.
ExpireEffect(c) ==
    /\ expired' = expired \cup {c.token}
    /\ UNCHANGED <<topic, task, artVars, claims, logVars, histVars>>

-----------------------------------------------------------------------------
(* Properties of the committed rows. *)

\* At most one claim row per artifact (claims_active_uniq; 15.2 design, §9.1).
OneClaimPerArtifact ==
    \A c, d \in claims : c.task = d.task => c = d

\* A task reads 'claimed' exactly while a claim row stands behind it: no task
\* is stuck in 'claimed' with nothing left to expire, and no holder of a claim
\* sees its task offered to, or finished by, somebody else.
ClaimMatchesTask ==
    \A t \in Tasks : task[t] = "claimed" <=> ClaimsOf(t) # {}

\* No holder is fenced out by another's work: the claim that stands on an
\* artifact is the newest ever granted, and unless some writer presented a
\* number above its own claim's token, the artifact has accepted nothing that
\* refuses the holder as 'fencing_token_stale' (15.2 design, §9.3).  Where one
\* did, the code promises nothing: the guarded UPDATE compares the number with
\* accepted_fencing_token only, and the holder may fence out itself and others.
HolderNeverFencedOut ==
    \A c \in claims :
        /\ \A k \in granted[c.task] : k <= c.token
        /\ c.task \notin strayed => accepted[c.task] <= c.token

\* Work handed in for review is out of reach of claims: its task is completed
\* and stays so, whatever the review decides (completeTask, resolveArtifact).
SubmittedWorkIsUnclaimed ==
    \A t \in Tasks :
        artState[t] \in {"for_review", "final"} =>
            task[t] = "completed" /\ ClaimsOf(t) = {}

\* A baseline is never lost: an artifact that has one never reads 'draft', and
\* while it reads 'baselined' it shows the content of its last baseline
\* (15.2 design, §9.5).
BaselineSurvives ==
    \A t \in Tasks :
        /\ baselined[t] => artState[t] \notin {"none", "draft"}
        /\ artState[t] = "baselined" => baselined[t] /\ content[t] = base[t]

\* Replaying the event log of an active topic gives the board as it is: every
\* change commits with its events (15.2 design, §9.9).
LogTellsTheBoard ==
    topic = "active" => logTask = task /\ logArt = artState

\* A claim on a 'sequential' task is only ever held over finished predecessors
\* (claimTask's topology check), however late it commits.
SequentialOrder ==
    \A c \in claims :
        Topology[c.task] = "sequential" =>
            \A d \in DependsOn[c.task] : task[d] = "completed"

\* A sealed topic is frozen: after topic.closed no step changes the log, an
\* artifact or a claim, except the sweep's removal of expired claims
\* (appendEvent's seal; 15.2 design, §9.7).
SealedTopicIsFrozen ==
    [][topic = "closed" =>
          /\ UNCHANGED <<topic, artVars, logVars>>
          /\ claims' \subseteq claims
          /\ \A c \in claims \ claims' : c.token \in expired]_boardVars

\* A completed task stays completed: neither the sweep, a late release, nor the
\* drain's unconditional UPDATE tasks undoes it.
CompletedIsFinal ==
    [][\A t \in Tasks : task[t] = "completed" => task'[t] = "completed"]_boardVars
=============================================================================
