---------------------------- MODULE BoardProofs -----------------------------
(***************************************************************************)
(* Proofs about the contract of the Board, for any set of tasks and actors *)
(* and any bound on the tokens.  IInv is the inductive invariant; every    *)
(* property of the committed rows follows from it.                         *)
(***************************************************************************)
EXTENDS Board, TLAPS

IInv == TypeOK /\ BoardInv

\* The board of a freshly chartered topic satisfies the invariant.
LEMMA InitInv == Init => IInv
  BY DEF Init, BoardInit, IInv, TypeOK, BoardInv, OneClaimPerArtifact,
         ClaimMatchesTask, RowsAgree, TokensInOrder, BaselineSurvives,
         LogTellsTheBoard, ClaimsOf, TopicStatus, TaskStatus, ArtState

-----------------------------------------------------------------------------
(* Types. *)

\* The columns of a claims row.
LEMMA ClaimType ==
  ASSUME TypeOK, NEW c \in claims
  PROVE  c.task \in Tasks /\ c.token \in Tokens /\ c.token \in Nat /\ c.token + 1 \in Nat
  BY MaxTokenAssumption DEF TypeOK, ClaimRows, Tokens

\* claimTask keeps the types: it inserts one row and draws one token.
LEMMA GrantType ==
  ASSUME TypeOK, NEW t \in Tasks, NEW a \in Actors, NEW k \in Tokens, Grant(t, a, k)
  PROVE  TypeOK'
<1> USE DEF TypeOK, Grant, GrantEffect, artVars, Tokens
<1>1. claims' \subseteq ClaimRows
  BY DEF ClaimsOf, ClaimRows
<1>2. task' \in [Tasks -> TaskStatus] /\ logTask' \in [Tasks -> TaskStatus]
  BY DEF TaskStatus
<1>3. granted' \in [Tasks -> SUBSET Tokens]
  <2>1. granted[t] \cup {k} \in SUBSET Tokens
    OBVIOUS
  <2> QED
    BY <2>1
<1>4. barrier' \in [Tasks -> Nat]
  BY MaxTokenAssumption
<1>5. expired' \subseteq Tokens
  OBVIOUS
<1> QED
  BY <1>1, <1>2, <1>3, <1>4, <1>5

\* No transaction of the Board leaves the types of its rows.
LEMMA NextType == TypeOK /\ [Next]_boardVars => TypeOK'
<1> SUFFICES ASSUME TypeOK, [Next]_boardVars PROVE TypeOK'
  OBVIOUS
<1> USE DEF TypeOK, Tokens, TopicStatus, TaskStatus, ArtState, ClaimsOf,
            artVars, logVars, histVars, Delete
<1>1. ASSUME NEW t \in Tasks, Post(t) PROVE TypeOK'
  BY <1>1 DEF Post, PostEffect
<1>2. ASSUME NEW t \in Tasks, NEW a \in Actors, NEW k \in Tokens, Grant(t, a, k)
      PROVE TypeOK'
  BY <1>2, GrantType
<1>3. ASSUME NEW c \in claims, Release(c) PROVE TypeOK'
  BY <1>3, ClaimType DEF Release, ReleaseEffect
<1>4. ASSUME NEW c \in claims, Complete(c) PROVE TypeOK'
  BY <1>4, ClaimType DEF Complete, CompleteEffect
<1>5. ASSUME NEW t \in Tasks, NEW k \in Tokens, NEW n \in Numbers, Write(t, k, n)
      PROVE TypeOK'
  BY <1>5, MaxTokenAssumption, NumbersAssumption DEF Write, WriteEffect, Accept
<1>6. ASSUME NEW t \in Tasks, NEW k \in Tokens, NEW n \in Numbers, Baseline(t, k, n)
      PROVE TypeOK'
  BY <1>6, MaxTokenAssumption, NumbersAssumption DEF Baseline, BaselineEffect, Accept
<1>7. ASSUME NEW c \in claims, Retire(c) PROVE TypeOK'
  BY <1>7, ClaimType DEF Retire, RetireEffect, RevertState, RevertContent
<1>8. ASSUME NEW c \in claims, Drop(c) PROVE TypeOK'
  BY <1>8, ClaimType DEF Drop, DropEffect
<1>9. ASSUME NEW c \in claims, ForceLapse(c) PROVE TypeOK'
  BY <1>9, ClaimType DEF ForceLapse, ForceLapseEffect
<1>10. ASSUME NEW t \in Tasks, NEW o \in {"final", "working"}, Resolve(t, o)
       PROVE TypeOK'
  BY <1>10 DEF Resolve, ResolveEffect
<1>11. ASSUME Freeze \/ Seal PROVE TypeOK'
  BY <1>11 DEF Freeze, Seal, TopicEffect
<1>12. ASSUME NEW c \in claims, Expire(c) PROVE TypeOK'
  BY <1>12, ClaimType DEF Expire, ExpireEffect
<1>13. ASSUME UNCHANGED boardVars PROVE TypeOK'
  BY <1>13 DEF boardVars
<1> QED
  BY <1>1, <1>2, <1>3, <1>4, <1>5, <1>6, <1>7, <1>8, <1>9, <1>10, <1>11,
     <1>12, <1>13 DEF Next

\* The rows of the Board only ever hold the values their CHECK constraints and
\* the code allow.
THEOREM TypeCorrect == Spec => []TypeOK
<1>1. Init => TypeOK
  BY InitInv DEF IInv
<1> QED
  BY <1>1, NextType, PTL DEF Spec

-----------------------------------------------------------------------------
(* BoardInv is preserved, action by action. *)

\* What BoardInv says of a claim that stands on the board.
LEMMA ClaimFacts ==
  ASSUME IInv, NEW c \in claims
  PROVE  /\ c.task \in Tasks /\ c.token \in Tokens
         /\ c.token \in Nat /\ c.token + 1 \in Nat
         /\ task[c.task] = "claimed"
         /\ artState[c.task] \notin {"none", "for_review", "final"}
         /\ ClaimsOf(c.task) = {c}
         /\ barrier[c.task] = c.token
  BY ClaimType DEF IInv, BoardInv, OneClaimPerArtifact, ClaimMatchesTask,
     RowsAgree, TokensInOrder, ClaimsOf

\* postTask: a new task starts unclaimed, with a draft artifact and a log that
\* says so.
LEMMA PostInv ==
  ASSUME IInv, NEW t \in Tasks, Post(t)
  PROVE  BoardInv'
<1> USE DEF IInv, TypeOK, BoardInv, artVars, logVars, histVars,
            Post, PostEffect
<1>1. OneClaimPerArtifact'
  BY DEF OneClaimPerArtifact
<1>2. ClaimMatchesTask'
  BY DEF ClaimMatchesTask, ClaimsOf
<1>3. RowsAgree'
  BY DEF RowsAgree
<1>4. TokensInOrder'
  BY MaxTokenAssumption DEF TokensInOrder, Tokens
<1>5. BaselineSurvives'
  BY DEF BaselineSurvives, RowsAgree
<1>6. LogTellsTheBoard'
  BY DEF LogTellsTheBoard
<1> QED
  BY <1>1, <1>2, <1>3, <1>4, <1>5, <1>6

\* claimTask: the only step that adds a claim.  The lapsed claims of the task go
\* in the same commit and the new token is above every token of the task.
LEMMA GrantInv ==
  ASSUME IInv, NEW t \in Tasks, NEW a \in Actors, NEW k \in Tokens, Grant(t, a, k)
  PROVE  BoardInv'
<1> USE DEF IInv, TypeOK, BoardInv, artVars, logVars, histVars,
            Grant, GrantEffect
<1> DEFINE new == [task |-> t, actor |-> a, token |-> k]
<1>a. /\ new \in claims' /\ new.task = t /\ new.token = k
      /\ \A c \in claims' : c = new \/ (c \in claims /\ c.task # t)
      /\ \A c \in claims : c.task # t => c \in claims'
  BY DEF ClaimsOf
<1>1. OneClaimPerArtifact'
  BY <1>a DEF OneClaimPerArtifact
<1>2. ClaimMatchesTask'
  <2> SUFFICES ASSUME NEW u \in Tasks
               PROVE  task'[u] = "claimed" <=> \E c \in claims' : c.task = u
    BY DEF ClaimMatchesTask, ClaimsOf
  <2>1. task[u] = "claimed" <=> \E c \in claims : c.task = u
    BY DEF ClaimMatchesTask, ClaimsOf
  <2>2. CASE u = t
    BY <1>a, <2>2
  <2>3. CASE u # t
    <3>1. (\E c \in claims : c.task = u) <=> (\E c \in claims' : c.task = u)
      BY <1>a, <2>3
    <3> QED
      BY <2>1, <2>3, <3>1
  <2> QED
    BY <2>2, <2>3
<1>3. RowsAgree'
  BY DEF RowsAgree
<1>4. TokensInOrder'
  <2>1. k \in Nat /\ \A j \in Tokens : j \in Nat
    BY MaxTokenAssumption DEF Tokens
  <2>2. /\ \A u \in Tasks : granted'[u] = IF u = t THEN granted[u] \cup {k} ELSE granted[u]
        /\ \A u \in Tasks : barrier'[u] = IF u = t THEN k ELSE barrier[u]
        /\ \A u \in Tasks : task'[u] = IF u = t THEN "claimed" ELSE task[u]
        /\ accepted' = accepted /\ strayed' = strayed
    OBVIOUS
  <2>3. \A u \in Tasks :
           /\ u \notin strayed' => accepted'[u] <= barrier'[u]
           /\ \A j \in granted'[u] :
                 j <= barrier'[u] /\ (task'[u] = "completed" => j < barrier'[u])
    <3> SUFFICES ASSUME NEW u \in Tasks
                 PROVE  /\ u \notin strayed' => accepted'[u] <= barrier'[u]
                        /\ \A j \in granted'[u] :
                              /\ j <= barrier'[u]
                              /\ task'[u] = "completed" => j < barrier'[u]
      OBVIOUS
    <3>1. CASE u # t
      BY <2>2, <3>1 DEF TokensInOrder
    <3>2. CASE u = t
      <4>1. /\ t \notin strayed => accepted[t] <= barrier[t]
            /\ \A j \in granted[t] : j <= barrier[t]
        BY DEF TokensInOrder
      <4>2. accepted[t] \in Nat /\ barrier[t] \in Nat /\ barrier[t] <= k
        OBVIOUS
      <4>3. (t \notin strayed => accepted[t] <= k) /\ \A j \in granted[t] : j <= k
        BY <2>1, <4>1, <4>2
      <4>4. /\ granted'[u] = granted[t] \cup {k} /\ barrier'[u] = k
            /\ task'[u] = "claimed" /\ accepted'[u] = accepted[t] /\ strayed' = strayed
        BY <2>2, <3>2
      <4>5. \A j \in granted'[u] : j <= k
        BY <2>1, <4>3, <4>4
      <4> QED
        BY <3>2, <4>3, <4>4, <4>5
    <3> QED
      BY <3>1, <3>2
  <2>4. \A u, v \in Tasks : u # v => granted'[u] \cap granted'[v] = {}
    BY <2>2 DEF TokensInOrder
  <2>5. \A c \in claims' :
           c.token \in granted'[c.task] /\ c.token = barrier'[c.task]
    <3> SUFFICES ASSUME NEW c \in claims'
                 PROVE  c.token \in granted'[c.task] /\ c.token = barrier'[c.task]
      OBVIOUS
    <3>1. CASE c = new
      BY <1>a, <2>2, <3>1
    <3>2. CASE c \in claims /\ c.task # t
      BY <2>2, <3>2, ClaimType DEF TokensInOrder
    <3> QED
      BY <1>a, <3>1, <3>2
  <2> QED
    BY <2>3, <2>4, <2>5 DEF TokensInOrder
<1>5. BaselineSurvives'
  BY DEF BaselineSurvives
<1>6. LogTellsTheBoard'
  BY DEF LogTellsTheBoard
<1> QED
  BY <1>1, <1>2, <1>3, <1>4, <1>5, <1>6

\* releaseTask: the task returns to the board as its only claim goes.
LEMMA ReleaseInv ==
  ASSUME IInv, NEW c \in claims, Release(c)
  PROVE  BoardInv'
<1> USE DEF IInv, TypeOK, BoardInv, artVars, logVars, histVars,
            Release, ReleaseEffect, Delete
<1>1. OneClaimPerArtifact'
  BY ClaimFacts DEF OneClaimPerArtifact
<1>2. ClaimMatchesTask'
  BY ClaimFacts DEF ClaimMatchesTask, ClaimsOf
<1>3. RowsAgree'
  BY ClaimFacts DEF RowsAgree
<1>4. TokensInOrder'
  BY ClaimFacts, MaxTokenAssumption DEF TokensInOrder, Tokens
<1>5. BaselineSurvives'
  BY ClaimFacts DEF BaselineSurvives
<1>6. LogTellsTheBoard'
  BY ClaimFacts DEF LogTellsTheBoard
<1> QED
  BY <1>1, <1>2, <1>3, <1>4, <1>5, <1>6

\* completeTask: the claim goes, its token is fenced out, the artifact is handed in.
LEMMA CompleteInv ==
  ASSUME IInv, NEW c \in claims, Complete(c)
  PROVE  BoardInv'
<1> USE DEF IInv, TypeOK, BoardInv, artVars, logVars, histVars,
            Complete, CompleteEffect, Delete, WritableStates
<1>1. OneClaimPerArtifact'
  BY ClaimFacts DEF OneClaimPerArtifact
<1>2. ClaimMatchesTask'
  BY ClaimFacts DEF ClaimMatchesTask, ClaimsOf
<1>3. RowsAgree'
  BY ClaimFacts DEF RowsAgree
<1>4. TokensInOrder'
  <2>1. \A d \in claims' : d \in claims /\ d.task # c.task /\ d.task \in Tasks
    BY ClaimFacts, ClaimType DEF ClaimsOf
  <2>2. \A u \in Tasks : barrier'[u] = IF u = c.task THEN c.token + 1 ELSE barrier[u]
    BY ClaimFacts
  <2>3. \A j \in granted[c.task] : j \in Nat /\ j < c.token + 1
    BY ClaimFacts, MaxTokenAssumption DEF TokensInOrder, Tokens
  <2>4. c.task \notin strayed => accepted[c.task] <= c.token + 1
    BY ClaimFacts DEF TokensInOrder
  <2> QED
    BY ClaimFacts, <2>1, <2>2, <2>3, <2>4 DEF TokensInOrder
<1>5. BaselineSurvives'
  BY ClaimFacts DEF BaselineSurvives
<1>6. LogTellsTheBoard'
  BY ClaimFacts DEF LogTellsTheBoard
<1> QED
  BY <1>1, <1>2, <1>3, <1>4, <1>5, <1>6

\* writeArtifact: the claim may be gone, but its token is not fenced out, so the
\* task is not completed and the artifact stays within RowsAgree.
LEMMA WriteInv ==
  ASSUME IInv, NEW t \in Tasks, NEW k \in Tokens, NEW n \in Numbers, Write(t, k, n)
  PROVE  BoardInv'
<1> USE DEF IInv, TypeOK, BoardInv, artVars, logVars, histVars,
            Write, WriteEffect, Accept, WritableStates
<1>1. OneClaimPerArtifact'
  BY DEF OneClaimPerArtifact
<1>2. ClaimMatchesTask'
  BY DEF ClaimMatchesTask, ClaimsOf
<1>3. RowsAgree'
  BY MaxTokenAssumption DEF RowsAgree, TokensInOrder, Tokens
<1>4. TokensInOrder'
  <2>1. \A u \in Tasks : u \notin strayed' => accepted'[u] <= barrier'[u]
    <3>1. /\ \A u \in Tasks : u \notin strayed => accepted[u] <= barrier[u]
          /\ k \in Nat /\ n \in Nat /\ barrier[t] <= k /\ barrier' = barrier
          /\ accepted' = [accepted EXCEPT ![t] = n]
          /\ strayed' = IF n > k THEN strayed \cup {t} ELSE strayed
          /\ k \in granted[t]
      BY MaxTokenAssumption, NumbersAssumption DEF TokensInOrder, Tokens
    <3>2. k <= barrier[t]
      BY <3>1 DEF TokensInOrder
    <3> QED
      BY <3>1, <3>2
  <2> QED
    BY <2>1, MaxTokenAssumption DEF TokensInOrder, Tokens
<1>5. BaselineSurvives'
  BY DEF BaselineSurvives
<1>6. LogTellsTheBoard'
  BY DEF LogTellsTheBoard
<1> QED
  BY <1>1, <1>2, <1>3, <1>4, <1>5, <1>6

\* baselineArtifact: like a write, and the baseline shows the present content.
LEMMA BaselineInv ==
  ASSUME IInv, NEW t \in Tasks, NEW k \in Tokens, NEW n \in Numbers, Baseline(t, k, n)
  PROVE  BoardInv'
<1> USE DEF IInv, TypeOK, BoardInv, artVars, logVars, histVars,
            Baseline, BaselineEffect, Accept
<1>1. OneClaimPerArtifact'
  BY DEF OneClaimPerArtifact
<1>2. ClaimMatchesTask'
  BY DEF ClaimMatchesTask, ClaimsOf
<1>3. RowsAgree'
  BY MaxTokenAssumption DEF RowsAgree, TokensInOrder, Tokens
<1>4. TokensInOrder'
  <2>1. \A u \in Tasks : u \notin strayed' => accepted'[u] <= barrier'[u]
    <3>1. /\ \A u \in Tasks : u \notin strayed => accepted[u] <= barrier[u]
          /\ k \in Nat /\ n \in Nat /\ barrier[t] <= k /\ barrier' = barrier
          /\ accepted' = [accepted EXCEPT ![t] = n]
          /\ strayed' = IF n > k THEN strayed \cup {t} ELSE strayed
          /\ k \in granted[t]
      BY MaxTokenAssumption, NumbersAssumption DEF TokensInOrder, Tokens
    <3>2. k <= barrier[t]
      BY <3>1 DEF TokensInOrder
    <3> QED
      BY <3>1, <3>2
  <2> QED
    BY <2>1, MaxTokenAssumption DEF TokensInOrder, Tokens
<1>5. BaselineSurvives'
  BY DEF BaselineSurvives
<1>6. LogTellsTheBoard'
  BY DEF LogTellsTheBoard
<1> QED
  BY <1>1, <1>2, <1>3, <1>4, <1>5, <1>6

\* sweepAbandonedClaims on an active topic: claim, task and artifact go back
\* together.
LEMMA RetireInv ==
  ASSUME IInv, NEW c \in claims, Retire(c)
  PROVE  BoardInv'
<1> USE DEF IInv, TypeOK, BoardInv, artVars, logVars, histVars,
            Retire, RetireEffect, Delete, RevertState, RevertContent
<1>1. OneClaimPerArtifact'
  BY ClaimFacts DEF OneClaimPerArtifact
<1>2. ClaimMatchesTask'
  BY ClaimFacts DEF ClaimMatchesTask, ClaimsOf
<1>3. RowsAgree'
  BY ClaimFacts DEF RowsAgree
<1>4. TokensInOrder'
  <2>1. \A d \in claims' : d \in claims /\ d.task # c.task /\ d.task \in Tasks
    BY ClaimFacts, ClaimType DEF ClaimsOf
  <2>2. \A u \in Tasks : barrier'[u] = IF u = c.task THEN c.token + 1 ELSE barrier[u]
    BY ClaimFacts
  <2>3. \A j \in granted[c.task] : j \in Nat /\ j < c.token + 1
    BY ClaimFacts, MaxTokenAssumption DEF TokensInOrder, Tokens
  <2>4. c.task \notin strayed => accepted[c.task] <= c.token + 1
    BY ClaimFacts DEF TokensInOrder
  <2> QED
    BY ClaimFacts, <2>1, <2>2, <2>3, <2>4 DEF TokensInOrder
<1>5. BaselineSurvives'
  BY ClaimFacts DEF BaselineSurvives
<1>6. LogTellsTheBoard'
  BY ClaimFacts DEF LogTellsTheBoard
<1> QED
  BY <1>1, <1>2, <1>3, <1>4, <1>5, <1>6

\* sweepAbandonedClaims on a closing or closed topic: the task is abandoned with
\* its claim.
LEMMA DropInv ==
  ASSUME IInv, NEW c \in claims, Drop(c)
  PROVE  BoardInv'
<1> USE DEF IInv, TypeOK, BoardInv, artVars, logVars, histVars,
            Drop, DropEffect, Delete
<1>1. OneClaimPerArtifact'
  BY ClaimFacts DEF OneClaimPerArtifact
<1>2. ClaimMatchesTask'
  BY ClaimFacts DEF ClaimMatchesTask, ClaimsOf
<1>3. RowsAgree'
  BY ClaimFacts DEF RowsAgree
<1>4. TokensInOrder'
  <2>1. \A d \in claims' : d \in claims /\ d.task # c.task /\ d.task \in Tasks
    BY ClaimFacts, ClaimType DEF ClaimsOf
  <2>2. \A u \in Tasks : barrier'[u] = IF u = c.task THEN c.token + 1 ELSE barrier[u]
    BY ClaimFacts
  <2>3. \A j \in granted[c.task] : j \in Nat /\ j < c.token + 1
    BY ClaimFacts, MaxTokenAssumption DEF TokensInOrder, Tokens
  <2>4. c.task \notin strayed => accepted[c.task] <= c.token + 1
    BY ClaimFacts DEF TokensInOrder
  <2> QED
    BY ClaimFacts, <2>1, <2>2, <2>3, <2>4 DEF TokensInOrder
<1>5. BaselineSurvives'
  BY ClaimFacts DEF BaselineSurvives
<1>6. LogTellsTheBoard'
  BY ClaimFacts DEF LogTellsTheBoard
<1> QED
  BY <1>1, <1>2, <1>3, <1>4, <1>5, <1>6

\* The claim pass of closeTopic's drain: its unconditional UPDATE tasks only ever
\* meets a claimed task.
LEMMA ForceLapseInv ==
  ASSUME IInv, NEW c \in claims, ForceLapse(c)
  PROVE  BoardInv'
<1> USE DEF IInv, TypeOK, BoardInv, artVars, logVars, histVars,
            ForceLapse, ForceLapseEffect, Delete
<1>1. OneClaimPerArtifact'
  BY ClaimFacts DEF OneClaimPerArtifact
<1>2. ClaimMatchesTask'
  BY ClaimFacts DEF ClaimMatchesTask, ClaimsOf
<1>3. RowsAgree'
  BY ClaimFacts DEF RowsAgree
<1>4. TokensInOrder'
  BY ClaimFacts, MaxTokenAssumption DEF TokensInOrder, Tokens
<1>5. BaselineSurvives'
  BY ClaimFacts DEF BaselineSurvives
<1>6. LogTellsTheBoard'
  BY ClaimFacts DEF LogTellsTheBoard
<1> QED
  BY <1>1, <1>2, <1>3, <1>4, <1>5, <1>6

\* resolveArtifact: a decision moves an artifact out of for_review only.
LEMMA ResolveInv ==
  ASSUME IInv, NEW t \in Tasks, NEW o \in {"final", "working"}, Resolve(t, o)
  PROVE  BoardInv'
<1> USE DEF IInv, TypeOK, BoardInv, artVars, logVars, histVars,
            Resolve, ResolveEffect
<1>1. OneClaimPerArtifact'
  BY DEF OneClaimPerArtifact
<1>2. ClaimMatchesTask'
  BY DEF ClaimMatchesTask, ClaimsOf
<1>3. RowsAgree'
  BY DEF RowsAgree
<1>4. TokensInOrder'
  BY MaxTokenAssumption DEF TokensInOrder, Tokens
<1>5. BaselineSurvives'
  BY DEF BaselineSurvives
<1>6. LogTellsTheBoard'
  BY DEF LogTellsTheBoard
<1> QED
  BY <1>1, <1>2, <1>3, <1>4, <1>5, <1>6

\* Freezing, sealing and the clock leave the rows of the Board alone.
LEMMA OtherInv ==
  ASSUME IInv,
         \/ Freeze
         \/ Seal
         \/ \E c \in claims : Expire(c)
         \/ UNCHANGED boardVars
  PROVE  BoardInv'
<1>1. /\ UNCHANGED <<task, artState, content, accepted, baselined, base, claims,
                     logTask, logArt, granted, barrier, strayed>>
      /\ topic' = "active" => topic = "active"
  BY DEF Freeze, Seal, Expire, TopicEffect, ExpireEffect, boardVars, artVars,
         logVars, histVars
<1> QED
  BY <1>1 DEF IInv, BoardInv, OneClaimPerArtifact, ClaimMatchesTask, RowsAgree,
     TokensInOrder, BaselineSurvives, LogTellsTheBoard, ClaimsOf

\* IInv is inductive: every transaction of the Board preserves it.
LEMMA NextInv == IInv /\ [Next]_boardVars => IInv'
<1> SUFFICES ASSUME IInv, [Next]_boardVars PROVE BoardInv'
  BY NextType DEF IInv
<1> QED
  BY PostInv, GrantInv, ReleaseInv, CompleteInv, WriteInv, BaselineInv,
     RetireInv, DropInv, ForceLapseInv, ResolveInv, OtherInv
  DEF Next

\* IInv holds after every commit.
LEMMA AlwaysInv == Spec => []IInv
  BY InitInv, NextInv, PTL DEF Spec

-----------------------------------------------------------------------------
(* The properties of the committed rows. *)

\* Claims, task statuses, artifact states, fencing tokens, baselines and the
\* event log agree after every commit.
THEOREM BoardInvHolds == Spec => []BoardInv
<1>1. IInv => BoardInv
  BY DEF IInv
<1> QED
  BY <1>1, AlwaysInv, PTL

\* A task is 'claimed' exactly while a claim row stands behind it.
THEOREM ClaimsMatchTasks == Spec => []ClaimMatchesTask
<1>1. IInv => ClaimMatchesTask
  BY DEF IInv, BoardInv
<1> QED
  BY <1>1, AlwaysInv, PTL

\* The standing claim is the newest of its task, and no holder is refused for a
\* stale token unless somebody presented a number above the token of his claim.
THEOREM HoldersKeepTheirToken == Spec => []HolderNeverFencedOut
<1>1. IInv => HolderNeverFencedOut
  BY ClaimFacts DEF IInv, BoardInv, TokensInOrder, HolderNeverFencedOut
<1> QED
  BY <1>1, AlwaysInv, PTL

\* Work submitted for review is out of reach of claims.
THEOREM SubmittedWorkIsSafe == Spec => []SubmittedWorkIsUnclaimed
<1>1. IInv => SubmittedWorkIsUnclaimed
  BY DEF IInv, BoardInv, RowsAgree, ClaimMatchesTask, SubmittedWorkIsUnclaimed
<1> QED
  BY <1>1, AlwaysInv, PTL

\* The event log of an active topic can be replayed into the board.
THEOREM LogIsFaithful == Spec => []LogTellsTheBoard
<1>1. IInv => LogTellsTheBoard
  BY DEF IInv, BoardInv
<1> QED
  BY <1>1, AlwaysInv, PTL

\* After topic.closed nothing changes any more but the removal of expired claims.
THEOREM SealedTopicsAreFrozen == Spec => SealedTopicIsFrozen
<1> DEFINE A == topic = "closed" =>
          /\ UNCHANGED <<topic, artVars, logVars>>
          /\ claims' \subseteq claims
          /\ \A c \in claims \ claims' : c.token \in expired
<1>1. ASSUME [Next]_boardVars PROVE [A]_boardVars
  <2> SUFFICES ASSUME topic = "closed"
               PROVE  /\ UNCHANGED <<topic, artVars, logVars>>
                      /\ claims' \subseteq claims
                      /\ \A c \in claims \ claims' : c.token \in expired
    OBVIOUS
  <2>1. \/ \E c \in claims : Drop(c) \/ Expire(c)
        \/ UNCHANGED boardVars
    BY <1>1 DEF Next, Post, Grant, Release, Complete, Write, Baseline, Retire,
       ForceLapse, Resolve, Freeze, Seal
  <2> QED
    BY <2>1 DEF Drop, DropEffect, Delete, Expire, ExpireEffect, boardVars,
       artVars, logVars
<1> QED
  BY <1>1, PTL DEF Spec, SealedTopicIsFrozen

\* A step of the Board keeps a completed task completed: sweep, release and drain
\* act on tasks with a claim, and those are 'claimed' (ClaimFacts).
LEMMA CompletedStays ==
  ASSUME IInv, [Next]_boardVars, NEW t \in Tasks, task[t] = "completed"
  PROVE  task'[t] = "completed"
<1> USE DEF IInv, TypeOK
<1>1. ASSUME NEW c \in claims,
             \/ Release(c) \/ Complete(c) \/ Retire(c) \/ Drop(c) \/ ForceLapse(c)
      PROVE  task'[t] = "completed"
  BY <1>1, ClaimFacts DEF Release, ReleaseEffect, Complete, CompleteEffect,
     Retire, RetireEffect, Drop, DropEffect, ForceLapse, ForceLapseEffect
<1>2. ASSUME \/ \E u \in Tasks : Post(u)
             \/ \E u \in Tasks, a \in Actors, k \in Tokens : Grant(u, a, k)
      PROVE  task'[t] = "completed"
  BY <1>2 DEF Post, PostEffect, Grant, GrantEffect
<1>3. ASSUME \/ \E u \in Tasks, k \in Tokens, n \in Numbers :
                    Write(u, k, n) \/ Baseline(u, k, n)
             \/ \E u \in Tasks, o \in {"final", "working"} : Resolve(u, o)
             \/ \E c \in claims : Expire(c)
             \/ Freeze \/ Seal \/ UNCHANGED boardVars
      PROVE  task'[t] = "completed"
  BY <1>3 DEF Write, WriteEffect, Baseline, BaselineEffect, Resolve,
     ResolveEffect, Expire, ExpireEffect, Freeze, Seal, TopicEffect, boardVars
<1> QED
  BY <1>1, <1>2, <1>3 DEF Next

\* Nothing undoes a completed task: neither the sweep, a late release, nor the
\* drain's unconditional UPDATE tasks.
THEOREM CompletionIsFinal == Spec => CompletedIsFinal
<1>1. ASSUME IInv, [Next]_boardVars
      PROVE  [\A t \in Tasks : task[t] = "completed" => task'[t] = "completed"]_boardVars
  BY <1>1, CompletedStays
<1> QED
  BY <1>1, AlwaysInv, PTL DEF Spec, CompletedIsFinal

\* A claim on a 'sequential' task stands over finished predecessors
\* (claimTask's topology check).
THEOREM SequentialTasksInOrder == Spec => []SequentialOrder
<1>1. Init => SequentialOrder
  BY DEF Init, BoardInit, SequentialOrder
<1>2. ASSUME IInv, SequentialOrder, [Next]_boardVars PROVE SequentialOrder'
  <2> SUFFICES ASSUME NEW c \in claims', Topology[c.task] = "sequential",
                      NEW d \in DependsOn[c.task]
               PROVE  task'[d] = "completed"
    BY DEF SequentialOrder
  <2>1. CASE c \in claims
    <3>1. c.task \in Tasks /\ d \in Tasks /\ task[d] = "completed"
      BY <1>2, <2>1, ClaimType, DependsOnAssumption DEF IInv, SequentialOrder
    <3> QED
      BY <1>2, <3>1, CompletedStays
  <2>2. CASE c \notin claims
    <3>1. PICK t \in Tasks, a \in Actors, k \in Tokens : Grant(t, a, k)
      BY <1>2, <2>2 DEF Next, Post, PostEffect, Release, ReleaseEffect, Complete,
         CompleteEffect, Write, WriteEffect, Baseline, BaselineEffect, Retire,
         RetireEffect, Drop, DropEffect, ForceLapse, ForceLapseEffect, Resolve,
         ResolveEffect, Freeze, Seal, TopicEffect, Expire, ExpireEffect, Delete,
         boardVars
    <3>2. c.task = t
      BY <2>2, <3>1 DEF Grant, GrantEffect
    <3>3. d \in Tasks /\ task[d] = "completed"
      BY <3>1, <3>2, DependsOnAssumption DEF Grant
    <3> QED
      BY <1>2, <3>3, CompletedStays
  <2> QED
    BY <2>1, <2>2
<1> QED
  BY <1>1, <1>2, AlwaysInv, PTL DEF Spec
=============================================================================
