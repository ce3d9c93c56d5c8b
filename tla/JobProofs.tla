------------------------------ MODULE JobProofs ------------------------------
(***************************************************************************)
(* Proofs about the job queue and its workers, for any jobs, documents and *)
(* processes, and any number of faults.                                    *)
(***************************************************************************)
EXTENDS Jobs, TLAPS

(* The inductive invariant. *)

\* A job has at most one runner, who knows its attempts; it has none before it
\* is claimed, and none but a lost one goes without while it is running or
\* failed.  A runner between the two statements of failJob has attempts left.
JobInv(j) ==
    /\ job[j] \in {"none", "queued"} => \A r \in Runners : ~At(r, j)
    /\ route[j] \in {"none", "marked"} => job[j] = "none"
    /\ attempts[j] <= MaxAttempts[j]
    /\ job[j] = "none" => attempts[j] = 0
    /\ job[j] = "queued" => attempts[j] < MaxAttempts[j]
    /\ \A r \in Runners : At(r, j) =>
          /\ run[r].attempt = attempts[j]
          /\ IF run[r].pc = "requeue"
             THEN job[j] = "failed" /\ attempts[j] < MaxAttempts[j]
             ELSE job[j] \in {"running", "cancelled"}
    /\ \A r, q \in Runners : At(r, j) /\ At(q, j) => r = q
    /\ job[j] \in {"running", "failed"} /\ j \notin lost => \E r \in Runners : At(r, j)

\* The job on whose account a document may be in 'processing'.
Extracts(j) ==
    \/ j \in lost \cup cancels
    \/ route[j] = "marked"
    \/ job[j] = "queued"
    \/ \E r \in Runners : run[r].job = j /\ run[r].pc \in {"start", "extract", "replaced", "broken"}
DocInv(d) == doc[d] = "processing" => \E j \in Jobs : Doc[j] = d /\ Extracts(j)

IInv ==
    /\ TypeOK
    /\ \A j \in Jobs : JobInv(j)
    /\ \A d \in Docs : DocInv(d)

Row == [pc : {"idle", "peek"} \cup Executing, job : Jobs \cup {None}, attempt : Nat]

-----------------------------------------------------------------------------
(* Frames. *)

\* A job nobody touches stays as it is, though its runner goes on.
LEMMA JobFrame ==
  ASSUME NEW j \in Jobs, JobInv(j), job'[j] = job[j], attempts'[j] = attempts[j],
         route'[j] \in {"none", "marked"} => route[j] \in {"none", "marked"},
         lost \subseteq lost',
         \A r \in Runners :
            /\ At(r, j)' <=> At(r, j)
            /\ At(r, j) => /\ run'[r].attempt = run[r].attempt
                           /\ run'[r].pc = "requeue" <=> run[r].pc = "requeue"
  PROVE  JobInv(j)'
  BY DEF JobInv

\* The documents that nobody touches keep the job on whose account they wait.
LEMMA DocFrame ==
  ASSUME NEW d \in Docs, DocInv(d), doc'[d] = doc[d],
         \A j \in Jobs : Doc[j] = d /\ Extracts(j) => Extracts(j)'
  PROVE  DocInv(d)'
  BY DEF DocInv

\* What Step does.
LEMMA StepFacts ==
  ASSUME TypeOK, NEW r \in Runners, NEW from \in Executing, NEW to \in Executing,
         Step(r, from, to)
  PROVE  /\ run[r].pc = from /\ run[r].job \in Jobs /\ At(r, run[r].job)
         /\ run'[r].pc = to /\ run'[r].job = run[r].job
         /\ run'[r].attempt = run[r].attempt
         /\ \A q \in Runners : q # r => run'[q] = run[q]
         /\ run' \in [Runners -> Row]
         /\ \A q \in Runners : run'[q].pc # "idle" => run'[q].job \in Jobs
<1>1. run[r] \in Row /\ run \in [Runners -> Row] /\ from # "idle"
  BY DEF TypeOK, Row, Executing
<1>2. [run[r] EXCEPT !.pc = to] \in Row
      /\ [run[r] EXCEPT !.pc = to].pc = to
      /\ [run[r] EXCEPT !.pc = to].job = run[r].job
      /\ [run[r] EXCEPT !.pc = to].attempt = run[r].attempt
  BY <1>1 DEF Row
<1>3. run[r].job \in Jobs
  BY <1>1 DEF Step, TypeOK
<1> QED
  BY <1>1, <1>2, <1>3 DEF Step, TypeOK, At

\* What Finish does.
LEMMA FinishFacts ==
  ASSUME TypeOK, NEW r \in Runners, run[r].pc # "idle", Finish(r)
  PROVE  /\ run[r].job \in Jobs
         /\ run'[r] = Idle /\ \A q \in Runners : q # r => run'[q] = run[q]
         /\ run' \in [Runners -> Row]
         /\ \A q \in Runners : run'[q].pc # "idle" => run'[q].job \in Jobs
         /\ msg' \in [Jobs -> {"none", "queued"} \cup Consumers]
         /\ \A j \in Jobs : ~At(r, j)'
<1>1. Idle \in Row /\ Idle.pc = "idle" /\ "idle" \notin Executing
  BY DEF Idle, Row, Executing
<1> QED
  BY <1>1 DEF TypeOK, Finish, Row, At

\* What a claim does.
LEMMA ClaimFacts ==
  ASSUME TypeOK, NEW r \in Runners, NEW j \in Jobs, Claim(r, j)
  PROVE  /\ job' \in [Jobs -> {"none", "queued", "running", "failed"} \cup Finished]
         /\ job'[j] = "running" /\ \A k \in Jobs : k # j => job'[k] = job[k]
         /\ attempts' \in [Jobs -> Nat]
         /\ attempts'[j] = attempts[j] + 1
         /\ \A k \in Jobs : k # j => attempts'[k] = attempts[k]
         /\ run' \in [Runners -> Row]
         /\ run'[r].pc = "start" /\ run'[r].job = j /\ run'[r].attempt = attempts[j] + 1
         /\ \A q \in Runners : q # r => run'[q] = run[q]
         /\ \A q \in Runners : run'[q].pc # "idle" => run'[q].job \in Jobs
<1>1. [pc |-> "start", job |-> j, attempt |-> attempts[j] + 1] \in Row
  BY DEF TypeOK, Row, Executing
<1> QED
  BY <1>1 DEF TypeOK, Claim, Row

-----------------------------------------------------------------------------
(* Claims. *)

\* A queued job that is claimed has one runner, and one attempt more.
LEMMA ClaimInv ==
  ASSUME IInv, NEW r \in Runners, run[r].pc \in {"idle", "peek"},
         NEW j \in Jobs, job[j] = "queued", Claim(r, j),
         UNCHANGED <<later, msg, doc, chunks, route, cancels, lost, faults>>
  PROVE  IInv'
<1> USE DEF IInv
<1>1. /\ job'[j] = "running" /\ \A k \in Jobs : k # j => job'[k] = job[k]
      /\ attempts'[j] = attempts[j] + 1
      /\ \A k \in Jobs : k # j => attempts'[k] = attempts[k]
      /\ run'[r].pc = "start" /\ run'[r].job = j /\ run'[r].attempt = attempts[j] + 1
      /\ \A q \in Runners : q # r => run'[q] = run[q]
  BY ClaimFacts
<1>2. TypeOK'
  <2>1. job' \in [Jobs -> {"none", "queued", "running", "failed"} \cup Finished]
        /\ attempts' \in [Jobs -> Nat] /\ run' \in [Runners -> Row]
        /\ \A q \in Runners : run'[q].pc # "idle" => run'[q].job \in Jobs
    BY ClaimFacts
  <2> QED
    BY <2>1 DEF TypeOK, Row
<1>3. "start" \in Executing /\ "idle" \notin Executing /\ "peek" \notin Executing
      /\ "start" # "requeue"
  BY DEF Executing
<1>4. JobInv(j)'
  <2>1. \A q \in Runners : At(q, j)' <=> q = r
    BY <1>1, <1>3 DEF JobInv, At
  <2>2. attempts[j] < MaxAttempts[j] /\ attempts[j] \in Nat /\ MaxAttempts[j] \in Nat
    BY JobsAssumption DEF JobInv, TypeOK
  <2>3. route[j] \notin {"none", "marked"}
    BY DEF JobInv
  <2> QED
    BY <1>1, <1>3, <2>1, <2>2, <2>3 DEF JobInv
<1>5. ASSUME NEW k \in Jobs, k # j PROVE JobInv(k)'
  BY <1>1, <1>3, <1>5, JobFrame DEF At
<1>6. ASSUME NEW d \in Docs PROVE DocInv(d)'
  <2>1. \A k \in Jobs : Extracts(k) => Extracts(k)'
    BY <1>1 DEF Extracts
  <2> QED
    BY <2>1, DocFrame
<1> QED
  BY <1>2, <1>4, <1>5, <1>6

-----------------------------------------------------------------------------
(* The runners. *)

Extracting == {"start", "extract", "replaced", "broken"}

\* runExtraction goes on, within the claim of its runner.
LEMMA PipelineInv ==
  ASSUME IInv, NEW r \in Runners,
         NEW from \in Executing \ {"requeue"}, NEW to \in Executing \ {"requeue"},
         Step(r, from, to),
         UNCHANGED <<queueVars, msg, route, cancels>>,
         lost \subseteq lost', lost' \subseteq Jobs,
         doc' \in [Docs -> {"none", "processing", "complete", "failed"}],
         chunks' \in [Docs -> Jobs \cup {None}],
         faults' \in 0..MaxFaults,
         \A d \in Docs : d # Doc[run[r].job] => doc'[d] = doc[d],
         doc'[Doc[run[r].job]] = "processing" =>
            \/ to \in Extracting
            \/ from \notin Extracting /\ doc' = doc
            \/ run[r].job \in lost'
  PROVE  IInv'
<1> USE DEF IInv
<1>5. PICK j \in Jobs : j = run[r].job
  BY StepFacts
<1>6. UNCHANGED <<job, attempts, later>>
  BY DEF queueVars
<1>1. /\ run[r].pc = from /\ At(r, j)
      /\ run'[r].pc = to /\ run'[r].job = j /\ run'[r].attempt = run[r].attempt
      /\ \A q \in Runners : q # r => run'[q] = run[q]
  BY <1>5, StepFacts
<1>2. TypeOK'
  <2>1. run' \in [Runners -> Row]
        /\ \A q \in Runners : run'[q].pc # "idle" => run'[q].job \in Jobs
    BY StepFacts
  <2> QED
    BY <1>6, <2>1 DEF TypeOK, Row
<1>3. ASSUME NEW k \in Jobs PROVE JobInv(k)'
  BY <1>1, <1>6, JobFrame DEF At
<1>4. ASSUME NEW d \in Docs PROVE DocInv(d)'
  <2>1. CASE to \in Extracting /\ d = Doc[j]
    BY <1>1, <2>1 DEF DocInv, Extracts, Extracting
  <2>2. CASE d # Doc[j]
    <3>1. ASSUME NEW k \in Jobs, Doc[k] = d, Extracts(k) PROVE Extracts(k)'
      <4>1. \A q \in Runners : run[q].job = k => run'[q] = run[q]
        BY <1>1, <1>5, <2>2, <3>1
      <4> HIDE DEF IInv
      <4> QED
        BY <1>6, <3>1, <4>1 DEF Extracts
    <3> QED
      BY <1>5, <2>2, <3>1, DocFrame
  <2>3. CASE to \notin Extracting /\ d = Doc[j]
    <3>1. CASE doc'[d] # "processing"
      BY <3>1 DEF DocInv
    <3>2. CASE j \in lost'
      BY <2>3, <3>2 DEF DocInv, Extracts
    <3>3. CASE from \notin Extracting /\ doc' = doc
      <4>1. \A k \in Jobs : Extracts(k) => Extracts(k)'
        BY <1>1, <1>6, <3>3 DEF Extracts, Extracting
      <4> QED
        BY <3>3, <4>1, DocFrame
    <3> QED
      BY <1>5, <2>3, <3>1, <3>2, <3>3
  <2> QED
    BY <2>1, <2>2, <2>3
<1> QED
  BY <1>2, <1>3, <1>4

\* completeJob, and failJob where it buries the job or queues it again.
LEMMA EndInv ==
  ASSUME IInv, NEW r \in Runners, NEW s \in {"succeeded", "dead_letter", "queued"},
         run[r].pc \in {"complete", "fail", "requeue"},
         s = "queued" => run[r].pc = "requeue",
         job' = [job EXCEPT ![run[r].job] = s], Finish(r),
         UNCHANGED <<attempts, later, doc, chunks, route, cancels, lost, faults>>
  PROVE  IInv'
<1> USE DEF IInv
<1>0. PICK j \in Jobs : j = run[r].job
  BY FinishFacts
<1>1. /\ At(r, j) /\ run[r].pc # "idle"
      /\ run'[r] = Idle /\ \A q \in Runners : q # r => run'[q] = run[q]
  BY <1>0, FinishFacts DEF At, Executing
<1>2. ~At(r, j)' /\ Idle.pc = "idle" /\ Idle.pc \notin Executing
  BY <1>1 DEF At, Idle, Executing
<1>3. job'[j] = s /\ \A k \in Jobs : k # j => job'[k] = job[k]
  BY <1>0 DEF TypeOK
<1>4. TypeOK'
  <2>1. run' \in [Runners -> Row] /\ msg' \in [Jobs -> {"none", "queued"} \cup Consumers]
        /\ \A q \in Runners : run'[q].pc # "idle" => run'[q].job \in Jobs
    BY <1>1, FinishFacts
  <2>2. job' \in [Jobs -> {"none", "queued", "running", "failed"} \cup Finished]
    BY DEF TypeOK, Finished
  <2> QED
    BY <2>1, <2>2 DEF TypeOK, Row
<1>5. JobInv(j)'
  <2>1. \A q \in Runners : ~At(q, j)'
    BY <1>1, <1>2 DEF JobInv, At
  <2>2. route'[j] \notin {"none", "marked"}
    BY <1>1 DEF JobInv
  <2>3. s = "queued" => attempts[j] < MaxAttempts[j]
    BY <1>1 DEF JobInv
  <2> QED
    BY <1>1, <1>3, <2>1, <2>2, <2>3 DEF JobInv
<1>6. ASSUME NEW k \in Jobs, k # j PROVE JobInv(k)'
  BY <1>1, <1>2, <1>3, <1>6, JobFrame DEF At
<1>7. ASSUME NEW d \in Docs PROVE DocInv(d)'
  <2>1. job[j] # "queued"
    BY <1>1 DEF JobInv
  <2>2. \A k \in Jobs : Extracts(k) => Extracts(k)'
    BY <1>1, <1>3, <2>1 DEF Extracts
  <2> QED
    BY <2>2, DocFrame
<1> QED
  BY <1>4, <1>5, <1>6, <1>7

\* A consumer gives its job up, and the job is lost.
LEMMA GiveUpInv ==
  ASSUME IInv, NEW r \in Runners, FailJobFails(r)
  PROVE  IInv'
<1> USE DEF IInv
<1>1. /\ run[r].pc \in {"fail", "requeue"} /\ run[r].pc # "idle" /\ Finish(r)
      /\ UNCHANGED <<job, attempts, later, doc, chunks, route, cancels>>
      /\ lost' = lost \cup {run[r].job} /\ faults' \in 0..MaxFaults
  BY JobsAssumption DEF FailJobFails, Fault, TypeOK, queueVars
<1>2. PICK j \in Jobs : j = run[r].job
  BY <1>1, FinishFacts
<1>3. /\ run'[r] = Idle /\ \A q \in Runners : q # r => run'[q] = run[q]
      /\ Idle.pc = "idle" /\ Idle.pc \notin Executing
  BY <1>1, FinishFacts DEF Idle, Executing
<1>4. TypeOK'
  <2>1. run' \in [Runners -> Row] /\ msg' \in [Jobs -> {"none", "queued"} \cup Consumers]
        /\ \A q \in Runners : run'[q].pc # "idle" => run'[q].job \in Jobs
    BY <1>1, FinishFacts
  <2> QED
    BY <1>1, <1>2, <2>1 DEF TypeOK, Row
<1>5. ASSUME NEW k \in Jobs PROVE JobInv(k)'
  <2>1. CASE k = j
    <3>1. \A q \in Runners : At(q, k)' => At(q, k) /\ run'[q] = run[q]
      BY <1>3 DEF At
    <3>2. JobInv(k) /\ k \in lost'
      BY <1>1, <1>2, <2>1
    <3> HIDE DEF IInv
    <3> QED
      BY <1>1, <3>1, <3>2 DEF JobInv
  <2>2. CASE k # j
    BY <1>1, <1>2, <1>3, <2>2, JobFrame DEF At
  <2> QED
    BY <2>1, <2>2
<1>6. ASSUME NEW d \in Docs PROVE DocInv(d)'
  <2>1. \A k \in Jobs : Extracts(k) => Extracts(k)'
    BY <1>1, <1>3 DEF Extracts
  <2> QED
    BY <1>1, <2>1, DocFrame
<1> QED
  BY <1>4, <1>5, <1>6

\* failJob puts a job off: 'failed', and still its runner's.
LEMMA PutOffInv ==
  ASSUME IInv, NEW r \in Runners, PutOffJob(r)
  PROVE  IInv'
<1> USE DEF IInv, PutOffJob
<1>0. "fail" \in Executing /\ "requeue" \in Executing
  BY DEF Executing
<1>7. PICK j \in Jobs : j = run[r].job
  BY <1>0, StepFacts
<1>1. /\ run[r].pc = "fail" /\ At(r, j)
      /\ run'[r].pc = "requeue" /\ run'[r].job = j /\ run'[r].attempt = run[r].attempt
      /\ \A q \in Runners : q # r => run'[q] = run[q]
  BY <1>0, <1>7, StepFacts
<1>2. /\ job'[j] = "failed" /\ \A k \in Jobs : k # j => job'[k] = job[k]
      /\ run[r].attempt < MaxAttempts[j]
      /\ UNCHANGED <<attempts, msg, doc, chunks, route, cancels, lost, faults>>
  BY <1>7 DEF TypeOK
<1>3. TypeOK'
  <2>1. run' \in [Runners -> Row]
        /\ \A q \in Runners : run'[q].pc # "idle" => run'[q].job \in Jobs
    BY <1>0, StepFacts
  <2>2. job' \in [Jobs -> {"none", "queued", "running", "failed"} \cup Finished]
        /\ later' \subseteq Jobs
    BY <1>7 DEF TypeOK
  <2> QED
    BY <2>1, <2>2 DEF TypeOK, Row
<1> HIDE DEF PutOffJob
<1>4. JobInv(j)'
  <2>1. \A q \in Runners : At(q, j)' <=> q = r
    BY <1>0, <1>1 DEF JobInv, At
  <2>2. route[j] \notin {"none", "marked"} /\ run[r].attempt = attempts[j]
    BY <1>1 DEF JobInv
  <2> QED
    BY <1>1, <1>2, <2>1, <2>2 DEF JobInv
<1>5. ASSUME NEW k \in Jobs, k # j PROVE JobInv(k)'
  BY <1>1, <1>2, <1>5, JobFrame DEF At
<1>6. ASSUME NEW d \in Docs PROVE DocInv(d)'
  <2>1. job[j] # "queued"
    BY <1>1 DEF JobInv
  <2>2. \A k \in Jobs : Extracts(k) => Extracts(k)'
    BY <1>1, <1>2, <2>1 DEF Extracts
  <2> QED
    BY <1>2, <2>2, DocFrame
<1> QED
  BY <1>3, <1>4, <1>5, <1>6

\* A runner's next step, whatever it is.
LEMMA RunInv ==
  ASSUME IInv, NEW r \in Runners, Run(r)
  PROVE  IInv'
<1> USE DEF IInv
<1>1. CASE ClaimById(r)
  <2>1. run[r].job \in Jobs
    BY <1>1 DEF ClaimById, TypeOK
  <2> QED
    BY <1>1, <2>1, ClaimInv DEF ClaimById
<1>2. CASE FindNothing(r) \/ ClaimByIdFails(r)
  <2>1. /\ run[r].pc = "peek" /\ run[r].pc \notin Executing /\ Finish(r)
        /\ Idle.pc = "idle" /\ Idle.pc \notin Executing
        /\ UNCHANGED <<queueVars, doc, chunks, route, cancels, lost>>
        /\ faults' \in 0..MaxFaults
    BY <1>2, JobsAssumption DEF FindNothing, ClaimByIdFails, Fault, TypeOK, Executing, Idle
  <2>2. /\ run'[r] = Idle /\ \A q \in Runners : q # r => run'[q] = run[q]
        /\ run' \in [Runners -> Row] /\ msg' \in [Jobs -> {"none", "queued"} \cup Consumers]
        /\ \A q \in Runners : run'[q].pc # "idle" => run'[q].job \in Jobs
    BY <2>1, FinishFacts
  <2>3. TypeOK'
    BY <2>1, <2>2 DEF TypeOK, Row, queueVars
  <2>4. ASSUME NEW k \in Jobs PROVE JobInv(k)'
    BY <2>1, <2>2, JobFrame DEF At, queueVars
  <2>5. ASSUME NEW d \in Docs PROVE DocInv(d)'
    <3>1. \A k \in Jobs : Extracts(k) => Extracts(k)'
      BY <2>1, <2>2 DEF Extracts, queueVars
    <3> QED
      BY <2>1, <3>1, DocFrame
  <2> QED
    BY <2>3, <2>4, <2>5
<1>3. CASE MarkProcessing(r)
  <2>1. "start" \in Executing \ {"requeue"} /\ "extract" \in Executing \ {"requeue"}
        /\ "extract" \in Extracting
    BY DEF Executing, Extracting
  <2> QED
    BY <1>3, <2>1, PipelineInv DEF MarkProcessing, MarkDoc, TypeOK
<1>4. CASE SeeCancelled(r) \/ ExtractionFails(r)
  <2>1. "broken" \in Executing \ {"requeue"} /\ "extract" \in Executing \ {"requeue"}
        /\ "broken" \in Extracting
    BY DEF Executing, Extracting
  <2> QED
    BY <1>4, <2>1, PipelineInv DEF SeeCancelled, ExtractionFails, TypeOK
<1>5. CASE ReplaceChunks(r)
  <2>1. "replaced" \in Executing \ {"requeue"} /\ "extract" \in Executing \ {"requeue"}
        /\ "replaced" \in Extracting
    BY DEF Executing, Extracting
  <2>2. run[r].job \in Jobs
    BY <1>5, <2>1, StepFacts DEF ReplaceChunks
  <2> QED
    BY <1>5, <2>1, <2>2, PipelineInv DEF ReplaceChunks, TypeOK
<1>6. CASE MarkComplete(r)
  <2>1. "replaced" \in Executing \ {"requeue"} /\ "complete" \in Executing \ {"requeue"}
    BY DEF Executing
  <2>2. run[r].job \in Jobs
    BY <1>6, <2>1, StepFacts DEF MarkComplete
  <2> QED
    BY <1>6, <2>1, <2>2, JobsAssumption, PipelineInv DEF MarkComplete, MarkDoc, TypeOK
<1>7. CASE MarkCompleteFails(r)
  <2>1. "replaced" \in Executing \ {"requeue"} /\ "broken" \in Executing \ {"requeue"}
        /\ "broken" \in Extracting
    BY DEF Executing, Extracting
  <2>2. faults' \in 0..MaxFaults
    BY <1>7, JobsAssumption DEF MarkCompleteFails, Fault, TypeOK
  <2> QED
    BY <1>7, <2>1, <2>2, PipelineInv DEF MarkCompleteFails, TypeOK
<1>8. CASE MarkFailed(r)
  <2>1. "broken" \in Executing \ {"requeue"} /\ "fail" \in Executing \ {"requeue"}
    BY DEF Executing
  <2>2. run[r].job \in Jobs
    BY <1>8, <2>1, StepFacts DEF MarkFailed
  <2> QED
    BY <1>8, <2>1, <2>2, JobsAssumption, PipelineInv DEF MarkFailed, MarkDoc, TypeOK
<1>9. CASE CompleteJob(r)
  BY <1>9, EndInv DEF CompleteJob
<1>10. CASE CompleteJobFails(r)
  <2>1. "complete" \in Executing \ {"requeue"} /\ "fail" \in Executing \ {"requeue"}
        /\ "complete" \notin Extracting
    BY DEF Executing, Extracting
  <2>2. faults' \in 0..MaxFaults
    BY <1>10, JobsAssumption DEF CompleteJobFails, Fault, TypeOK
  <2> QED
    BY <1>10, <2>1, <2>2, PipelineInv DEF CompleteJobFails, TypeOK
<1>11. CASE BuryJob(r)
  BY <1>11, EndInv DEF BuryJob
<1>12. CASE PutOffJob(r)
  BY <1>12, PutOffInv
<1>13. CASE RequeueJob(r)
  BY <1>13, EndInv DEF RequeueJob
<1>14. CASE MarkDocFails(r)
  <2>1. /\ {"start", "broken"} \subseteq Executing \ {"requeue"}
        /\ "fail" \in Executing \ {"requeue"}
    BY DEF Executing
  <2>2. run[r].job \in Jobs
    BY <1>14, <2>1, StepFacts DEF MarkDocFails
  <2>3. faults' \in 0..MaxFaults
    BY <1>14, JobsAssumption DEF MarkDocFails, Fault, TypeOK
  <2> QED
    BY <1>14, <2>1, <2>2, <2>3, PipelineInv DEF MarkDocFails, TypeOK
<1>15. CASE FailJobFails(r)
  BY <1>15, GiveUpInv
<1> QED
  BY <1>1, <1>2, <1>3, <1>4, <1>5, <1>6, <1>7, <1>8, <1>9, <1>10, <1>11, <1>12, <1>13, <1>14,
     <1>15 DEF Run

-----------------------------------------------------------------------------
(* The routes, deliveries and faults. *)

\* A step that starts no job and finishes none: a job may only be inserted or
\* cancelled, and a document keeps a job on whose account it waits.
LEMMA RouteInv ==
  ASSUME IInv, NEW j \in Jobs,
         ExtractMark(j) \/ ExtractInsert(j) \/ ExtractPublish(j) \/ ExtractDies(j)
  PROVE  IInv'
<1> USE DEF IInv, queueVars
<1>1. TypeOK'
  BY JobsAssumption DEF TypeOK, ExtractMark, ExtractInsert, ExtractPublish, ExtractDies,
     MarkDoc, Fault
<1>2. /\ UNCHANGED <<attempts, run>> /\ lost \subseteq lost'
      /\ route[j] \in {"none", "marked", "inserted"}
      /\ \A k \in Jobs : k # j => job'[k] = job[k] /\ route'[k] = route[k]
  BY DEF TypeOK, ExtractMark, ExtractInsert, ExtractPublish, ExtractDies
<1>3. ASSUME NEW k \in Jobs, k # j PROVE JobInv(k)'
  BY <1>2, <1>3, JobFrame DEF At
<1>4. JobInv(j)'
  <2>1. CASE ExtractInsert(j)
    <3>1. /\ route[j] = "marked" /\ job'[j] = "queued" /\ route'[j] = "inserted"
      BY <2>1 DEF ExtractInsert, TypeOK
    <3>2. /\ job[j] = "none" /\ attempts[j] = 0 /\ MaxAttempts[j] \in Nat \ {0}
          /\ \A r \in Runners : ~At(r, j)
      BY <3>1, JobsAssumption DEF JobInv
    <3> QED
      BY <1>2, <3>1, <3>2 DEF JobInv, At
  <2>2. CASE ~ExtractInsert(j)
    <3>1. job' = job
      BY <2>2 DEF ExtractMark, ExtractPublish, ExtractDies
    <3>2. route'[j] \in {"none", "marked"} => route[j] \in {"none", "marked"}
      BY <2>2 DEF ExtractMark, ExtractPublish, ExtractDies, TypeOK
    <3> QED
      BY <1>2, <3>1, <3>2, JobFrame DEF At
  <2> QED
    BY <2>1, <2>2
<1>5. ASSUME NEW d \in Docs PROVE DocInv(d)'
  <2>1. CASE ExtractMark(j)
    <3>1. route'[j] = "marked" /\ \A k \in Jobs : Extracts(k) => Extracts(k)'
      BY <2>1 DEF ExtractMark, TypeOK, Extracts
    <3>2. CASE d = Doc[j]
      BY <3>1, <3>2 DEF DocInv, Extracts
    <3>3. CASE d # Doc[j]
      <4>1. doc'[d] = doc[d]
        BY <2>1, <3>3 DEF ExtractMark, MarkDoc, TypeOK
      <4> QED
        BY <3>1, <4>1, DocFrame
    <3> QED
      BY <3>2, <3>3
  <2>2. CASE ~ExtractMark(j)
    <3>1. \A k \in Jobs : Extracts(k) => Extracts(k)'
      BY <2>2 DEF ExtractInsert, ExtractPublish, ExtractDies, TypeOK, Extracts
    <3>2. doc' = doc
      BY <2>2 DEF ExtractInsert, ExtractPublish, ExtractDies
    <3> QED
      BY <3>1, <3>2, DocFrame
  <2> QED
    BY <2>1, <2>2
<1> QED
  BY <1>1, <1>3, <1>4, <1>5

\* The cancel route.
LEMMA CancelInv ==
  ASSUME IInv, NEW j \in Jobs, CancelJob(j) \/ ResetDocument(j) \/ CancelDies(j)
  PROVE  IInv'
<1> USE DEF IInv, queueVars
<1>1. TypeOK'
  BY JobsAssumption DEF TypeOK, CancelJob, ResetDocument, CancelDies, MarkDoc, Fault, Finished
<1>2. /\ UNCHANGED <<attempts, run, route>> /\ lost \subseteq lost'
      /\ \A k \in Jobs : k # j => job'[k] = job[k]
  BY DEF TypeOK, CancelJob, ResetDocument, CancelDies
<1>3. ASSUME NEW k \in Jobs, k # j PROVE JobInv(k)'
  BY <1>2, <1>3, JobFrame DEF At
<1>4. JobInv(j)'
  <2>1. CASE CancelJob(j)
    <3>1. job[j] \in {"queued", "running"} /\ job'[j] = "cancelled"
      BY <2>1 DEF CancelJob, TypeOK
    <3> QED
      BY <1>2, <3>1 DEF JobInv, At
  <2>2. CASE ~CancelJob(j)
    <3>1. job' = job
      BY <2>2 DEF ResetDocument, CancelDies
    <3> QED
      BY <1>2, <3>1, JobFrame DEF At
  <2> QED
    BY <2>1, <2>2
<1>5. ASSUME NEW d \in Docs PROVE DocInv(d)'
  <2>1. CASE ResetDocument(j) /\ d = Doc[j]
    BY <2>1 DEF ResetDocument, MarkDoc, TypeOK, DocInv
  <2>2. CASE ResetDocument(j) /\ d # Doc[j]
    <3>1. doc'[d] = doc[d]
      BY <2>2 DEF ResetDocument, MarkDoc, TypeOK
    <3>2. \A k \in Jobs : Doc[k] = d /\ Extracts(k) => Extracts(k)'
      BY <2>2 DEF ResetDocument, Extracts
    <3> QED
      BY <3>1, <3>2, DocFrame
  <2>3. CASE ~ResetDocument(j)
    <3>1. \A k \in Jobs : Extracts(k) => Extracts(k)'
      BY <2>3 DEF CancelJob, CancelDies, TypeOK, Extracts
    <3>2. doc' = doc
      BY <2>3 DEF CancelJob, CancelDies
    <3> QED
      BY <3>1, <3>2, DocFrame
  <2> QED
    BY <2>1, <2>2, <2>3
<1> QED
  BY <1>1, <1>3, <1>4, <1>5

\* A worker process dies: its jobs are lost.
LEMMA WorkerDiesInv ==
  ASSUME IInv, NEW w, WorkerDies(w)
  PROVE  IInv'
<1> USE DEF IInv, queueVars
<1> DEFINE dead == {r \in Runners : Process[r] = w}
<1>1. /\ UNCHANGED <<job, attempts, later, doc, chunks, route, cancels>>
      /\ lost' = lost \cup {run[r].job : r \in {q \in dead : run[q].pc \in Executing}}
      /\ run' = [r \in Runners |-> IF r \in dead THEN Idle ELSE run[r]]
      /\ msg' = [j \in Jobs |-> IF msg[j] \in dead THEN "queued" ELSE msg[j]]
      /\ faults' \in 0..MaxFaults
  BY JobsAssumption DEF WorkerDies, Fault, TypeOK
<1> HIDE DEF dead
<1>2. Idle \in Row /\ Idle.pc = "idle" /\ "idle" \notin Executing
  BY DEF Idle, Row, Executing
<1>3. /\ \A r \in dead : run'[r] = Idle
      /\ \A r \in Runners \ dead : run'[r] = run[r]
      /\ dead \subseteq Runners
  BY <1>1 DEF dead
<1>4. \A j \in Jobs, r \in Runners : At(r, j) /\ ~At(r, j)' => j \in lost'
  BY <1>1, <1>3 DEF At
<1>5. \A j \in Jobs, r \in Runners : At(r, j)' => At(r, j) /\ run'[r] = run[r]
  BY <1>2, <1>3 DEF At
<1>6. TypeOK'
  <2>1. run' \in [Runners -> Row]
    BY <1>1, <1>2 DEF TypeOK, Row
  <2>2. \A q \in Runners : run'[q].pc # "idle" => run'[q].job \in Jobs
    BY <1>2, <1>3 DEF TypeOK
  <2>3. lost' \subseteq Jobs
    BY <1>1, <1>2, <1>3 DEF TypeOK
  <2>4. msg' \in [Jobs -> {"none", "queued"} \cup Consumers]
    BY <1>1 DEF TypeOK
  <2> QED
    BY <1>1, <2>1, <2>2, <2>3, <2>4 DEF TypeOK, Row
<1>7. ASSUME NEW j \in Jobs PROVE JobInv(j)'
  <2>1. JobInv(j) /\ lost \subseteq lost'
    BY <1>1
  <2> HIDE DEF IInv
  <2> QED
    BY <1>1, <1>4, <1>5, <2>1 DEF JobInv
<1>8. ASSUME NEW d \in Docs PROVE DocInv(d)'
  <2>1. ASSUME NEW j \in Jobs, Extracts(j) PROVE Extracts(j)'
    <3>1. ASSUME NEW r \in Runners, run[r].job = j,
                 run[r].pc \in {"start", "extract", "replaced", "broken"}
          PROVE  Extracts(j)'
      <4>1. At(r, j)
        BY <3>1 DEF At, Executing
      <4>2. CASE r \in dead
        BY <1>2, <1>3, <1>4, <4>1, <4>2 DEF At, Extracts
      <4>3. CASE r \notin dead
        BY <1>3, <3>1, <4>3 DEF Extracts
      <4> QED
        BY <4>2, <4>3
    <3> QED
      BY <1>1, <2>1, <3>1 DEF Extracts
  <2> QED
    BY <1>1, <2>1, DocFrame
<1> QED
  BY <1>6, <1>7, <1>8

\* Deliveries, lost channels and the passing of time do not touch a job.
LEMMA QuietInv ==
  ASSUME IInv, NEW j \in Jobs,
         (\E r \in Runners : Deliver(r, j)) \/ ComeDue(j) \/ ChannelLost(j)
  PROVE  IInv'
<1> USE DEF IInv, queueVars
<1>1. /\ UNCHANGED <<job, attempts, doc, chunks, route, cancels, lost>>
      /\ \A r \in Runners :
            \/ run'[r] = run[r]
            \/ run[r].pc = "idle" /\ run'[r].pc = "peek"
  BY DEF Deliver, ComeDue, ChannelLost, TypeOK
<1>2. "idle" \notin Executing /\ "peek" \notin Executing
  BY DEF Executing
<1>3. TypeOK'
  <2>1. CASE \E r \in Runners : Deliver(r, j)
    <3>1. PICK r \in Consumers : Deliver(r, j)
      BY <2>1 DEF Deliver
    <3>2. [pc |-> "peek", job |-> j, attempt |-> 0] \in Row
      BY DEF Row
    <3>3. /\ run' = [run EXCEPT ![r] = [pc |-> "peek", job |-> j, attempt |-> 0]]
          /\ msg' = [msg EXCEPT ![j] = r]
          /\ UNCHANGED <<later, faults>>
      BY <3>1 DEF Deliver
    <3> QED
      BY <1>1, <3>2, <3>3 DEF TypeOK, Row
  <2>2. CASE ComeDue(j) \/ ChannelLost(j)
    BY <2>2, JobsAssumption DEF ComeDue, ChannelLost, Fault, TypeOK
  <2> QED
    BY <2>1, <2>2
<1>4. ASSUME NEW k \in Jobs PROVE JobInv(k)'
  BY <1>1, <1>2, JobFrame DEF At
<1>5. ASSUME NEW d \in Docs PROVE DocInv(d)'
  <2>1. \A k \in Jobs : Extracts(k) => Extracts(k)'
    BY <1>1 DEF Extracts
  <2> QED
    BY <1>1, <2>1, DocFrame
<1> QED
  BY <1>3, <1>4, <1>5

-----------------------------------------------------------------------------
(* The theorems. *)

\* No jobs, idle runners.
LEMMA InitInv ==
  ASSUME Init
  PROVE  IInv
<1> USE DEF Init
<1>1. Idle \in Row /\ Idle.pc = "idle" /\ "idle" \notin Executing
  BY DEF Idle, Row, Executing
<1>2. TypeOK
  BY <1>1, JobsAssumption DEF TypeOK, Row
<1> QED
  BY <1>1, <1>2, JobsAssumption DEF IInv, JobInv, DocInv, At

\* Every step keeps the invariant.
LEMMA NextInv ==
  ASSUME IInv, [Next]_vars
  PROVE  IInv'
<1>1. ASSUME NEW r \in Runners, ClaimNext(r) PROVE IInv'
  BY <1>1, ClaimInv DEF ClaimNext
<1>2. CASE UNCHANGED vars
  BY <1>2 DEF vars, queueVars, IInv, TypeOK, JobInv, DocInv, Extracts, At
<1> QED
  BY <1>1, <1>2, RunInv, RouteInv, CancelInv, WorkerDiesInv, QuietInv DEF Next

\* The invariant holds in every reachable state.
THEOREM AlwaysInv == Spec => []IInv
<1>1. Init => IInv
  BY InitInv
<1>2. IInv /\ [Next]_vars => IInv'
  BY NextInv
<1> QED
  BY <1>1, <1>2, PTL DEF Spec

\* The rows of the queue, the messages, runners and documents have their types.
THEOREM RowsHaveTheirTypes == Spec => []TypeOK
<1>1. IInv => TypeOK
  BY DEF IInv
<1> QED
  BY <1>1, AlwaysInv, PTL

\* Poller, consumers and the broker's redeliveries never give one job to two
\* runners, nor more attempts than max_attempts.
THEOREM OneRunnerAlways == Spec => []OneRunnerPerJob
<1>1. IInv => OneRunnerPerJob
  BY DEF IInv, JobInv, OneRunnerPerJob
<1> QED
  BY <1>1, AlwaysInv, PTL

\* Only a process that dies or a statement that nobody catches leaves a job or a
\* document without someone who will move it on.
THEOREM NothingIsStrandedEver == Spec => []NothingIsStranded
<1>1. ASSUME IInv PROVE NothingIsStranded
  <2>1. ASSUME NEW d \in Docs, doc[d] = "processing"
        PROVE  \E j \in {k \in Jobs : Doc[k] = d} :
                  \/ j \in lost \cup cancels
                  \/ route[j] = "marked"
                  \/ job[j] \in {"queued", "running", "failed"}
                  \/ \E r \in Runners : At(r, j)
    <3>1. PICK j \in Jobs : Doc[j] = d /\ Extracts(j)
      BY <1>1, <2>1 DEF IInv, DocInv
    <3> QED
      BY <3>1 DEF Extracts, At, Executing
  <2> QED
    BY <1>1, <2>1 DEF IInv, JobInv, NothingIsStranded
<1> QED
  BY <1>1, AlwaysInv, PTL

\* A finished job changes only where it was cancelled under its runner.
THEOREM FinishedStaysFinished == Spec => FinishedIsFinal
<1>1. ASSUME IInv, [Next]_vars
      PROVE  [\A j \in Jobs :
                 job[j] \in Finished /\ job'[j] # job[j] =>
                     job[j] = "cancelled" /\ \E r \in Runners : At(r, j)]_vars
  <2> SUFFICES ASSUME NEW j \in Jobs, job[j] \in Finished, job'[j] # job[j]
               PROVE  job[j] = "cancelled" /\ \E r \in Runners : At(r, j)
    OBVIOUS
  <2>1. TypeOK /\ JobInv(j) /\ job[j] \notin {"none", "queued", "running", "failed"}
    BY <1>1 DEF IInv, Finished
  <2>2. ASSUME NEW r \in Runners, NEW k \in Jobs, Claim(r, k), job[k] = "queued"
        PROVE  FALSE
    BY <2>1, <2>2 DEF Claim, TypeOK
  <2>3. ASSUME NEW r \in Runners, ClaimNext(r) PROVE FALSE
    BY <2>2, <2>3 DEF ClaimNext
  <2>4. ASSUME NEW r \in Runners, Run(r) PROVE At(r, j)
    <3>1. \/ ClaimById(r) \/ CompleteJob(r) \/ BuryJob(r) \/ PutOffJob(r) \/ RequeueJob(r)
      BY <2>4 DEF Run, FindNothing, MarkProcessing, SeeCancelled, ExtractionFails,
         ReplaceChunks, MarkComplete, MarkCompleteFails, MarkFailed, MarkDocFails,
         CompleteJobFails, FailJobFails, ClaimByIdFails, queueVars
    <3>2. CASE ClaimById(r)
      <4>1. run[r].job \in Jobs
        BY <2>1, <3>2 DEF ClaimById, TypeOK
      <4> QED
        BY <2>2, <3>2, <4>1 DEF ClaimById
    <3>3. CASE CompleteJob(r) \/ BuryJob(r) \/ PutOffJob(r) \/ RequeueJob(r)
      BY <2>1, <3>3 DEF CompleteJob, BuryJob, PutOffJob, RequeueJob, Step, At, Executing,
         TypeOK
    <3> QED
      BY <3>1, <3>2, <3>3
  <2>5. ASSUME NEW k \in Jobs, ExtractMark(k) \/ ExtractInsert(k) \/ ExtractPublish(k)
                               \/ ExtractDies(k)
        PROVE  FALSE
    <3>1. JobInv(k)
      BY <1>1 DEF IInv
    <3> QED
      BY <2>1, <2>5, <3>1 DEF ExtractMark, ExtractInsert, ExtractPublish, ExtractDies,
         TypeOK, JobInv, queueVars
  <2>6. ASSUME NEW k \in Jobs, CancelJob(k) \/ ResetDocument(k) \/ CancelDies(k)
        PROVE  FALSE
    BY <2>1, <2>6 DEF CancelJob, ResetDocument, CancelDies, TypeOK, queueVars
  <2>7. \E r \in Runners : At(r, j)
    BY <1>1, <2>3, <2>4, <2>5, <2>6 DEF Next, Deliver, ComeDue, ChannelLost, WorkerDies,
       vars, queueVars
  <2> QED
    BY <2>1, <2>7 DEF JobInv
<1> QED
  BY <1>1, AlwaysInv, PTL DEF Spec, FinishedIsFinal
=============================================================================
