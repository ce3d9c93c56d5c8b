-------------------------------- MODULE Jobs --------------------------------
(***************************************************************************)
(* The job queue and its workers, with the document extraction jobs they   *)
(* run: jobQueue.ts, worker.ts, runNextJob and runJobById of               *)
(* jobExecutor.ts, extraction/pipeline.ts and the extract and cancel       *)
(* routes of documents.ts.  async_jobs is the queue; a RabbitMQ message    *)
(* only wakes a worker early, so it may be lost, delayed or delivered      *)
(* twice.  Every statement of the queue and of the pipeline commits by     *)
(* itself, and each is a step here.                                        *)
(***************************************************************************)
EXTENDS Naturals, FiniteSets

CONSTANTS
    Jobs,
    Docs,
    Doc,          \* [Jobs -> Docs], payload.doc_id
    MaxAttempts,  \* [Jobs -> Nat], max_attempts
    Pollers,      \* the polling loops and the RabbitMQ consumers, ...
    Consumers,
    Process,      \* ... and the worker process each belongs to
    None,
    MaxFaults     \* bound: processes that die, channels lost, statements failed

Runners == Pollers \cup Consumers

ASSUME JobsAssumption ==
    /\ Doc \in [Jobs -> Docs]
    /\ MaxAttempts \in [Jobs -> Nat \ {0}]
    /\ Pollers \cap Consumers = {}
    /\ DOMAIN Process = Runners
    /\ None \notin Jobs \cup Runners /\ "none" \notin Runners /\ "queued" \notin Runners
    /\ MaxFaults \in Nat

VARIABLES
    job,       \* async_jobs.status
    attempts,  \* async_jobs.attempts
    later,     \* jobs whose available_at is still to come
    msg,       \* the RabbitMQ message of a job: none, queued, or the consumer
               \* that has it and has not acknowledged it
    run,       \* what each runner does next, the job it has claimed or was
               \* told of, and the attempts it read when it claimed it
    doc,       \* documents.extraction_status
    chunks,    \* the job whose document_chunks a document has
    route,     \* the extract route of each job
    cancels,   \* cancel routes between their two statements
    lost,      \* jobs a process died on, or that were left as they are by a
               \* statement that failed where nobody catches it
    faults

queueVars == <<job, attempts, later>>
vars == <<queueVars, msg, run, doc, chunks, route, cancels, lost, faults>>

Finished == {"succeeded", "dead_letter", "cancelled"}
Executing == {"start", "extract", "replaced", "complete", "broken", "fail", "requeue"}
Idle == [pc |-> "idle", job |-> None, attempt |-> 0]

TypeOK ==
    /\ job \in [Jobs -> {"none", "queued", "running", "failed"} \cup Finished]
    /\ attempts \in [Jobs -> Nat]
    /\ later \subseteq Jobs /\ cancels \subseteq Jobs /\ lost \subseteq Jobs
    /\ msg \in [Jobs -> {"none", "queued"} \cup Consumers]
    /\ run \in [Runners -> [pc : {"idle", "peek"} \cup Executing,
                            job : Jobs \cup {None}, attempt : Nat]]
    /\ \A r \in Runners : run[r].pc # "idle" => run[r].job \in Jobs
    /\ doc \in [Docs -> {"none", "processing", "complete", "failed"}]
    /\ chunks \in [Docs -> Jobs \cup {None}]
    /\ route \in [Jobs -> {"none", "marked", "inserted", "done"}]
    /\ faults \in 0..MaxFaults

Init ==
    /\ job = [j \in Jobs |-> "none"]
    /\ attempts = [j \in Jobs |-> 0]
    /\ later = {} /\ cancels = {} /\ lost = {}
    /\ msg = [j \in Jobs |-> "none"]
    /\ run = [r \in Runners |-> Idle]
    /\ doc = [d \in Docs |-> "none"]
    /\ chunks = [d \in Docs |-> None]
    /\ route = [j \in Jobs |-> "none"]
    /\ faults = 0

Fault == faults < MaxFaults /\ faults' = faults + 1
MarkDoc(j, s) == doc' = [doc EXCEPT ![Doc[j]] = s]

-----------------------------------------------------------------------------
(* The extract route: it marks the document, and then enqueueJob inserts   *)
(* the job and publishes the message.  It asks for no status of the        *)
(* document, so a second job may be made while the first runs.             *)

ExtractMark(j) ==
    /\ route[j] = "none"
    /\ MarkDoc(j, "processing")
    /\ route' = [route EXCEPT ![j] = "marked"]
    /\ UNCHANGED <<queueVars, msg, run, chunks, cancels, lost, faults>>

ExtractInsert(j) ==
    /\ route[j] = "marked"
    /\ job' = [job EXCEPT ![j] = "queued"]
    /\ route' = [route EXCEPT ![j] = "inserted"]
    /\ UNCHANGED <<attempts, later, msg, run, doc, chunks, cancels, lost, faults>>

ExtractPublish(j) ==
    /\ route[j] = "inserted"
    /\ msg' = [msg EXCEPT ![j] = "queued"]
    /\ route' = [route EXCEPT ![j] = "done"]
    /\ UNCHANGED <<queueVars, run, doc, chunks, cancels, lost, faults>>

\* The API process dies, or its INSERT or publish fails.
ExtractDies(j) ==
    /\ route[j] \in {"marked", "inserted"}
    /\ Fault
    /\ lost' = IF route[j] = "marked" THEN lost \cup {j} ELSE lost
    /\ route' = [route EXCEPT ![j] = "done"]
    /\ UNCHANGED <<queueVars, msg, run, doc, chunks, cancels>>

-----------------------------------------------------------------------------
(* The cancel route: cancelJob, and then the document is reset.            *)

\* Faulty variant: cancels a job whatever its status.
CancelAnyJob(j) ==
    /\ job[j] # "none"
    /\ j \notin cancels
    /\ job' = [job EXCEPT ![j] = "cancelled"]
    /\ cancels' = cancels \cup {j}
    /\ UNCHANGED <<attempts, later, msg, run, doc, chunks, route, lost, faults>>
\* cancelJob.
CancelJob(j) ==
    /\ job[j] \in {"queued", "running"}
    /\ j \notin cancels
    /\ job' = [job EXCEPT ![j] = "cancelled"]
    /\ cancels' = cancels \cup {j}
    /\ UNCHANGED <<attempts, later, msg, run, doc, chunks, route, lost, faults>>

ResetDocument(j) ==
    /\ j \in cancels
    /\ cancels' = cancels \ {j}
    /\ IF doc[Doc[j]] = "processing" THEN MarkDoc(j, "failed") ELSE UNCHANGED doc
    /\ UNCHANGED <<queueVars, msg, run, chunks, route, lost, faults>>

CancelDies(j) ==
    /\ j \in cancels
    /\ Fault
    /\ cancels' = cancels \ {j}
    /\ lost' = lost \cup {j}
    /\ UNCHANGED <<queueVars, msg, run, doc, chunks, route>>

-----------------------------------------------------------------------------
(* Claims. *)

Claim(r, j) ==
    /\ job' = [job EXCEPT ![j] = "running"]
    /\ attempts' = [attempts EXCEPT ![j] = @ + 1]
    /\ run' = [run EXCEPT ![r] = [pc |-> "start", job |-> j, attempt |-> attempts[j] + 1]]

\* Faulty variant: looks at the jobs that were never tried.
ClaimNextFresh(r) ==
    /\ r \in Pollers
    /\ run[r].pc = "idle"
    /\ \E j \in Jobs :
          /\ job[j] = "queued"
          /\ attempts[j] = 0
          /\ Claim(r, j)
    /\ UNCHANGED <<later, msg, doc, chunks, route, cancels, lost, faults>>
\* claimNextQueuedJob.  SKIP LOCKED passes over a row that another claim is
\* about to take, so the job is any that is due.
ClaimNext(r) ==
    /\ r \in Pollers
    /\ run[r].pc = "idle"
    /\ \E j \in Jobs :
          /\ job[j] = "queued"
          /\ j \notin later
          /\ Claim(r, j)
    /\ UNCHANGED <<later, msg, doc, chunks, route, cancels, lost, faults>>

\* RabbitMQ hands a message to a consumer that has none (prefetch 1).
Deliver(r, j) ==
    /\ r \in Consumers
    /\ run[r].pc = "idle"
    /\ msg[j] = "queued"
    /\ msg' = [msg EXCEPT ![j] = r]
    /\ run' = [run EXCEPT ![r] = [pc |-> "peek", job |-> j, attempt |-> 0]]
    /\ UNCHANGED <<queueVars, doc, chunks, route, cancels, lost, faults>>

\* The runner is done with its job: a consumer acknowledges its message.
Finish(r) ==
    /\ run' = [run EXCEPT ![r] = Idle]
    /\ msg' = [msg EXCEPT ![run[r].job] = IF @ = r THEN "none" ELSE @]

\* Faulty variant: claims the job it was told of, whatever its status.
ClaimToldJob(r) ==
    /\ run[r].pc = "peek"
    /\ Claim(r, run[r].job)
    /\ UNCHANGED <<later, msg, doc, chunks, route, cancels, lost, faults>>
\* claimQueuedJobById.
ClaimById(r) ==
    LET j == run[r].job
    IN  /\ run[r].pc = "peek"
        /\ job[j] = "queued"
        /\ j \notin later
        /\ Claim(r, j)
        /\ UNCHANGED <<later, msg, doc, chunks, route, cancels, lost, faults>>

\* The job was claimed, finished or put off in the meantime.
FindNothing(r) ==
    LET j == run[r].job
    IN  /\ run[r].pc = "peek"
        /\ job[j] # "queued" \/ j \in later
        /\ Finish(r)
        /\ UNCHANGED <<queueVars, doc, chunks, route, cancels, lost, faults>>

\* The claim throws, and the consumer drops its message.
ClaimByIdFails(r) ==
    /\ run[r].pc = "peek"
    /\ Fault
    /\ Finish(r)
    /\ UNCHANGED <<queueVars, doc, chunks, route, cancels, lost>>

-----------------------------------------------------------------------------
(* runExtraction, completeJob and failJob. *)

Step(r, from, to) == run[r].pc = from /\ run' = [run EXCEPT ![r].pc = to]

MarkProcessing(r) ==
    /\ Step(r, "start", "extract")
    /\ MarkDoc(run[r].job, "processing")
    /\ UNCHANGED <<queueVars, msg, chunks, route, cancels, lost, faults>>

\* Between two pages it asks isJobCancelled; an extraction may fail as well.
SeeCancelled(r) ==
    /\ Step(r, "extract", "broken")
    /\ job[run[r].job] = "cancelled"
    /\ UNCHANGED <<queueVars, msg, doc, chunks, route, cancels, lost, faults>>
ExtractionFails(r) ==
    /\ Step(r, "extract", "broken")
    /\ UNCHANGED <<queueVars, msg, doc, chunks, route, cancels, lost, faults>>

\* replaceChunks, in one transaction.
ReplaceChunks(r) ==
    /\ Step(r, "extract", "replaced")
    /\ chunks' = [chunks EXCEPT ![Doc[run[r].job]] = run[r].job]
    /\ UNCHANGED <<queueVars, msg, doc, route, cancels, lost, faults>>

MarkComplete(r) ==
    /\ Step(r, "replaced", "complete")
    /\ MarkDoc(run[r].job, "complete")
    /\ UNCHANGED <<queueVars, msg, chunks, route, cancels, lost, faults>>

\* The catch block of runExtraction, after a statement of its own failed too.
MarkCompleteFails(r) ==
    /\ Step(r, "replaced", "broken")
    /\ Fault
    /\ UNCHANGED <<queueVars, msg, doc, chunks, route, cancels, lost>>
MarkFailed(r) ==
    /\ Step(r, "broken", "fail")
    /\ MarkDoc(run[r].job, "failed")
    /\ UNCHANGED <<queueVars, msg, chunks, route, cancels, lost, faults>>

\* The first UPDATE of the document is not in the try block, and the last is in
\* its catch block: when one of them throws, the document stays as it is.
MarkDocFails(r) ==
    /\ Step(r, "start", "fail") \/ Step(r, "broken", "fail")
    /\ Fault
    /\ lost' = lost \cup {run[r].job}
    /\ UNCHANGED <<queueVars, msg, doc, chunks, route, cancels>>

\* completeJob: the status is not looked at.
CompleteJob(r) ==
    /\ run[r].pc = "complete"
    /\ job' = [job EXCEPT ![run[r].job] = "succeeded"]
    /\ Finish(r)
    /\ UNCHANGED <<attempts, later, doc, chunks, route, cancels, lost, faults>>

\* completeJob throws, and the catch block of the executor fails the job.
CompleteJobFails(r) ==
    /\ Step(r, "complete", "fail")
    /\ Fault
    /\ UNCHANGED <<queueVars, msg, doc, chunks, route, cancels, lost>>

\* failJob, first statement: nor is it here.
BuryJob(r) ==
    LET j == run[r].job
    IN  /\ run[r].pc = "fail"
        /\ run[r].attempt >= MaxAttempts[j]
        /\ job' = [job EXCEPT ![j] = "dead_letter"]
        /\ Finish(r)
        /\ UNCHANGED <<attempts, later, doc, chunks, route, cancels, lost, faults>>
PutOffJob(r) ==
    LET j == run[r].job
    IN  /\ Step(r, "fail", "requeue")
        /\ run[r].attempt < MaxAttempts[j]
        /\ job' = [job EXCEPT ![j] = "failed"]
        /\ later' = later \cup {j}
        /\ UNCHANGED <<attempts, msg, doc, chunks, route, cancels, lost, faults>>

\* Faulty variant: left to somebody else.
RequeueNothing(r) ==
    /\ run[r].pc = "requeue"
    /\ Finish(r)
    /\ UNCHANGED <<queueVars, doc, chunks, route, cancels, lost, faults>>
\* failJob, second statement.
RequeueJob(r) ==
    /\ run[r].pc = "requeue"
    /\ job' = [job EXCEPT ![run[r].job] = "queued"]
    /\ Finish(r)
    /\ UNCHANGED <<attempts, later, doc, chunks, route, cancels, lost, faults>>

\* A statement of failJob throws: a consumer drops its message, and the job
\* stays as it is.  (In a polling loop it ends the process: see WorkerDies.)
FailJobFails(r) ==
    /\ r \in Consumers
    /\ run[r].pc \in {"fail", "requeue"}
    /\ Fault
    /\ Finish(r)
    /\ lost' = lost \cup {run[r].job}
    /\ UNCHANGED <<queueVars, doc, chunks, route, cancels>>

\* The 30 seconds pass.
ComeDue(j) ==
    /\ j \in later
    /\ later' = later \ {j}
    /\ UNCHANGED <<job, attempts, msg, run, doc, chunks, route, cancels, lost, faults>>

-----------------------------------------------------------------------------
(* Faults of the workers and of the broker. *)

\* A worker process dies - of a statement that throws in its polling loop, or
\* from outside: its jobs stay as they are, RabbitMQ queues its messages again.
\* A new process takes its place.
WorkerDies(w) ==
    LET dead == {r \in Runners : Process[r] = w}
    IN  /\ \E r \in dead : run[r].pc # "idle"
        /\ Fault
        /\ lost' = lost \cup {run[r].job : r \in {q \in dead : run[q].pc \in Executing}}
        /\ run' = [r \in Runners |-> IF r \in dead THEN Idle ELSE run[r]]
        /\ msg' = [j \in Jobs |-> IF msg[j] \in dead THEN "queued" ELSE msg[j]]
        /\ UNCHANGED <<queueVars, doc, chunks, route, cancels>>

\* The channel is closed under a consumer that is still at work: the message
\* goes to another one.
ChannelLost(j) ==
    /\ msg[j] \in Consumers
    /\ Fault
    /\ msg' = [msg EXCEPT ![j] = "queued"]
    /\ UNCHANGED <<queueVars, run, doc, chunks, route, cancels, lost>>

Run(r) ==
    \/ ClaimById(r) \/ FindNothing(r) \/ MarkProcessing(r) \/ SeeCancelled(r)
    \/ ExtractionFails(r) \/ ReplaceChunks(r) \/ MarkComplete(r) \/ MarkCompleteFails(r)
    \/ MarkFailed(r) \/ MarkDocFails(r) \/ CompleteJob(r) \/ CompleteJobFails(r)
    \/ BuryJob(r) \/ PutOffJob(r) \/ RequeueJob(r) \/ FailJobFails(r)
    \/ ClaimByIdFails(r)

Next ==
    \/ \E j \in Jobs : ExtractMark(j) \/ ExtractInsert(j) \/ ExtractPublish(j) \/ ExtractDies(j)
    \/ \E j \in Jobs : CancelJob(j) \/ ResetDocument(j) \/ CancelDies(j)
    \/ \E r \in Runners : ClaimNext(r) \/ Run(r)
    \/ \E r \in Runners, j \in Jobs : Deliver(r, j)
    \/ \E j \in Jobs : ComeDue(j) \/ ChannelLost(j)
    \/ \E w \in {Process[r] : r \in Runners} : WorkerDies(w)

Spec == Init /\ [][Next]_vars

\* The loops of the workers turn, a runner goes on with its job, and time passes.
\* RabbitMQ need not deliver anything.
FairSpec ==
    /\ Spec
    /\ \A r \in Runners : WF_vars(ClaimNext(r)) /\ WF_vars(Run(r))
    /\ \A j \in Jobs : WF_vars(ComeDue(j))

-----------------------------------------------------------------------------
(* Properties. *)

At(r, j) == run[r].pc \in Executing /\ run[r].job = j

\* No two runners execute one job at a time, though poller and consumer both
\* claim, messages come twice, and completeJob, failJob and cancelJob write the
\* status without asking who has the job; and each counts as an attempt, of
\* which there are never more than max_attempts.
OneRunnerPerJob ==
    \A j \in Jobs :
        /\ \A r, q \in Runners : At(r, j) /\ At(q, j) => r = q
        /\ attempts[j] <= MaxAttempts[j]
        /\ job[j] = "queued" => attempts[j] < MaxAttempts[j]

\* Work that is announced is being done: a job that is running or failed has a
\* runner that will move it on, and for a document in 'processing' there is a
\* job yet to finish or a cancel about to reset it - unless the job was lost.
NothingIsStranded ==
    /\ \A j \in Jobs \ lost :
          job[j] \in {"running", "failed"} => \E r \in Runners : At(r, j)
    /\ \A d \in Docs : doc[d] = "processing" =>
          \E j \in {k \in Jobs : Doc[k] = d} :
              \/ j \in lost \cup cancels
              \/ route[j] = "marked"
              \/ job[j] \in {"queued", "running", "failed"}
              \/ \E r \in Runners : At(r, j)

\* A job that is finished is never run again nor finished otherwise.  (One that
\* was cancelled while a runner had it is: the runner overwrites 'cancelled', and
\* an exception its handler throws for the cancellation counts as a failed
\* attempt, after which the job is queued again if it has attempts left.)
FinishedIsFinal ==
    [][\A j \in Jobs :
          job[j] \in Finished /\ job'[j] # job[j] =>
              job[j] = "cancelled" /\ \E r \in Runners : At(r, j)]_vars

\* Every job that is queued is finished, with or without its message and however
\* often it fails - unless it was lost.
EveryJobFinishes ==
    \A j \in Jobs : job[j] = "queued" ~> job[j] \in Finished \/ j \in lost
=============================================================================
