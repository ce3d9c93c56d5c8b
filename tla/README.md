# free-context-hub: TLA+ models and proofs

This directory specifies the coordination core of free-context-hub, the part of the
server in which several agents share work through PostgreSQL. It holds

- TLA+ modules translated from the TypeScript services and SQL migrations,
- TLC configurations that check them on small instances,
- TLAPS proofs that hold for every number of tasks, actors, requests, disputes, jobs and leases,
- `PROJECT.json`, which maps every definition to the source lines it stands for.

Source paths below are relative to the repository root; `services/` is `src/services/`.

## 1. Inventory

The server is a Node process (HTTP + MCP) and a worker process over one PostgreSQL
database. All coordination state is in tables; the only shared-memory state is caches and
timers. Every mutation runs between an explicit BEGIN and COMMIT at READ COMMITTED, and
concurrency control is by row locks, guarded UPDATEs and unique indexes.

| Component | State | Operations | What is hard | What makes it correct |
|---|---|---|---|---|
| **Board: tasks and claims** (`board.ts`) | `tasks.status`, `claims` (artifact, actor, fencing token, `expires_at`), `coordination_fencing_seq` | `postTask`, `claimTask`, `releaseTask`, `completeTask`, `listBoard` | plain reads used after other statements, `now()` fixed at BEGIN, the sequence is not transactional | one claim per artifact, a claim behind every 'claimed' task, topology respected |
| **Board: artifacts** (`artifacts.ts`) | `artifacts` (state, content_ref, accepted token), `artifact_versions` | `writeArtifact`, `baselineArtifact`, `revertArtifact` | a write whose guard passed may commit after its claim is gone | no write under a fenced-out claim, baselines survive |
| **Claim sweep** (`coordinationSweep.ts`) | none of its own (timer) | `sweepAbandonedClaims`, `sweepStuckClosingTopics`, the scheduler cycle | scan first, lock later; topics that close in between; crash and retry | expired claims are recovered; completed work is not undone |
| **Topic lifecycle** (`topics.ts`) | `topics.status` | `charterTopic`, `joinTopic`, `grantLevel`, `closeTopic` (freeze, drain, seal) | a multi-transaction drain that skips failures and may die half-way | a sealed topic is frozen; a closing topic is sealed in the end |
| **Event log** (`coordinationEvents.ts`) | `coordination_events`, `topics.next_seq` | `appendEvent` (serialises on the topics row, refuses a sealed topic), `replayEvents` | an event must commit with its change | replay gives the board |
| **Requests and routing** (`requests.ts`, `doaMatrix.ts`) | requests, steps, `artifacts.state` | `submitRequest`, `decideStep`, `resolveArtifact`, stalled-step sweep | decision, sweep, motion and drain all end the same step | a step ends once; a decision reaches the artifact once |
| **Motions, bodies** (`motions.ts`, `decisionBodies.ts`, `proxies.ts`) | motions, ballots, members, proxies | `proposeMotion`, `secondMotion`, `castVote`, `vetoMotion`, `tallyMotion`, deadline sweep | tally against late ballot, veto and deadline; lock order against `decideStep` | an outcome is final and follows from the counted ballots |
| **Disputes, intake** (`disputes.ts`, `intake.ts`) | disputes, intake items | `openDispute`, `triageIntake` | several transactions, best-effort cleanup, nested pool connections | no half-open dispute, no exhausted pool |
| **Chaining** (`chaining.ts`) | a follow-up task | `emitChain` | runs in the caller's transaction | one follow-up per decision |
| **Artifact leases** (`artifactLeases.ts`) | `artifact_leases` | claim, renew, release, lease sweep | INSERT race, COUNT then INSERT, two clocks | one holder, limit per agent |
| **Job queue** (`jobQueue.ts`, `worker.ts`) | `async_jobs`, RabbitMQ | enqueue, claim, complete, fail, cancel | unguarded UPDATEs, worker crash, redelivery | a job ends once; a retryable job is retried |
| **Lockout, sessions** (`lockout.ts`, `sessions.ts`) | failure counters, sessions | `recordFailure`, success, reset | counter read in one statement, used in the next | only enough recent failures lock an account |
| **Authorization** (`authorize.ts`, `grants.ts`) | principals, grants | `assertAuthorized` | system callers without a principal | deny by default, monotone in grants |
| **Identity, invites, keys, MFA** | single rows | single-transaction CRUD | little | - |
| **Lesson review requests** (`reviewRequests.ts`) | review rows | submit, decide | two guarded UPDATEs | a review is decided once |
| **Knowledge, retrieval, code graph, exchange, LLM, HTTP/MCP/GUI** | content tables, caches | CRUD, ranking, parsing, rendering | data, not protocol | - |

How they meet: every coordination service appends to the event log in its own transaction,
and so locks the `topics` row last; requests, motions and disputes change artifacts of the
Board through `resolveArtifact`; `closeTopic` drains claims, requests, motions, disputes
and intake; the sweeps run the same transactions from timers. The `hazards` list in
`PROJECT.json` names, at its line, every place where this is hard to test.

## 2. What is modelled

### Modules

| Module | Role |
|---|---|
| `BoardState` | the committed rows of one topic's Board, what each transaction writes (`...Effect`), and the properties of those rows |
| `Board` | the contract: one action per transaction, taken at its COMMIT, with the guard that must be true *at that instant* |
| `BoardTxn` | the transactions statement by statement, with row locks, lock waits, deadlock aborts, crashes, timeouts, the sweep, `closeTopic` and its recovery |
| `Motions` | status and deadline of the motions of a topic: what `motions.ts`, the sweep and the drain do to them |
| `Ballots` | `Motions` with members, weights and votes: seconding, voting, the count, the veto |
| `Approvals` | `Motions` with approval requests: submit, decide, escalate, sweep, drain, and what a settled motion does to the step it decides, to the artifact and to the chained task |
| `Ladder` | what an approval request promises, abstractly |
| `Disputes` | `openDispute` and `triageIntake` statement by statement over a pool of connections, the mailbox, and a `Ladder` request per dispute |
| `Jobs` | the job queue, the polling loop, the RabbitMQ consumers, cancellation, and vision extraction with the document it works on |
| `Leases` | `claimArtifact` statement by statement against renewal, release and the sweep |
| `BoardProofs`, `BoardTxnProofs`, `ApprovalProofs`, `BallotProofs`, `DisputeProofs`, `JobProofs`, `LeaseProofs` | TLAPS proofs about the module each is named for |
| `MC...` | values of the constants for TLC |

How they compose. `BoardTxn` extends `Board` and implements it: `ImplementsBoard` is the
`Spec` of `Board`, on the variables the two share. Each commit of the detailed model is one
step of the contract, every other statement a stutter. `BoardState` holds the writes of a
transaction, so they are written once; what differs is *when* they may happen.

`Approvals` and `Ballots` both extend `Motions` and refine it in two directions. `Approvals`
leaves open how a ballot comes out (`Countable`) and says what its outcome does; `Ballots`
says how it comes out and ignores whose step it decides. Each adds variables of its own and
leaves the shared ones to the operators of `Motions`.

`Approvals` implements `Ladder` (property `KeepsThePromise`, an `INSTANCE Ladder` with
`at <- cur` and `office` read off the current step's row), and `Disputes` builds on the
same abstract request instead of repeating `Approvals`.

### State of the Board

| Variable | Code |
|---|---|
| `topic` | `topics.status` ('chartered' is treated as 'active': the Board never distinguishes them) |
| `task`, `artState`, `content`, `accepted` | `tasks.status`, `artifacts.state`, `.content_ref`, `.accepted_fencing_token`; one output artifact per task, as `postTask` creates it |
| `baselined`, `base` | the last `artifact_versions` row with state 'baselined' |
| `claims`, `expired` | `claims` rows; the tokens whose `expires_at` has passed |
| `logTask`, `logArt` | the task status and artifact state a replay of the event log would announce |
| `granted`, `barrier` | history variables: tokens ever granted per task, and the lowest claim that may still write |
| `strayed` | history variable: tasks whose artifact accepted a number above the token of the claim it came with |
| `txn`, `scan`, `lock`, `fence` | (BoardTxn) each process's position and locals, rows its scan returned, row lock table, `coordination_fencing_seq` |

Claim id and fencing token are issued together, so a claim is named by its token. Content is
the claim it was written under. A writer presents a claim id and, apart from it, any number as
`fencing_token`: `k` is the claim of a write, `n` its number. The guarded UPDATE compares `n`
with `accepted_fencing_token` and asks whether `k` is live and the caller's own; it never
compares the two with each other, so the model does not either (finding 4). A TTL is a step
(`Expire`, in `BoardTxn` `ExpireClaim`) that may happen at any time. `now()` is the time of
BEGIN: `Begin` records which claims of the task are dead for this transaction.

### Actions and code

**Board.** `postTask` = `PostCheck`, `PostCommit`; `claimTask` = `BeginClaim`, `ClaimTask`
(task row FOR UPDATE, plain read of the topic), `ClaimDeps` (topology), `ClaimLease` (lazy
DELETE of expired claims, live check, `nextval`), `ClaimCommit` (INSERT, events, COMMIT);
`releaseTask` = `ReleaseTask`, `ReleaseCommit`; `completeTask` = `CompleteTask`,
`CompleteClaim`, `CompleteCommit`; `writeArtifact` and `baselineArtifact` = `WriteGuard`
(the guarded UPDATE), then `WriteCommit` / `BaselineCommit`, which store the number
(`Accept`); `sweepAbandonedClaims` = `SweepScan`, `SweepPick`, `SweepTask`, `SweepClaim`,
`SweepCommit` (with `revertArtifact` inside); `sweepStuckClosingTopics` = `RecoverClosing`,
then the steps of `closeTopic`: `CloseFreeze`, `DrainScan`, `DrainPick`, `DrainDelete`,
`DrainCommit`, `DrainEnd`, `CloseSeal`. `ResolveCommit` is `resolveArtifact` as the Board
sees it.

A row lock is a conjunct of the action that takes it. `lock` only records locks that are
held while a later statement may wait; a transaction's last locks are taken in the action
that commits. The `topics` row is always such a last lock (`appendEvent`, `FOR UPDATE` in
sweep and close), hence it is never in `lock`. One lock is invisible in the TypeScript:
INSERT INTO claims takes FOR KEY SHARE on the artifact row through the foreign key
(migration 0054), and a holder of that row's FOR UPDATE blocks it. That is what makes a
write whose guard has passed commit *before* the next holder's claim; the model carries
it, and the mutant `ClaimCommitNoKey` shows that stale writes get through without it.

`Crash` is a lost process or connection at any point (PostgreSQL rolls back),
`DeadlockAbort` the victim of `deadlock_timeout`, `DrainTimeout` the `statement_timeout`
of the recovery, `DrainScan`'s second branch a failed scan (logged and skipped by the code).

**Motions and ballots.** Each of these transactions locks its motion row first and holds it
to the COMMIT, so it is one action, with what it reads outside the lock left free:
`topics.status` was read before and may have moved on to 'closing', but not to 'closed'
(`appendEvent` refuses a sealed topic). `castVote` asks whether the deadline has passed by
`now()`, the time of BEGIN; a vote that commits after the deadline is taken at its BEGIN.
A ballot carries the weight it was cast with. A proxy's ballot is its principal's. `badChain`
are the motions whose `execution_task` names a dependency the topic lacks, and `ChainFails`
says when that makes `emitChain` throw: every count of such a motion, once carried, is rolled
back, by `tallyMotion` and by the sweep (finding 9).

**Approvals.** `decideStep`, the sweep and `applyMotionToStep` lock the request row before they
decide anything, so again one action per transaction. The drain does not: it UPDATEs the
pending steps first and the request after them. It is `DrainSteps`, then `DrainRequest`, or
`DrainBack` for its rollback; `draining` and `held` are the requests it is at and the step
rows it has locked, which a decision, a sweep or an escalation of that row waits for. A ballot
can lapse in between, since the step under it is not 'pending' and so not `held`.
`decideStep` is `EndorseStep`, `ApproveRequest`, `ReturnRequest`, `RejectRequest`; the sweep
`EscalateStep`, `ExhaustStep`; `applyMotionToStep` is `CarryStep`, `CarryRequest`,
`FailRequest`, `VetoRequest`, `LapseStep`, `LapseRequest`, each in the same step as the motion
(`Settle`).
`status`, `cur`, `step` are the rows of `requests` and `request_steps`; `stalled` says
whose current step is past its deadline and grace; `art` is the artifact's state as far as a
request sees it; `chain` what `emitChain` did. The matrix row a request matched is a
constant (`Shape`, `RequiredLevel`, `Collective`, `BodyByLevel`), since `submitRequest`
copies it. A rollback because a chained task names a dependency the topic lacks is
`BadChain`.

**Disputes.** One action per commit of `openDispute` - insert, submit, link, log - and per
compensation; `call[c]` is how far call `c` has come. A triage holds a connection and, once
it has it, its intake row (`Held`, `Locked`) from BEGIN to the end, around an `openDispute`
that asks for connections of its own (`Slot`). `broken` marks disputes whose opening a
fault cut short, `origin` the item a dispute was opened for (a history variable).

**Jobs.** One action per statement, because neither `completeJob`, `failJob` nor `cancelJob`
is more than that: `run[r]` is where runner `r` is in `runNextJob` / `runJobById`, with the
job and the attempt it read. `msg` is the RabbitMQ message of each job: not published,
queued, or unacknowledged at a consumer. `lost` collects jobs that were left as they stood
by a process that died, or by a statement that threw where nothing catches it: a consumer's
`failJob` (`FailJobFails`; the consumer drops the message), or an UPDATE of the document
outside the `try` or in its `catch` (`MarkDocFails`). In a polling loop such a throw ends
the process, which is `WorkerDies`. `cancels` are the cancel requests between `cancelJob`
and their UPDATE of the document. A job's handler is vision extraction, the one handler that
shares a row with somebody else's request.

**Leases.** One action per statement of a claim, under READ COMMITTED: `txn[c].dead` are
the leases that had expired by this claim's `now()`, `cleared` and `new` its uncommitted
DELETE and INSERT. The operations on one lease are one statement each as far as the table
goes. `renewArtifact` compares `expires_at` with the process's clock, so it may renew a
lease that the database takes for expired (`revived`).

## 3. Runs

| Run | Instance | What it shows |
|---|---|---|
| `board_contract` | 2 tasks (the second sequential after the first), 2 actors, 3 tokens, numbers 1 to 3; about 319,000 states | `BoardInv` with `TypeOK` holds of the contract: the invariant the proofs use |
| `board_contention` | `BoardTxn`, 2 chained tasks, 2 actors, sweep, 2 tokens, numbers 1 and 2; about 547,000 states | no lock cycle among claim, release, complete, write and sweep; INSERT never meets the unique index; no write under a fenced-out claim, whatever number it presents; the log is faithful; every commit is a step of the contract |
| `board_closing` | 1 task, 2 actors, sweep, closer, 2 tokens, all six calls but `writeArtifact` (its twin `baselineArtifact` is in); about 1,500,000 states | `closeTopic`, its recovery, deadlock victims and skipped claims keep the board consistent and the sealed topic frozen |
| `board_liveness` | 1 task, 2 actors, 1 token, one crash or failed scan anywhere, `FairSpec` | a closing topic is sealed; an expired claim does not block its task forever |
| `approvals` | 2 of 4 requests about one artifact, at most one further motion, 4 motions, 4 actors, 2 bodies; about 215,000 states | request, steps, motions, artifact and chained task agree whoever ends a step; a decision is final; each request keeps the promise of `Ladder`; none stays open for good |
| `ballots` | 1 motion, 2 voters, a veto holder, weights 1 and 2, quorum 2, threshold 2/3, its task possible or not; about 324,000 states | the outcome is the one the ballots give, stands, and comes in the end, unless every count is rolled back because the task cannot be posted |
| `disputes` | 2 calls, 2 disputes, 1 item, 3 connections, one fault; about 313,000 states | a dispute and its request know each other or neither exists; an item has its one dispute; a dispute is closed once; every call returns |
| `jobs` | 2 extractions of one document (1 and 2 attempts), a poller and a consumer in one process, a consumer in another, one fault; about 578,000 states | one runner per job; nothing announced is forgotten but by that fault; finished is final; every job is finished |
| `leases` | 3 claims of 2 agents, 3 artifacts, limit 1, 4 leases, 1 retry; about 2,050,000 states (with symmetry) | by how much the limit can be exceeded; no standing lease is replaced |
| `close_deadlock` | `board_liveness` without faults (violation) | finding 1 |
| `stranded_topic` | `AuthEnabled = TRUE` (violation) | finding 2 |
| `lazy_delete` | post, claim, write, no close (violation) | finding 3 |

**Bounds.** `MaxToken` bounds the draws of the fencing sequence, so it bounds how many
claims are ever granted; two are needed for a stale holder and a new one, which is where the
fencing hazards lie, and the contract is checked with three. `Numbers` are what callers
present as `fencing_token`: all the tokens of the instance, so a writer can present its own,
an older and a newer one, each with any claim id; numbers in between are ordered the same
way. Two actors are enough for every race between clients, because a row lock serialises any
third; the sweep and the closer are always additional processes. Two tasks are needed only
by the topology check and by transactions that scan several claims. `MaxFaults` bounds
crashes and failed scans together; a rollback restores nothing but locks and the process's
position, so one fault at an arbitrary point meets every partial state, and `board_closing`
reaches partial states also through deadlock aborts and `DrainTimeout`.

Of four requests two are submitted, so every pair meets: `deed` climbs two bodies, `memo` a
body above which there are only officers, `plan` two officers (and its task cannot be
posted), `bond` is refused. All are about one artifact. `MaxMotions` is four, which is two
for each pair plus two escalations or a free motion. One motion is enough for `Ballots`
because motions share nothing but the weights, which change at any time. In `Disputes` the
pool has one connection more than there are calls that hold one; with as many as calls
`EveryCallReturns` fails (finding 7). A request there ends 'approved' or is never decided:
the other outcomes `resolveDispute` accepts are alike for it, and one it does not accept
leaves the dispute to the drain, as an undecided one does. In `Jobs` one fault is a crash, a
lost channel or a failed statement of a runner, at any of its statements. In `Leases` three
claims are one more than the two that can be ahead of each other at the unique index, and
`MaxLeases` lets a claim follow a lease that expired, was revived or was released.

`CHECK_DEADLOCK FALSE` is set since a
bounded run ends when its tokens, requests, calls or leases are spent, and a sealed topic
really is final; waits in a circle are caught by `NoWaitCycle` and `EveryCallReturns`.

**Fairness** (`FairSpec`). *Board*: strong fairness of each transaction under way:
PostgreSQL queues waiters for a row, so a statement that waits gets the row if it keeps
becoming free. Weak fairness of `SweepScan`: the scheduler's timer re-arms in a `finally`.
Strong fairness of `RecoverClosing`: a topic that stays in closing passes the staleness
threshold, and each later cycle selects it. Weak fairness of deadlock detection
(`deadlock_timeout`). No fairness on clients: nobody has to begin a call, to release, or to
complete. *Approvals, Ballots*: weak fairness of deadlines passing and of each branch of the
two sweeps, which visit every such row in each cycle; none on officers, members or tallies,
nor on closing the topic. *Disputes*: weak fairness of a call under way, strong fairness of
its wait for an intake row, which PostgreSQL grants in the order of the queue. *Jobs*: weak
fairness of the loops of the workers, of a runner's next statement and of `available_at`
passing; none on RabbitMQ, which need not deliver anything. *Leases*: none, its properties
are safety.

**Mutants.** Each property of a passing run has a faulty variant of a mapped definition
(defined just before it, under the comment "Faulty variant") that a run must catch.

## 4. Proofs

| Module | Theorem | Property, for every value of the constants |
|---|---|---|
| `BoardProofs` | `TypeCorrect`, `BoardInvHolds` | the rows keep their types; the whole of `BoardInv` |
| | `ClaimsMatchTasks` | a task is 'claimed' exactly while a claim row stands |
| | `HoldersKeepTheirToken` | the standing claim has the newest token, and is refused as stale only after a number above its writer's token |
| | `SubmittedWorkIsSafe` | submitted or final work is unclaimed |
| | `LogIsFaithful` | the log of an active topic gives the board |
| | `SealedTopicsAreFrozen` | a sealed topic changes no more |
| | `CompletionIsFinal` | a completed task stays completed |
| | `SequentialTasksInOrder` | a sequential claim stands over completed predecessors |
| `BoardTxnProofs` | `TransactionsImplementBoard` | `BoardTxn` implements `Board` |
| | `TransactionsKeepTheBoard` | so the transactions keep `ClaimMatchesTask`, `HolderNeverFencedOut`, `SubmittedWorkIsUnclaimed`, `LogTellsTheBoard`, `SequentialOrder`, `SealedTopicIsFrozen`, `CompletedIsFinal` |
| | `StaleHoldersNeverWrite` | from its guarded UPDATE to its COMMIT a write's claim is not fenced out, and it never lowers the accepted number |
| | `InsertsNeverCollide` | INSERT INTO claims never meets the unique index, nor a token granted before |
| | `ClaimsInHandStand` | the claim a transaction has found is there at its COMMIT |
| | `ActiveTopicsNeverDeadlock` | while the topic is active nobody waits in a circle |
| `ApprovalProofs` | `RequestsMatchTheirSteps` | status, current step and step rows agree; what the drain may leave under or after a ballot is said |
| | `StepsHaveTheirMotions` | a collective step that is current has the motion that decides it |
| | `FourEyesAlways`, `BodiesAreDistinct` | who may have endorsed two steps |
| | `OneTaskPerApprovalAlways` | one chained task per approval |
| | `DecisionsAreFinal`, `ArtifactsFollowRequests` | what no step may do to a decided request, or to an artifact |
| | `RequestsKeepTheirPromise` | `Approvals` implements `Ladder` |
| `BallotProofs` | `OutcomesFitTheirBallots` | a counted motion has the outcome its ballots give |
| | `OutcomesAreFinal` | a settled motion keeps its outcome and its ballots |
| `DisputeProofs` | `ResolvedOnceAlways` | a dispute is closed once, and resolved only when decided |
| | `NothingIsHalfOpened` | a dispute and its request know each other, or neither exists |
| | `TriagesMatchDisputes` | an item and the dispute opened for it match |
| | `OnlyThePoolRunsDry`, `NoStandstill` | calls wait in a circle only if triages hold the whole pool; with more connections than calls, never |
| `JobProofs` | `OneRunnerAlways` | at most one runner and `max_attempts` attempts per job |
| | `NothingIsStrandedEver` | running, failed or processing work has somebody to move it on, unless the job was lost |
| | `FinishedStaysFinished` | finished is final, cancelled runs apart |
| `LeaseProofs` | `LimitsHold` | the limit, plus the claims made in parallel |
| | `LeasesAreNotStolen` | only an expired lease is replaced |

Each module also proves its type invariant (`TypeCorrect`, `TxnTypeCorrect`,
`RowsHaveTheirTypes`). The proofs assume the named ASSUMEs of the modules and nothing else
(`MaxTokenAssumption`, `NumbersAssumption`, `DependsOnAssumption`, `NoneAssumption`,
`ProcAssumption`, `MotionsAssumption`, `RequestsAssumption` and the like): what sets the
constants are drawn from, that NULL is no member of them, that the sweep, the closer and the
actors are different processes, and for `Leases` and `Disputes` that the calls (and
artifacts) are finite. The one theorem with a premise of its own is `NoStandstill`, whose
premise is the size of the pool.

**Board.** One inductive invariant, `IInv == TypeOK /\ BoardInv`, with one lemma per action.
None of the properties is inductive alone. That a completion is final needs
`ClaimMatchesTask` (release, sweep and drain only ever reach tasks with a claim, and those
are 'claimed'); `ClaimMatchesTask` needs `OneClaimPerArtifact` (removing one claim must
leave none); `HolderNeverFencedOut` needs `TokensInOrder` (the standing token is the
barrier, what was accepted is below it unless a writer presented a number above its claim's
token, a completed task has fenced out every token it granted); `RowsAgree` needs that last
clause again, for a write that commits after the claim went: if its task were completed the
write would be fenced out.

**Board transactions.** The invariant `TxnInv` adds to `BoardInv` what each position of a
process means (`ProcInv`): which rows it holds (`Locked`), and what therefore still is as it
saw it: the live claim it waits to insert (`Claiming`), the guarded UPDATE it has passed
(`Writing`), the claim it is about to remove (`Removing`). The rest concerns the fencing
sequence: tokens are drawn once (`DrawnOnce`), in the order of the sequence (`Sequenced`),
and the sequence has room for whoever may still draw (`Room`); and a task is posted by one
call (`PostedOnce`). A step is argued in two halves. Its own process: the guard that
`Board` demands at this COMMIT follows from `ProcInv`, so the commit is a step of `Board`
and keeps `BoardInv` by the lemmas of `BoardProofs`. Every other process: what it relies on
lies behind a row it holds, so it stays (`Frame`, `Excluded`, `Apart`); this half is where
the FOR KEY SHARE of the INSERT is needed, for a write in progress relies on the barrier of
its task, which only a claim moves. That is `StaleHoldersNeverWrite`: the guarded UPDATE looks
at its claim once, and no newer claim, sweep or completion can come before its COMMIT. The
number it presents plays no part in the argument; it could not, since nothing ties it to
the claim.

The proof corrected a property. `InsertNeverCollides` used to say that a token about to be
inserted is newer than every token ever granted. That is false, and TLC, pointed to it
by the step that would not go through, shows it with two independent tasks: a claim of the
one draws a token, a claim of the other draws the next and commits first. What the
code relies on, and what is proved, is the order within a task, where the task row
serialises draw and INSERT, and that no token is granted twice.

For deadlocks (`CyclesNeedTheDrain`): as long as no drain waits for a task row, who waits
for a task holds nothing, who waits for an artifact waits for a process that waits for
nobody, and who waits for a claim waits for one of those. Hence no cycle without a drain in
it, however many actors, tasks and claims there are; and on an active topic there is no
drain, since `closeTopic` freezes the topic before it scans. With a drain there is one:
finding 1.

**Approvals.** The invariant has a part for each request (`RequestInv`), one for live
motions and one for chained tasks. What carries it is `RowsFit`: a row's office never goes
down its route, nobody has decided a row before it is current, and procedure, body and
motion belong together. `StepHasItsMotion` needs it with `RouteFacts` (a route has one step
or two; two are a counter-signature): if the row that follows an officer's could be
collective, `EndorseStep` would make it current without a motion. `RequestMatchesSteps`
needs `DrainsFit` for the two statements of the drain: the rows a drain holds are still
pending, they are all the rows behind the current one, and of the current one it misses at
most what a ballot turned to 'pending' behind its back. The lemma `RequestFrame` says what a
step about another request may do, so each action is proved for its own request only. For
the refinement each action is shown to change one request by one step of `Ladder` and every
other by none.

**Ballots.** `OutcomeFitsTheBallots` itself, with the fact that an existing motion is put
to a body of the topic. The lemma `SameTally` reduces it to which votes rows change:
`castVote` writes only those of a live motion, `addBodyMember` none.

**Disputes.** `CallInv` says that how far a call has come is how far its dispute has, and
that behind the row lock the intake item is as the call left it; `DispInv` that a dispute
is whole once no call works on it; `ItemInv` and `Exclusive` that no two disputes or calls
meet on one item or dispute; `OneHolder` is the row lock. `TriageMatchesDispute` needs the
last: what keeps a second triage from overwriting the first is that its re-read of the
status comes after the lock. `OnlyThePoolRunsDry` counts: connections are kept across
statements by triages only, which take one when one is free; who waits for an intake row
waits for a triage that waits for no row. `NoStandstill` is the safety half of
`EveryCallReturns`; finding 7 is what happens without its premise.

**Jobs.** A runner at work knows the attempt it claimed, and the row has not been claimed
since (`JobInv`); a job waiting in a requeue has attempts left; a document in processing
has a job or a cancel request about it (`DocInv`).

**Leases.** Of the claims under way, one at most has changed the rows of an artifact
(`Exclusive`); ids are distinct; and for each agent the leases it holds and the claims that have
counted it below the limit together stay below the limit plus its calls (`Limited`), which
is where the cardinality lemmas are used.

Every safety property that a passing run checks is a theorem, `NoWaitCycle` with
the restriction to active topics that finding 1 forces (its run closes no topic). What is
only model-checked is what must eventually happen (`ClosingEventuallyCloses`,
`ExpiredClaimsAreRecovered`, `OpenRequestIsDecided`, `EveryMotionIsSettled`,
`EveryCallReturns`, `EveryJobFinishes`), for liveness under fairness, like ENABLED, is out
of the prover's reach.

## 5. Findings

1. **`close_deadlock`**: the 15.2 design says transactions lock "task, claim, artifact,
   topics" in that order and so cannot deadlock. `closeTopic`'s drain DELETEs the claim and
   then UPDATEs the task (`topics.ts:564-566`); `releaseTask` and the sweep hold the task
   and wait for the claim. PostgreSQL breaks the cycle; if the drain is the victim its
   claim is skipped and outlives the seal, until the sweep drops it.
2. **`stranded_topic`**: `sweepStuckClosingTopics` calls `closeTopic` without a principal.
   With `MCP_AUTH_ENABLED`, `assertAuthorized(undefined, 'admin')` refuses it in every
   cycle: a topic whose closer died stays in closing.
3. **`lazy_delete`**: `claimTask` deletes an expired claim before the sweep sees it, and
   the abandoned draft is not reverted, though the sweep is documented as the only consumer
   of an expired claim.

Further behaviours of the code that came up while modelling. The models contain
them, and the properties are worded so as to say exactly how far the code goes.

4. *The fencing token is not the claim's.* `writeArtifact` and `baselineArtifact` accept any
   number that is not below `accepted_fencing_token`, with a live claim of the caller's
   (`artifacts.ts:164-180`, `281-295`). A holder who presents a larger number than its token
   is from then on refused as `fencing_token_stale` under its own token, and so are later
   holders until the sequence passes that number; one who presents an older number commits,
   as long as nothing newer was accepted. Stale *claims* are kept out by the liveness check
   and the row locks, not by the number. `HolderNeverFencedOut` excepts `strayed` artifacts
   for that reason.
5. *A rejected request with a live step.* The drain's comment says "requests (open → rejected;
   pending steps → rejected)" (`topics.ts`, 2-B). A step under a ballot is not 'pending' and
   stays 'motion_proposed'; if that ballot lapses to an officer between the drain's two
   UPDATEs (`requests.ts:1227-1233`), the step of the rejected request is 'pending' for good.
6. *Work returned for rework.* It is 'working' under a completed task, so nobody can claim
   it; a 'rolling' task can be claimed only while its upstream artifact reads 'baselined'.
7. *The pool.* `triageIntake` holds a connection while `openDispute` needs another. With as
   many triages under way as the pool has connections (10 by default, no timeout,
   `db/client.ts`) none goes on.
8. *One body, two steps.* `submitRequest` refuses a counter-signed route that goes before
   one body twice, but a lapsed step is carried up to the next level's body, which may be
   that of a later step (`requests.ts:1204`). `DistinctBodies` excepts it.
9. *A ballot that cannot be counted.* If the `execution_task` of a carried motion, or of a
   request whose last step is collective, names a dependency the topic lacks, `emitChain`
   throws (`chaining.ts:275-289`) and each tally rolls back while the topic is active; the
   sweep meets the motion again in every cycle. `OpenRequestIsDecided` and
   `EveryMotionIsSettled` except it.
10. *The limit on leases* is exceeded by at most the agent's parallel claims less one, and
    by leases a lagging clock renewed after they expired (`artifactLeases.ts:172`, `:300`).
11. *Deadlines.* `secondMotion` ignores the deadline and `vetoMotion` is allowed after it.
12. *Lock order.* The drain UPDATEs the steps of a request and then the request;
    `decideStep` and `applyMotionToStep` lock the request and then its step, so the two can
    wait for each other, although `closeTopic` is documented to "avoid deadlock with concurrent
    decideStep / appendEvent callers" (`topics.ts:467-469`). `tallyMotion` locks the topics
    row before request and artifact, `decideStep` after them. PostgreSQL ends each of these
    waits, and the victim rolls back.
13. *Half an `openDispute`.* A `submitRequest` that throws rather than refuses leaves an open
    dispute without a request; `escalation_exhausted` is not among the outcomes
    `resolveDispute` accepts (`disputes.ts:207`), so only the drain closes such a dispute.
14. *Cancelled and lost jobs.* A job cancelled while running is overwritten by `completeJob` or
    `failJob`, and can be queued again; its runner can mark the document failed under a later
    extraction. A job whose process died stays 'running'; so does one whose `failJob` threw in
    a consumer, which drops the message ('failed' if it was the second statement). An UPDATE
    of the document that throws can leave it 'processing' with no job about it.

## 6. Abstractions, and what is not modelled

- One topic. Tasks of different topics share nothing but the fencing sequence.
- One output artifact per task; artifacts created by other means never carry claims here.
- The four parts of `closeTopic`'s drain are modelled with the rows they meet, each in
  its own module, not in one: claims (`BoardTxn`), requests (`Approvals`), motions
  (`Motions`), disputes and intake (`Disputes`). They share no rows but the topic.
- `Approvals` and `Ballots` take a transaction whole, except the drain of a request. That is
  right because each begins by locking its request or motion and reads everything it depends
  on under that lock, except the topic; it hides deadlocks (finding 12), which roll back and
  are repeated.
- In `Approvals` an artifact is put up for review once. The Board allows no more either:
  work that was returned belongs to a completed task.
- Deadlines are flags that time sets, never clocks; `stalled` includes the grace period.
- Membership, levels and authorization of the Board's callers: they refuse a call before
  it opens a transaction and change no row of the Board.
- Idempotency and validation of arguments, wording, logging, pagination.
- The `statement_timeout` of the recovery is never reset on its pooled connection, so it
  may cut off later users of that connection. Each such cut is a rollback, like a crash.
- `Leases`: a renewal before the end of a lease changes nothing there; the per-minute limit
  on attempts is a Map in the process (`artifactLeases.ts:34-54`), asked before the
  transaction, and changes no row. `releaseArtifact` looks up the owner and deletes by lease
  id in two statements; ids are never used again, so the pair has the effect of its DELETE.
- `Jobs`: the other handlers are opaque work that succeeds or throws; priorities and
  the order of the queue are free.
- FOR KEY SHARE on the topics row by `postTask`'s foreign key: it ends with the same
  transaction's UPDATE of that row.
- `claimTask`'s expired-claim DELETE, live check and `nextval` are one action: the task row
  is locked, so of the other transactions only a drain can touch the claim in between, and
  a drain leaves nothing to see but the absence of the claim.

### Not modelled

`PROJECT.json` lists every component with its status. The models cover the coordination
protocol and the two queues beside it. They map a small share of the repository, and would
do so if every protocol in it were modelled: most of its lines are the MCP and HTTP layers,
the knowledge store and its retrieval, evaluation scripts, smoke tests, import and export,
code-graph extraction. That code transforms data and keeps no state between calls but rows
that a single statement writes; a model of it would restate each statement. Left out:

- *Lockout, sessions, identity, grants, MFA*: single-row operations. The one race is in
  `recordFailure`, between two UPDATEs of a counter.
- *Charter, join, levels, proxies, lesson reviews*: one guarded transaction each, over rows
  nothing else writes.
- *Knowledge store, retrieval, code graph, exchange, LLM resilience, quality evaluation,
  HTTP, MCP and GUI*: see above.

## 7. Plan

Done: the Board as a contract and as transactions, with the refinement between them,
motions, ballots, approvals and their promise, disputes and intake, jobs, leases. Next, in
this order:

1. The composition of `Approvals` with `Ballots`, so that a step ends the way its body
   voted.
2. `Approvals` statement by statement, to replace the argument about its locks by a
   refinement, with the lock order of finding 12.
3. The safety halves of the other liveness properties, as `NoStandstill` is for
   `EveryCallReturns`: what each step of a sweep brings nearer its end.
4. `Lockout`: the counter race.

## 8. Running

    tlasany Board.tla
    tlc -workers 2 -config BoardTxn_contention.cfg MCBoardTxn
    tlapm BoardTxnProofs.tla
