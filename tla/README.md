# A verification development for the pipeline operations back end

The repository is the back end of a pipeline operator: an asynchronous Python
service (FastAPI, SQLAlchemy on PostgreSQL) with Celery workers on RabbitMQ, a
beat scheduler, an object store and model providers.  Users record shift
handovers, events, work orders, inspections, hazards, meetings and reports;
speech, language and vision models propose content in background jobs; people
confirm it.  The TLA+ modules in this directory model what makes that hard to
get right: jobs that are executed by processes which may die, stall or be
delivered the same message twice, and rows that several sessions read, hold and
write back.

## 1. Inventory

Paths are relative to `src/app`.

| component | state | operations | interacts with |
|---|---|---|---|
| platform jobs (`shared/platform/service.py`, `execution.py`, `router.py`) | `async_jobs`, `job_events` | create, claim, heartbeat, guard, release, update, request cancel, retry, sweep | every business module, the outbox, beat |
| transactional outbox (`service.py`, `platform/tasks.py`) | `task_outbox` | insert with the job, publish a batch, back off, give up | RabbitMQ, jobs |
| runtime configuration (`platform/runtime.py`, `platform/router.py`) | prompt templates, business configs, model aliases | create a version, activate one | job snapshots |
| idempotency middleware (`platform/idempotency.py`) | `idempotency_records` | reserve, complete, release, refuse | every POST outside knowledge |
| uploads (`platform/service.py`, `shared/media`, module services) | `upload_sessions`, objects | authorise, complete, expire | object store |
| audit log (`platform/service.py`) | `audit_logs`, a hash chain | append | every module |
| identity and authorisation (`shared/security`) | accounts, organisations, roles, grants | authenticate, load permissions, check scope | every request and worker |
| handover (`modules/handover`) | recordings, transcript and summary versions, manual records | transcribe, summarise, edit, confirm, delete | jobs |
| operation events (`modules/operation_event`) | candidate events, classifications, investigations | extract, confirm, reject, merge, split, classify, review, investigate | jobs, work orders |
| work orders (`modules/maintenance_order`) | orders, actions, reminders | create, transition, review workflow, remind | events |
| inspection (`modules/inspection`) | tasks, images, findings | analyse, review | jobs, hazards |
| hazards (`modules/hazard`) | hazards, rectifications | report, assign, rectify, accept, close | inspection |
| meetings (`modules/meeting`) | recordings, transcripts, minutes, publications | transcribe, summarise, confirm, publish, clean up | jobs, knowledge |
| knowledge (`modules/knowledge`) | documents, versions, chunks, runs, evaluations | ingest, review, publish, withdraw, ask, evaluate | jobs, external index runtime |
| reports (`modules/report`) | reports, versions, exports | generate, edit, confirm, export, daily run | jobs, events |
| storage and model providers (`infrastructure`, `ports`) | objects | put, get, delete, call a model | all executors |
| bootstrap (`bootstrap`) | settings, Celery application | wire components | all |

What is hard here, and what would be correct:

* **Jobs.** Messages are delivered at least once (`acks_late`, and the publisher
  commits after it sends).  Two families of executors exist.  *Leased* ones
  (answers, ingestion, evaluation, classification) claim the job, beat its heart and
  re-check token, status, cancel flag and lease in every transaction that
  publishes anything.  *Plain* ones (handover, meeting, inspection, report,
  extraction) read the job, set it to running, call a provider and write.
  Correct: at most one result per run, ended jobs stay ended, cancelled jobs
  publish nothing, everything ends.
* **Sessions hold copies.** `SELECT ... FOR UPDATE` on a row the session has
  loaded waits for the lock but does not refresh the loaded attributes unless
  `populate_existing` is given, sessions are created with
  `expire_on_commit=False`, and a flush writes only the attributes that differ
  from the loaded ones.  Correct: a check under a lock is about the row.
* **Two rows, several endpoints.** A run and its job, a recording and its
  versions, an event and its order are locked in different places and have to
  agree.
* **Two stores.** A recording in the object store, entries in external indexes and the
  rows about them share no transaction.  Correct: whatever breaks off between them can be
  taken up again, and nothing that people rely on is missing in one of them.
* **Calls in any order.** Versions are uploaded, reviewed, published and withdrawn, hazards
  handled and rejected, units switched off, in whatever order people act.  Correct: what one
  reads, a list, a day's version, a history, is the same however it came about.
* **Time.** Leases, heartbeats, back-off and the sweeper race with answers
  that arrive late.

## 2. Plan

The most shared and most concurrent parts came first.  Everything planned is built except
what is named under "left".

1. `JobStatus`, `JobRow`, `LeasedJobs`, `RunContract`: jobs, leases, outbox, broker and
   answers; refinement; theorems (section 3.1).
2. `Handover`: a plain executor and the requests that race with it over session copies (3.2).
3. `Outbox`: batches, SKIP LOCKED publishers, back-off, dead letters; theorems (3.3).
4. `ClassifyRequests`, `Classification`, `Investigation`: the requests that start an
   investigation, the leased executor whose ways out differ, and the roles it runs, with their
   reports in one store and the state of their graph in another (3.4, 3.5).
5. `WorkOrders`: review and order creation on stale copies, the transition table, reminders;
   theorems (3.6).
6. `Ingestion` and `Versions`: indexes outside the database, governance and publication in
   time; theorems about `Versions` (3.7).
7. `Meetings`, composed with `Versions`: two-phase deletion, publication in four commits (3.8).
8. `HazardCases` (with theorems), `Inspections`, `Reports` (3.9).
9. `Configuration`, `AuditChain`, `Idempotency` (each with theorems) and `Access` (3.10).

10. Theorems about every module, and the refinements of `RunContract` by `LeasedJobs`, of `Versions`
   by `Meetings` and `Ingestion` (section 4).

Left: `Uploads`, merge and split of events, the evaluation of the knowledge base (a leased
executor like the answers).

## 3. The modules

Conventions.  An action is one database transaction, one broker operation or one call of a
store or provider.  Locks that are released by the commit of the same transaction are part of
the action; what a transaction reads *before* it takes its lock is kept in a variable and used
later.  Isolation is PostgreSQL's READ COMMITTED.  A definition preceded by a comment `Faulty:`
is a mutated form of the definition that follows: no specification uses it, and it shows that a
property notices the mistake.  Wording, payloads, provider contents, progress numbers, job
events and audit entries are left out.

Where an invariant of a run is a conjunction (`IndInv`, `HazardInv`, `VersionsInv`, ...), its
named parts are the statements to read, each is preceded by what it says of the code, and each
has (but for the types of versions) a mutated definition of its own in `PROJECT.json` that only
a violation of that part reveals.

Four MC modules check modules that share no state together: `MCOrders`, `MCField`,
`MCPlatform`, `MCIngestion`.  Their variable `focus` picks one of them for a behaviour; the
variables of the others keep their initial values, so the states are the sum and not the
product of the parts.  `MCHandover` does the same with limits of one module.

### 3.1 Leased jobs: `JobStatus`, `JobRow`, `LeasedJobs`, `RunContract`

`JobStatus` has the transition table of `update_job` and the rule of the mapper's
flush.  `JobRow` has the row of `async_jobs` with the predicates and updates of
`claim_job`, `guard_execution`, the heartbeat, `update_job` and `fail_stale_jobs`.
`lease` and `silence` are the distances of `lease_expires_at` and `heartbeat_at`
from now, so that the clock is not part of the state; both saturate.

`LeasedJobs` composes them for one knowledge run:

| variable | in the code |
|---|---|
| `job`, `outbox`, `run` | rows of `async_jobs`, `task_outbox`, `knowledge_runs` |
| `broker` | messages per job waiting in RabbitMQ |
| `worker` | the place of a worker process between two transactions of `execute_answer` |
| `cancelling` | platform cancel requests between their unlocked read and their write |

`Ask`, `Retry`, `CancelRead`/`CancelWrite`, `CancelRun` are the endpoints; `Publish`,
`PublishCrash`, `SendFails` the publisher; `Deliver` and `Crash` the broker and the
operating system; `Claim` to `Settle` the executor; `Sweep` the maintenance task.
`RunContract` is what all this promises: attempts open one after another, each wins or
loses once, and the number of answers is the number of wins.

Runs:

* `LeasedJobs`: two attempts, two workers, two send attempts, two faults, lease of one tick,
  silence of one.  Two workers are enough for an old and a new holder of a lease, two attempts
  for a retry racing the last worker of the attempt before; the two faults cover a duplicate
  and a loss, or two losses.  Time can pass between any two steps, so a longer lease adds no
  order of events.  Tasks may also raise before their claim (`StartupMayFail`).
* `Platform`, the behaviours about a job: liveness of one attempt with two workers and two
  faults, without start-up failures (`QueuedAttemptEnds`, `RunningAttemptEnds`).
* `LeasedJobsCancel`: what the endpoint's comment says of a cancel request, and the code does
  not keep (section 5).

Fairness (`Fairness`): beat runs the publisher every second and the sweeper every minute;
RabbitMQ hands a waiting message to a free worker; a worker that is not lost goes on, its
provider calls being bounded by timeouts; a request that was read is written; time passes.
Users need not act, faults are finite.  A task that raises *before* its claim (no database, no
provider) is acknowledged by Celery and nothing looks at queued jobs afterwards: liveness is
stated without such failures.

### 3.2 Handover recordings: `Handover`

One recording with its transcripts, summaries and jobs.  `session` is the set of
database sessions: those of `Client` serve requests, those of `Worker` execute
jobs; each holds the copies (`audio`, `row`) it loaded first.  A client's session
loads the recording (`Open`) and later runs one of the four handlers on the
copy; a worker loads job and recording (`Load`), returns early or commits
`running` (`Start`), and saves with its last transaction (`PersistTranscript`,
`PersistSummary`) or fails.  `Flushed` decides what an assignment does to the
stored attribute.  `Start` may bring an ended row back to `running`, unless the partial unique
index on active jobs refuses it (`StartClashes`).

The run `Handover` has two jobs, one client, two workers, two versions of each kind and one
fault.  All of it at once is too much, so a behaviour keeps within one of three limits
(`Within`): one job (duplicate deliveries to two workers), one worker without faults (a
retry beside its predecessor, a summary beside a transcription), or one version of each kind
(both jobs and both workers).  It checks what holds in spite of the copies, and that every
job ends unless its recording is deleted (`ActiveJobEnds`; cancelled jobs do end here, because a plain
executor looks at the flag after it has loaded the job).  Of deleted recordings it says nothing: the
executor refuses them with an exception and leaves the job as it is, and only the sweeper ends a job
that was already running.  `NewestIsCurrent` says that the
pointers of the recording name the newest versions, `SucceededLeftAVersion` and
`OneVersionPerDelivery` that successes and versions correspond, although `Start` can bring an
ended row back and every duplicate of a message may be executed.  Fairness: the sweeper is run, a waiting
message is loaded by each worker that stays free, an executor that is not lost goes on.
The four invariants are the parts of `HandoverInv`.  `HandoverFrozen` refutes a statement of the documentation (section 5); two clients, or a
client and a worker, suffice.

### 3.3 The outbox: `Outbox`

`row` is `task_outbox`; `round` is what each publisher holds in memory between its
`SELECT ... FOR UPDATE SKIP LOCKED` (`Take`) and its only commit (`Commit`): the rows it
has locked, those it has still to send, those it has marked published.  `wait` is the time
until `available_at`; since the code counts it from the start of the round, `Rest` subtracts
the age of the round.  `SendFails` covers a send the broker refused and one it took although
the client saw an error; `Lose` a process or commit that is lost.  `Insert` gives
a row any creation time: `created_at` is the beginning of its transaction, so rows may
become visible out of order.

The behaviours of `Platform` about the outbox have two messages, two publishers, batches of one, three attempts and one lost
round.  A batch smaller than the number of due rows is what makes an old failing message stand
in front of a newer one, and three attempts let it come back; larger batches are covered
by the theorems, which hold for every batch size.  Fairness (`OutboxFairness`): beat starts
`publish_outbox` every second, a round that is not lost goes on, time passes.

### 3.4 Starting an investigation: `ClassifyRequests`

One event and the transactions of `POST /events/{id}:classify` and
`POST /jobs/{id}:retry`, statement by statement.  A row of `job` whose `writer` is a request
is not committed yet: others do not see it, but its entry in the partial unique index makes
their inserts wait.  `classify_event` locks the event and then inserts
(`Classify`, `Insert`, `CommitClassify`); a retry locks the attempt, inserts, and only
then locks the event (`Retry`, `Insert`, `Bind`).  `Deadlocked` is PostgreSQL's detector.
`keys` are the operation keys of `task_outbox`.  With `inline` (the setting
`RUN_TASKS_INLINE`) first attempts have no message and no key.

The behaviours of `Orders` about requests have three requests and three jobs, enough for a classification, its retry
and a second classification between them; both values of `inline` are initial states.
`RunsAreExecuted` is the comment "avoid orphaned runs" of `classify_event`; it depends on the
very lock order that makes deadlocks possible, which is why `EveryRequestIsAnswered` is checked
beside it.  Fairness: a request that has begun is served, and the detector runs.
`ClassifyRequestsVersion` shows the clash of keys (section 5).

### 3.5 Executing an investigation: `Classification`, `Investigation`

One attempt, its run, its event and the workers that execute it.  `worker[w].copy` is the job
row as the worker's session last read it: `Begin` and `Finish` are the two `session.refresh(job)`,
each guarded transaction (`Node`) reads the row afresh.  The ways out differ: `Accept`
and `Settle` ask for the token under a lock; the cancelled branch of `Enter`,
`Handles` (the handler around the graph) and `CloseCancelled` write the copy.  The graph of roles
is abstracted to a number of guarded nodes, any of which may raise (`Stumble`).
`cancelling` holds cancel requests between their unlocked read and their write, for the job
alone, for run and job, or for a run whose job has ended.

`Classification` has two workers (an old and a new holder of the lease), two
copies of the message, one lost process and one edit; a lease of one tick, since
time may pass between any two steps.  No liveness is stated: `LeasedJobs` has it for the
same lease.  `ClassificationFinal` is refuted (section 5); `FencedUnlessCancelled` is what
remains true: without the token a worker can only turn a job into a cancelled one, and only
after somebody asked for that.  `OutcomesAgree` is what remains true of job, run and assessment
together, which five ways out write in different orders: a job counts as succeeded only over an
assessment and a succeeded run, and where the run ends otherwise than its job, the job was
cancelled, or failed by the sweeper.

`Investigation` opens what `Classification` counts as guarded nodes.  `agentTask` is the last
report of each role with the revision it was made for (`agent_tasks`), `agentEvidence` and
`agentSteps` the evidence and the decisions of the evidence role, `checkpoint` what the graph
engine stored last, `member[w]` a process with its place and the copies it loaded (`LoadRun`).  A
node begins by asking for a stored report (`Recall`) or for a new one (`Gather`, `Ask`,
`Conclude`, `Call`), is committed under the lease (`FinishNode`), and only then does the engine
write its state (`SaveCheckpoint`); `Resume` and `StartGraph` are the look and the write with
which an execution begins there.  That store asks for no lease: `strayed` records that a process
without one wrote to it.  Reports are told apart by a draft number and by what they were made
from, so `ProposalIsReviewed` can say that the critic approved *this* plan for *this* risk on
*this* evidence, whoever executed which node.  `WithinBudget` counts decisions over all
executions.  `Collides` is a unique index that refuses rows two processes prepared at once.

The behaviours of the run `Ingestion` about an investigation have two processes, two losses
(one in a cancelled run), two queries, one content the tools may find, three decisions and one
return; in the code six and two.  One return gives every role a second revision and three decisions
are used up by two queries and a conclusion, so both limits are reached.  The symmetry is over
processes and rows; the run states no liveness.  That the roles cannot send each other round
for ever is the range of `revision` in `InvestigationTypeOK`.

### 3.6 Work orders: `WorkOrders`

One workflow that awaits its review, and the order its approval creates.  `Load` is the
unlocked read of the review endpoint and `Lock` the `SELECT ... FOR UPDATE` of
`review_workflow`, which waits but keeps the loaded copy; from then until `Reject` or `Approve`
commits, edits of the event go on.  `workflow` stands for the status of the workflow and of its
assessment, which are always written together.  `Move` is `transition_work_order` for every
endpoint: lock, refresh, expected version, table.  A clerk's `saw` is the `expected_version` it
will send, and stays as it is after a move, so the same request may come again.  `timeline` is
`work_order_transitions` with, in `seen`, the version its actor had asked for.  `ScanFinds` and
`ScanCommits` are the two halves of `_check_reminders`; two runs may overlap.

The behaviours of `Orders` about an order have two reviewers, two clerks, two reminder runs, one edit and seven moves: enough to
send the order back once and still close it, or to reopen it.  Fairness: beat starts the reminder
task every minute and a run that started ends.  What is not stated is that the decision stands
(section 5); `OrderIsKept` and `OrderTellsAssessed` are what remains of it.

### 3.7 Knowledge: `Ingestion`, `Versions`

`Ingestion` follows one version from its verified upload to its publication.  `version` is the
row with its `index_state` (`state`), `chunks` and `facts` are the revision of the text the
derived rows were made from, and `index` holds, for each of the three external indexes, the revisions
it has entries of.  A worker's `copy` is the version as its session holds it; the places in
`Running` are the gaps between the transactions and calls of `execute_ingestion`: old entries are
cleaned, the file parsed, chunks and facts stored, and each index is
looked at, written and then marked under the lease.  `Correct` holds the row while the
correction is stored (`editing`); `keys` are the operation keys of first attempts and retries.
`late` and `raced` record the two events that fencing cannot exclude: an attempt reaches an
index after it has lost its lease (the call is not a transaction), and a retry is created
while a correction is being stored, because a retry asks for the state of the version without
locking it.  `ReviewedIsIndexed` and `ReviewedIsCurrent` hold but for these.

The behaviours of the run about a version have two attempts, two workers, the parsed text and
one correction, and one fault; a
lease that runs out is a fault, so an old holder meets a new one.  `ImplementsDocument` maps the
version to a document of `Versions` that has no other: what executors do to its status is hidden,
and what remains has to be a handler's step.  `IngestionCorrected` is refuted (section 5).

`Versions` is all versions of several documents, each action a transaction under the row lock of the
document; `Document` says which rows belong together, and nothing a version does looks beyond them.  `Cut` is what a publication does to the spans of its predecessors, `InForce` the
condition of the query for a day.  Three versions of one document and three days let spans be cut twice and a version begin
on the day another ends; `Field` has two documents, of one meeting.

### 3.8 Meetings: `Meetings`

One meeting.  Jobs of the two kinds are executed by workers without leases, with duplicates and losses (`faults`).
Deletion is `Mark`, `Remove` (the store) and `Close`, by requests and by the retention run alike.
`Publication` is the request that prepares a transcript for a knowledge base: document, version,
upload and link are stored by separate commits, each of which may be the last; `publisher[p].at` names the next.
The module EXTENDS `Versions`: the knowledge base's own handlers act on the same rows.  A meeting has
a document `MEETING-{id}` in each base it is published to, so `Document` is the set of bases:
`StartTranscription` asks nothing of the meeting, because the code asks it of a copy that
may be as old as the meeting; `Transcribe` asks again under the lock.  `Prepare` takes any of the bases, `MakeVersion` looks for the text in that document only, and `Link` goes by the one
publication a transcript may have, whatever its base.  `PreparedOnce` is therefore a statement about
each document, and `LinkedOnce` the one about the meeting: the version linked first stays linked.  A second
base leaves a version that nothing links to (section 5).

`Link` and the publication of a version do not look at the recording, so a text can become active
knowledge after a deletion has begun, and the store is emptied all the same.  `late` records the
versions linked or taken up again in that time; `RecordingOutlivesKnowledge` says that when the recording is gone
everything else made of it has ended, over the mark, the removal, their retries and every
interleaving with publication, withdrawal and jobs.

The behaviours of `Field` about meetings are split into transcripts, minutes, the recording,
publications in one base and publications in two; two transcripts, two attempts, two publishers, two bases
and one fault are the smallest numbers with an edit during a job, a repeated publication beside
the first in the same base or another, and a loss between commits.  Fairness (`Retention`): the
retention run is started again and again and goes on.  `Blocked` in `DeletionCompletes` is the code's own refusal:
something linked to the meeting became active again.

### 3.9 Hazards, inspections, reports: `HazardCases`, `Inspections`, `Reports`

`HazardCases`: `view` is what each person has read, `CheckVersion` the comparison under the row
lock.  Versions up to nine allow two rejections before the hazard is closed, by two people.

`Inspections`: an execution is one transaction over all images, so `analyst[a]` holds what it
has read and what it has done, invisible to others; `Handles` commits what the transaction
holds when a call of the provider fails.  No handler locks a row.  `overlapped` records that two
executions were under way at once; `AnalyzedMeansFound` speaks of the rest.  Two images, two
executions, two attempts and one loss or duplicate.  Fairness: a waiting message is executed and an execution that is not lost goes on.

No step completes an image (`CompleteImage`) that is deleted: the code does not test that, and would change the upload
status of a row nobody reads again.

`Reports`: an editor's request decides on the copy of the report it loaded and writes the
attributes that differ from it.  Generation collects the sources of the day (`Collectable`) and gives them to
the model in chunks.  Recordings, events and findings are collected if they are confirmed
(`ConfirmSource`, which also takes a confirmation back).  Work orders are collected in any state
that has not ended, drafts included, and ended ones if they were changed that day (`MoveOrder`); so a
source need not have been confirmed by anybody, and `SourcesWereCollectable` claims of work orders
only that they exist (section 5).  An export is for the version that was current when it was asked for; it
has attempts that may be cancelled, fail before or after the file is stored, come back, or be retried
on the same row.  The daily run looks for each organisation's report, creates it and
generates it in separate commits.  `Field` checks review (two editors), drafts (an editor beside a
generation, two records and a work order in chunks of one), exports (an editor beside one export) and the daily
run (two runs, two organisations) apart.

### 3.10 Shared services: `Configuration`, `AuditChain`, `Idempotency`, `Access`

`Configuration`: the row to be activated is loaded before the advisory lock is taken, and the
UPDATE that deactivates the others sets it to inactive in the session too, so the assignment
that follows is always written (`WrittenActive`); the unique index on active rows has the last
word.  `AuditChain`: lock, clock, latest entry and commit are four steps; the latest is the one
with the latest time.  The model has one clock.  `Idempotency`: one key, its row and the requests
that use it; a lost request leaves its row.  The outcome "unrecorded" is a request that has
committed and whose row is deleted all the same: a 204, a body that is not JSON or above the
limit, or an error raised after the commit.  `NotDoneAgain` and `DoneOnce` except it by name, since such
a request is repeated (section 5); everything else is executed once.  `Access`: `reply` compares the judgement of one
resource with the clause of the list, for whatever units, flags and assignments there are;
the authorisations are computed for each request, as the code does, from assignments that are
active and within `effective_from` and `expires_at` (`window`, moved on by `PassWindow`).

`Platform` has three writers, three requests with one key (a winner, one that comes second and one that
comes after both), two administrators and three configurations, three units in a tree and two assignments, which is
enough for a unit below an inactive one.  Of the assignments one may begin later and expire
(`Windowed`): that of the account's own tree, beside another one.  Nothing is enabled
or changed by an answer, so the behaviours about access end with it.

## 4. What is proved

Every invariant and every action property that a passing run checks is also a theorem, for every
value of the constants that the named assumptions of the modules allow.  Each is an induction:
`Init => I`, `I /\ [Next]_v => I'`, and the property from `I`.  The proofs are in eight modules,
each about components that belong together; a strengthening is a conjunction of named parts, one for
each table and each kind of process, and was an invariant of a model-checking run before it was proved.

| module | about |
|---|---|
| `LeasedJobsProofs`, `HandoverProofs`, `ClassificationProofs` | the module of the name |
| `OrdersProofs` | `WorkOrders`, `ClassifyRequests` |
| `ExecutorsProofs` | `Ingestion`, `Investigation` |
| `KnowledgeProofs` | `Versions`, `Meetings` |
| `FieldProofs` | `HazardCases`, `Inspections`, `Reports` |
| `SharedServicesProofs` | `Outbox`, `AuditChain`, `Configuration`, `Idempotency`, `Access` |

Beyond names that differ from null and bounds that are numbers, the assumptions are:
processes and messages are finitely many where the one are counted against the other (`WorkersAreFinite` of
`Handover`, `AnalystsAreFinite` of `Inspections`, `OutboxLimits`), and bounds leave room for one
attempt, event version, day or batch where there is nothing to model without it.

### 4.1 Jobs: `LeasedJobs`, `Handover`, `Outbox`

`LeasedJobs`, from `NullsAreNotIds`, `TimeoutsArePositive` and `LimitsAreNatural`:

| theorem | statement |
|---|---|
| `InvariantHolds` | `Spec => []IndInv` |
| `TypeCorrect`, `OneCurrentAttempt`, `RunAndJobAgree`, `AtMostOneAnswer` | its four parts |
| `LostWorkersAreFencedOut` | `Spec => FencedOut` |
| `EndsAreFinal` | `Spec => TerminalIsFinal` |
| `CancelsStick` | `Spec => CancelSticks` |
| `AttemptsImplementTheContract` | `Spec => ImplementsContract` |

`AnsweredOnce` alone is not inductive, since `Answer` preserves it only if the run of a running
attempt is not yet succeeded (`RunFollowsJob`), which needs that a running attempt is the run's
current one (`CurrentAttemptOnly`), and all need the references of `TypeOK` (a busy worker's
job exists, a pending cancel request names an inserted row).  `QuietStep`, `SameStory`,
`CurrentWritten` and `AttemptOpened` group the actions into those that write no row, that
change only flag and clocks, that end or start the current attempt, and that insert one; there
is one lemma per action above them.  The action properties follow from `IndInv` by `MayBecome`,
a relation between a row and its next value that every action satisfies; the refinement by
naming the fate each action changes.

`Handover`, from `NoJobIsNoJob`, `WorkersAreFinite` and `BoundsAreNatural`:

| theorem | statement |
|---|---|
| `RecordingsAreConsistent` | `Spec => []HandoverInv` |
| `NewestVersionIsCurrent`, `VersionsAreDelivered` | two of its parts |

The copies that sessions hold may be as old as they like: nothing is asked of `session[s].audio` but
its type.  What is asked is that an executor works for a job somebody has asked for
(`SessionFits`), since `OneVersionPerDelivery` holds by exchange: a step that makes a version of a
job ends one delivery of it, and a job nobody asked for has neither (`RowFits`).

`Outbox`, for every set of publishers, every finite non-empty set of messages and all
limits, from `OutboxLimits`:

| theorem | statement |
|---|---|
| `RoundsInvariant` | `OutboxSpec => []RoundsInv` |
| `OutboxInvariant` | `OutboxSpec => []OutboxInv`: the same with the limits of batches, ages and back-offs |
| `OneHolderHolds`, `SentIsAccountedForHolds`, `GivenUpAtLimitHolds` | parts of it |
| `ChangedByItsHolderHolds` | `OutboxSpec => ChangedByItsHolder` |

`SentIsAccountedFor` survives a commit only because a row is held by one round (`OneHolder`)
and was pending, hence below its limit (`GivenUpAtLimit`).

### 4.2 Investigations: `ClassifyRequests`, `Classification`, `Investigation`

`ClassifyRequests`, from `NullsAreNotNames` and `AtLeastOneVersion`: `RequestsInvariance`
(`RequestsSpec => []RequestsIndInv`) and `AttemptsFitTogether` (`RequestsSpec => []RequestsInv`).
One attempt at a time rests on two mechanisms.  A first attempt holds the event from its check to its
answer, so nothing is active while it does; a retry inserts before it has the event and is
held back by the partial unique index alone, and it owns the attempt it retries (`OneByOne`).  A row
that is not committed belongs to the one request that inserted it (`RequestRowFits`).

`Classification`, from `ClassificationBounds`:

| theorem | statement |
|---|---|
| `AttemptsAreAssessedOnce` | `Spec => []ClassificationInv` |
| `OutcomesAlwaysAgree` | `Spec => []OutcomesAgree` |
| `LostInvestigatorsOnlyCancel` | `Spec => FencedUnlessCancelled` |

The ways out that write a stale copy could take an assessed attempt back.  They do not, because
they are taken with the flag set in the copy: a flag a worker has read is still set
(`CopyIsOld`), an attempt that was unfinished when it was read with the flag is never assessed, and one
that had ended keeps its own end.

`Investigation`, from `InvestigationNames` and `InvestigationLimits`:

| theorem | statement |
|---|---|
| `InvestigationInvariance` | `InvestigationSpec => []InvestigationIndInv` |
| `InvestigationsAreReviewed` | `InvestigationSpec => []InvestigationInv` |
| `ReportsAreNotRepeated` | `InvestigationSpec => ReportsStand` |

Two stores are written one after the other, so the stored reports are as far as the state of the
engine or one role ahead of it, and then made from it (`RoundsFit`, `MadeFrom`), as long as nobody
without a lease has written to the engine.  What a process has in hand is described for each place
of a node (`HandFits`): loaded from the engine, ahead of it by its own report, or about to be stored there.
`ReportsStand` needs that the holder of the lease knows every stored report
(`HolderKnows`), `CheckpointIsBacked` that nothing younger than the stored drafts is known anywhere
outside a node (`YoungFits`).  The proof corrected the model: `CheckpointIsBacked` used to
be stated of cancelled runs, too, and is false for them when two returns are allowed, as the
code does.  The handler of a cancelled run stores without a guard, and can put
an older plan in the place of a younger one; the run, with one return, had not shown it.

### 4.3 Orders, hazards, inspections, reports

`WorkOrders`, for any reviewers, clerks, reminder runs and bounds, from `WorkOrderBounds`:

| theorem | statement |
|---|---|
| `Invariance` | `Spec => []IndInv` |
| `Typing`, `TimelineAccounts`, `ApprovalsSawTheirDraft`, `NoUnapprovedWork`, `OrdersTellAssessed` | its parts |
| `OrdersAreKept` | `Spec => OrderIsKept` |

`WorkWasApproved` says nothing of an order that is approved and not yet dispatched; its
strengthening `ApprovalStands` does, and `ApprovedAsSeen` follows because the time line is as
long as the version (`TimelineIsChain`) that an approver must have seen.

`HazardCases`, for any number of people and rounds, from `HazardBounds`:
`HazardInvariant` (`HazardSpec => []HazardInv`) and its parts `StoriesAreComplete`,
`JudgementsAreInformed`, `RoundsAreJudged`.  That the judge has read the round
(`JudgedWhatWasRead`) needs that whoever has read the present version has read the present
round (`ReadIsPast`), which every transition keeps because it raises the version; the types
need that there are fewer submissions than versions (`CountsFit`).

`Inspections`, from `InspectionBounds` and `AnalystsAreFinite`: `InspectionInvariance`,
`InspectionsAreConsistent` (`InspectionSpec => []InspectionsInv`) and `DeletedImagesStayDeleted`
(`InspectionSpec => DeletedStaysDeleted`).  While executions have not overlapped, the one under way
will find what nobody has found (`AloneFinds`); messages are counted against the executions that
hold them (`MessagesFit`).  Deletion is kept although an execution writes from what it read
earlier, since it writes the status alone.

`Reports`, from `ReportBounds`: `ReportsInvariance` and `ReportsAreReliable`
(`ReportsSpec => []ReportsInv`).  Editors decide on copies as old as they like; what makes that
harmless is that versions are only added and approvals only gained, so a copy names a version
that exists, and whoever read an approved report has read an approval that stands (`EditorFits`,
`ApprovedIsRecorded`).  What a generation has collected are records (`CollectedWereCollectable`): confirmations
may be taken back and orders may end while the model writes, but a confirmation has been given and an order exists
for good.  A stored file is the version that was asked for whatever attempt stored it
(`ExportFits`), and whoever generates
an organisation's daily report is the one who created it (`DailyRunFits`).

### 4.4 Knowledge: `Versions`, `Meetings`, `Ingestion`

`Versions`, for any number of versions, documents, contents and days, from `VersionsBounds` and `DocumentsApart`:
`PublishedSpansApart`, `VersionsInvariant` (`VersionsSpec => []VersionsInv`) and `HistoryStands`
(`VersionsSpec => PublishedHistoryStands`).  `OneInForce` is
about days; the proof works with `SpansApart`, which is about pairs: published
spans of a document lie one after the other.  A publication keeps that because it begins after every other
one and cuts all of them to its own beginning.

`Meetings`, from `VersionsBounds` and `MeetingsBounds`:

| theorem | statement |
|---|---|
| `MeetingsInvariance` | `MeetingsSpec => []MeetingsIndInv` |
| `MeetingsKeepTheVersions` | `MeetingsSpec => VersionsSpec` |
| `PublishedTranscriptsApart` | `MeetingsSpec => []VersionsInv` |
| `MeetingsAreReliable` | `MeetingsSpec => MeetingsHold` |

`Meetings` shares the variable `version` with `Versions`, and each of its steps is a step of that
specification or leaves the document alone; so the invariant of the document is inherited and
not proved again.  A transcript is prepared once in each base, although the lock of the meeting is given up on the
way, because a document refuses contents it has (`TextsApart`); a linked version holds the text it is linked for
(`PublicationFits`), as a request with a version in hand has one with its text (`PublisherFits`).  That what
is left of a removed recording came late needs nothing more than that the removal follows the
mark (`DeletionFits`): the mark is refused while anything linked is active, and whatever becomes active later passes
through `LateWith`.  The types of minutes need that a worker with minutes in hand has a transcript (`WorkersFit`).

`Ingestion`, from `IngestionNulls` and `IngestionBounds`:

| theorem | statement |
|---|---|
| `IngestionInvariance` | `Spec => []IngestionIndInv` |
| `ReviewedIsSound` | `Spec => []IngestionInv` |
| `ProcessingGoesOn` | `Spec => []BrokenOffCanGoOn` |
| `ApprovedStays` | `Spec => ApprovedIsFrozen` |
| `IngestionKeepsTheDocument` | `Spec => ImplementsDocument` |

The invariant says what the marks mean of rows (`RowsFit`) and indexes (`IndexesFit`), and, of an
attempt that has its lease, that its copy is the row and how far the row, the marks and the indexes are at each place of the
pipeline (`HolderFits`); an attempt without a lease is known to be of its type and no
more.  An attempt at its end has the three marks whether or not something raced
(`MarksFit`), so nothing reaches a reviewer without them.  `BrokenOffCanGoOn` follows because the newest
attempt of a version that was begun is active, failed or cancelled and has no retry
(`BegunHasAttempt`).  `ImplementsDocument` is the refinement of `Versions` for this version:
an executor's statuses are mapped to "uploaded", and every step that moves the mapped row is one
of the document's handlers (`StatusMoves`, `DocumentStep`).  It speaks of steps, not of the
beginning, since `Ingestion` begins with a verified file.

### 4.5 Shared services: `Idempotency`, `AuditChain`, `Configuration`, `Access`

`Idempotency`, for any number of requests and rows, from `IdempotencyBounds`:
`RowsAgree`, `IdempotencyInvariant` and `NothingIsDoneAgain` (`IdempotencySpec => NotDoneAgain`).  The
strengthening (`RowsAgree`) is about rows: two requests never share one, the row of a request that
executes is not completed, and the row of a lost one is still there; so the key is free
(`FreeKey`) only if whoever reserved it has given the row back (`GivenBack`), by a refusal or by
a success that is not recorded.  `DoneOnce` is part of the invariant for the same reason: a request that
took effect and was not given back still has its row.

`AuditChain`, for any number of transactions, from `AuditBounds`: `AuditInvariant`.
Between lock and commit the time a writer has read is later than the log and the predecessor
it has hashed is the latest entry (`ChainIsExtended`), as nobody else is there (`HolderAlone`).

`Configuration`, for any number of administrators, versions, jobs and attempts, from
`ConfigurationBounds`: `ConfigurationInvariant`.  `ActivationIsKept` names the version in
use; whoever numbers a version has the lock, and snapshots equal what was asked for
(`LocksAndSnapshotsFit`).

`Access`, for any set of units and any tree over it, from `RootIsUnit`: `AccessInvariance` and
`AccessIsConsistent` (`AccessSpec => AccessHolds`).  The code searches the tree level by level until
nothing is added; `Descendants` is where that ends, the least set that has the active roots and
the active children of its members.  `ReachedThroughActive` follows from its being the least: a
unit in it that is neither a root nor below another member could be left out
(`SearchFollowsTheTree`).

### 4.6 Only model-checked

Liveness is out of the prover's reach: `QueuedAttemptEnds`, `RunningAttemptEnds`, `EveryMessageLeaves`,
`ActiveJobEnds`, `EveryRequestIsAnswered`, `OverdueIsReminded`, `AnalysisEnds` and `DeletionCompletes`
are checked by the runs only.  The five statements of section 5 are refuted by runs.  No recursive
definition is used in any module.

## 5. Where the code and its documentation part

* `CancelledAttemptEnds`: a leased job flagged while queued is refused by `claim_job`
  and stays queued; it holds the active slot of its resource and cannot be retried.
* `ConfirmedIsFrozen`: the check of confirmation is made on the copy loaded before the lock.
* `TerminalIsFinal` of `Classification`: three ways out of an investigation write a stale copy
  of the job without its token, over a job that a sweeper or another worker has ended.
* `NewVersionCanBeClassified`: every first attempt for one resource and job type has the same
  operation key, which stays in `task_outbox`; once the event has changed, a retry is
  refused and a new classification fails at its commit.  `Handover!Request` has the same key.
* `CorrectedCanGoOn`: for the same reason a version that was corrected after its review cannot be
  processed again.

Further consequences of stale copies and separate commits are in the models, as behaviours they
allow, but have no run of their own:

* `WorkOrders`: a reviewer who waited for the lock can reject after an approval, leaving an
  order whose workflow says "rejected", or approve after a rejection and create one.
* `Handover`: a summary generated from a transcript replaced meanwhile becomes current; a
  confirmation can pass over a transcript saved after the request loaded the recording; a job
  cancelled during its provider call can still save its version (the flag is looked for in the
  old copy); a duplicate delivery can turn an ended job back to running.
* `Classification`: an investigation that is cancelled after its graph has ended commits a
  succeeded run; the sweeper fails a job and leaves its run behind.
* `Investigation`: a process that lost its lease between the commit of a node and the write of
  the engine puts the graph back (`strayed`), from where stored reports of a later revision are
  taken over by their number alone: the plan of a second revision for a risk it was not made
  for, after one more loss an approval of a plan the critic has not seen.  The handler of a cancelled run
  stores whatever its node had prepared, without a guard.
* `Ingestion`: an attempt without a lease writes to an index (`late`), a retry slips in beside a
  correction (`raced`).
* `Meetings`: the publication gives up its lock at its first commit, so the transcript can be
  edited before the meeting counts as published.  `Link` (`meeting/application/service.py:645-664`) does not look at
  `upload_status`, nor does the publication of a version, so a text can become active knowledge after the deletion of its
  recording has begun, and the recording is removed.  A transcript that is asked for in two
  bases gets a version in each (lines 615-627); the constraint on meeting and transcript
  admits one link, so the second version stays without one, and the withdrawal of the meeting
  passes it over.
* `Reports`: the prompts say that sources are confirmed ("已确认来源",
  `report/application/workflow.py:58`, `shared/platform/runtime.py:82`); `_collect_sources`
  (`report/application/service.py:155-173`) takes any work order that has not ended, drafts that nobody has
  approved included, and those merely updated that day.
* `Idempotency`: the table is there to keep the first result "避免重试重复执行", so that a retry does
  not execute again (`shared/platform/models.py:115`).  The middleware deletes the row of a success that is not
  JSON (`idempotency.py:112-114`) or is larger than a million bytes (lines 123-141), after
  the handler has committed.  The DELETE routes that answer 204 (audio records, inspection images,
  finding links, role assignments) are executed again under the same key.
* `Handover`: `get_audio` raises for a deleted recording before the executor's `try`
  (`handover/application/service.py:50-54`, `handover/application/tasks.py:21`), so a job that was still queued stays queued.
* `Reports`: two reviewers who decide at the same time can leave a published report whose
  version says "rejected"; a daily run that breaks off between creation and generation
  leaves a report without a version, which later runs pass over.
* `Inspections`: two overlapping executions store their findings twice, and an image with a
  confirmed finding can be deleted.

Seen in the code and outside the models: `bump_authz_version` reads the account without the
lock its comment speaks of, so two changes at the same time are counted once, and the cache of
the retrieval is keyed by that counter (`Access` takes a change as one step); and a change
of the model alias compares the expected version with a row it has not locked.

## 6. Not modelled

* **Uploads**: sessions, verification and expiry.  A session ends in one transaction and meets
  the modelled parts only by the file it leaves, which they take as verified.
* **Retrieval, chunking, ranking, prompt rendering and provider protocols**: pure functions of
  text, or remote services whose success and failure the executors model.
* **Object storage**: file input and output behind a port; its failures are in `Meetings`.
* **Tokens and the catalogue of permissions**: read-only checks before the actions modelled
  here; a revoked permission is one of the reasons of `Fail` and `Fails`.  What depends on data,
  the scope of an account, is in `Access`.
* **Extraction, merge and split of events, manual handover records, attachments of orders,
  the model alias of the runtime configuration, rules of delegation**: parts of components
  that `PROJECT.json` lists as partly modelled.
* **Bootstrap**: wiring and settings; beat's schedule and Celery's options are the grounds of
  the fairness assumed.
* **The stand-alone services under `services/` and the mock identity provider under `dev/`**:
  separate programs, used through HTTP.
