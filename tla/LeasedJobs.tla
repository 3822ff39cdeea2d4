------------------------------ MODULE LeasedJobs ------------------------------
(***************************************************************************)
(* One knowledge run and the attempts that execute it: POST /runs, the     *)
(* transactional outbox, the broker, worker processes that execute         *)
(* execute_answer under an execution lease, cancellation by the two        *)
(* endpoints that offer it, the sweeper of silent jobs, and retries.       *)
(*                                                                         *)
(* Every action is one database transaction or one broker operation, so    *)
(* that crashes, expiries and the other actors fall between any two.       *)
(***************************************************************************)
EXTENDS JobRow, FiniteSets

CONSTANTS
    MaxSendAttempts,  \* settings.outbox_max_attempts
    MaxFaults,        \* bound: broker failures plus process crashes
    StartupMayFail    \* may a task raise before its claim is committed?

ASSUME LimitsAreNatural ==
    MaxSendAttempts \in Nat \ {0} /\ MaxFaults \in Nat /\ StartupMayFail \in BOOLEAN

VARIABLES
    job,       \* the table async_jobs
    outbox,    \* the table task_outbox, by the job a row announces
    broker,    \* how many messages of each job wait in RabbitMQ
    worker,    \* what each worker process is doing
    run,       \* the row of knowledge_runs
    cancelling,\* jobs a platform cancel request has read and not yet written
    faults     \* faults spent so far

vars == <<job, outbox, broker, worker, run, cancelling, faults>>

NoSend == [status |-> "none", attempts |-> 0]
Pending == [status |-> "pending", attempts |-> 0]

\* The places of execute_answer between its transactions, in order.
Fenced == {"started", "retrieving", "generating"}
Places == {"idle", "claiming"} \cup Fenced \cup {"closing", "unwinding", "settling"}

TypedFields ==
    /\ job \in [Job -> Row]
    /\ outbox \in [Job -> [status   : {"none", "pending", "published", "failed"},
                           attempts : 0 .. MaxSendAttempts]]
    /\ \A j \in Job : outbox[j].status = "pending" => outbox[j].attempts < MaxSendAttempts
    /\ broker \in [Job -> Nat]
    /\ worker \in [Worker -> [at : Places, job : Job \cup {NoJob}]]
    /\ run \in [status  : {"absent", "queued", "running"} \cup Terminal,
                job     : Job \cup {NoJob},
                answers : Nat]
    /\ cancelling \in SUBSET Job
    /\ faults \in 0 .. MaxFaults

\* Foreign keys: a busy worker, a pending cancel request and the run name rows
\* that exist, rows not yet inserted are blank, no run has no rows.
ReferencesExist ==
    /\ \A w \in Worker : worker[w].at # "idle" => worker[w].job \in Job
    /\ \A j \in cancelling : job[j].status # "absent"
    /\ \A j \in Job : job[j].status = "absent" => job[j] = Absent
    /\ run.status = "absent" <=> run.job = NoJob
    /\ run.job = NoJob => \A j \in Job : job[j].status = "absent"
    /\ run.job # NoJob => job[run.job].status # "absent"

TypeOK == TypedFields /\ ReferencesExist

Init ==
    /\ job = [j \in Job |-> Absent]
    /\ outbox = [j \in Job |-> NoSend]
    /\ broker = [j \in Job |-> 0]
    /\ worker = [w \in Worker |-> [at |-> "idle", job |-> NoJob]]
    /\ run = [status |-> "absent", job |-> NoJob, answers |-> 0]
    /\ cancelling = {}
    /\ faults = 0

-------------------------------------------------------------------------------
(* The requests of users. *)

\* POST /runs: the run, its first attempt and the message in one transaction.
Ask(j) ==
    /\ run.status = "absent"
    /\ run' = [run EXCEPT !.status = "queued", !.job = j]
    /\ job' = [job EXCEPT ![j] = NewRow(NoJob, 1)]
    /\ outbox' = [outbox EXCEPT ![j] = Pending]
    /\ UNCHANGED <<broker, worker, cancelling, faults>>

Children(j) == {c \in Job : job[c].parent = j}

\* Faulty: a retry that forgets to point the run at the new attempt.
RetryUnbound(j, c) ==
    /\ job[j].status \in {"failed", "cancelled"}
    /\ Children(j) = {}
    /\ run.job = j
    /\ \A i \in Job : job[i].status \notin Active
    /\ job[c].status = "absent"
    /\ job' = [job EXCEPT ![c] = NewRow(j, job[j].attempt + 1)]
    /\ outbox' = [outbox EXCEPT ![c] = Pending]
    /\ run' = [run EXCEPT !.status = "queued"]
    /\ UNCHANGED <<broker, worker, cancelling, faults>>

\* POST /jobs/{id}:retry with bind_retry.  The original is locked and read
\* afresh; the partial unique index admits one active attempt per resource.
Retry(j, c) ==
    /\ job[j].status \in {"failed", "cancelled"}
    /\ Children(j) = {}
    /\ run.job = j
    /\ \A i \in Job : job[i].status \notin Active
    /\ job[c].status = "absent"
    /\ job' = [job EXCEPT ![c] = NewRow(j, job[j].attempt + 1)]
    /\ outbox' = [outbox EXCEPT ![c] = Pending]
    /\ run' = [run EXCEPT !.status = "queued", !.job = c]
    /\ UNCHANGED <<broker, worker, cancelling, faults>>

\* POST /jobs/{id}:cancel reads the row without a lock and decides on it ...
CancelRead(j) ==
    /\ job[j].status \in Active
    /\ cancelling' = cancelling \cup {j}
    /\ UNCHANGED <<job, outbox, broker, worker, run, faults>>

\* ... and writes the flag later, whatever the row has become.
CancelWrite(j) ==
    /\ j \in cancelling
    /\ job' = [job EXCEPT ![j].cancel_requested = TRUE]
    /\ cancelling' = cancelling \ {j}
    /\ UNCHANGED <<outbox, broker, worker, run, faults>>

\* POST /runs/{id}:cancel locks the row of the run's current attempt; an
\* attempt still queued is cancelled on the spot.
CancelRun(j) ==
    /\ run.job = j
    /\ job[j].status \in Active
    /\ LET flagged == [job[j] EXCEPT !.cancel_requested = TRUE]
       IN  IF job[j].status = "queued"
           THEN /\ job' = [job EXCEPT ![j] = Updated(flagged, "cancelled")]
                /\ run' = [run EXCEPT !.status = "cancelled"]
           ELSE /\ job' = [job EXCEPT ![j] = flagged]
                /\ UNCHANGED run
    /\ UNCHANGED <<outbox, broker, worker, cancelling, faults>>

-------------------------------------------------------------------------------
(* The outbox publisher and the broker. *)

\* publish_pending_outbox sends the message and commits the row.
Publish(j) ==
    /\ outbox[j].status = "pending"
    /\ outbox' = [outbox EXCEPT ![j].status = "published", ![j].attempts = @ + 1]
    /\ broker' = [broker EXCEPT ![j] = @ + 1]
    /\ UNCHANGED <<job, worker, run, cancelling, faults>>

\* The publisher dies after the send and before its commit.
PublishCrash(j) ==
    /\ outbox[j].status = "pending"
    /\ faults < MaxFaults
    /\ faults' = faults + 1
    /\ broker' = [broker EXCEPT ![j] = @ + 1]
    /\ UNCHANGED <<job, outbox, worker, run, cancelling>>

\* Faulty: a publisher that never gives up.
SendFailsForever(j) ==
    /\ outbox[j].status = "pending"
    /\ faults < MaxFaults
    /\ faults' = faults + 1
    /\ outbox' = [outbox EXCEPT ![j].attempts = @ + 1]
    /\ UNCHANGED <<job, broker, worker, run, cancelling>>

\* send_task raises; the last allowed attempt gives the message up.
SendFails(j) ==
    /\ outbox[j].status = "pending"
    /\ faults < MaxFaults
    /\ faults' = faults + 1
    /\ outbox' = [outbox EXCEPT ![j] =
           [status   |-> IF @.attempts + 1 >= MaxSendAttempts THEN "failed" ELSE "pending",
            attempts |-> @.attempts + 1]]
    /\ UNCHANGED <<job, broker, worker, run, cancelling>>

Deliver(w, j) ==
    /\ worker[w].at = "idle"
    /\ broker[j] > 0
    /\ broker' = [broker EXCEPT ![j] = @ - 1]
    /\ worker' = [worker EXCEPT ![w] = [at |-> "claiming", job |-> j]]
    /\ UNCHANGED <<job, outbox, run, cancelling, faults>>

\* Faulty: messages acknowledged when they are received.
CrashAckedEarly(w) ==
    /\ worker[w].at # "idle"
    /\ faults < MaxFaults
    /\ faults' = faults + 1
    /\ worker' = [worker EXCEPT ![w] = [at |-> "idle", job |-> NoJob]]
    /\ UNCHANGED <<job, outbox, broker, run, cancelling>>

\* A worker process is lost; acks_late returns its message to the queue.
Crash(w) ==
    /\ worker[w].at # "idle"
    /\ faults < MaxFaults
    /\ faults' = faults + 1
    /\ broker' = [broker EXCEPT ![worker[w].job] = @ + 1]
    /\ worker' = [worker EXCEPT ![w] = [at |-> "idle", job |-> NoJob]]
    /\ UNCHANGED <<job, outbox, run, cancelling>>

-------------------------------------------------------------------------------
(* The leased executor. *)

Moves(w, place) == worker' = [worker EXCEPT ![w].at = place]
Acks(w) == worker' = [worker EXCEPT ![w] = [at |-> "idle", job |-> NoJob]]

\* claim_job under the row lock.
Claim(w) ==
    /\ worker[w].at = "claiming"
    /\ Claimable(job[worker[w].job])
    /\ job' = [job EXCEPT ![worker[w].job] = Claimed(@, w)]
    /\ Moves(w, "started")
    /\ UNCHANGED <<outbox, broker, run, cancelling, faults>>

\* A refused claim raises, as does a task whose providers or database cannot
\* be reached; the task ends and its message is acknowledged all the same.
ClaimRefused(w) ==
    /\ worker[w].at = "claiming"
    /\ Claimable(job[worker[w].job]) => StartupMayFail
    /\ Acks(w)
    /\ UNCHANGED <<job, outbox, broker, run, cancelling, faults>>

Heartbeat(w) ==
    /\ worker[w].at \in Fenced
    /\ HoldsLease(job[worker[w].job], w)
    /\ job' = [job EXCEPT ![worker[w].job] = Renewed(@)]
    /\ UNCHANGED <<outbox, broker, worker, run, cancelling, faults>>

\* First guarded transaction: the run is marked running.
Begin(w) ==
    /\ worker[w].at = "started"
    /\ HoldsLease(job[worker[w].job], w)
    /\ run' = [run EXCEPT !.status = "running"]
    /\ Moves(w, "retrieving")
    /\ UNCHANGED <<job, outbox, broker, cancelling, faults>>

\* Second guarded transaction: evidence and scope are stored in the trace.
Retrieve(w) ==
    /\ worker[w].at = "retrieving"
    /\ HoldsLease(job[worker[w].job], w)
    /\ Moves(w, "generating")
    /\ UNCHANGED <<job, outbox, broker, run, cancelling, faults>>

\* Last guarded transaction: answer, run and job succeed together.
Answer(w) ==
    /\ worker[w].at = "generating"
    /\ HoldsLease(job[worker[w].job], w)
    /\ job' = [job EXCEPT ![worker[w].job] = Updated(@, "succeeded")]
    /\ run' = [run EXCEPT !.status = "succeeded", !.answers = @ + 1]
    /\ Moves(w, "closing")
    /\ UNCHANGED <<outbox, broker, cancelling, faults>>

\* Any exception of the body: a refused guard or heartbeat, a provider that
\* fails, a permission that was revoked, an event that cannot be appended
\* after the answer was committed.
Fail(w) ==
    /\ worker[w].at \in Fenced \cup {"closing"}
    /\ Moves(w, "unwinding")
    /\ UNCHANGED <<job, outbox, broker, run, cancelling, faults>>

\* Leaving execution_lease, after success or with an exception under way.
Release(w) ==
    /\ worker[w].at \in {"closing", "unwinding"}
    /\ job' = [job EXCEPT ![worker[w].job] = Released(@, w)]
    /\ IF worker[w].at = "closing" THEN Acks(w) ELSE Moves(w, "settling")
    /\ UNCHANGED <<outbox, broker, run, cancelling, faults>>

\* Faulty: a handler that ends any job still carrying its token, or that
\* forgets the run.
SettleByToken(w) ==
    /\ worker[w].at = "settling"
    /\ IF job[worker[w].job].execution_token = w
       THEN /\ job' = [job EXCEPT ![worker[w].job] = Updated(@, "failed")]
            /\ run' = [run EXCEPT !.status = "failed"]
       ELSE UNCHANGED <<job, run>>
    /\ Acks(w)
    /\ UNCHANGED <<outbox, broker, cancelling, faults>>
SettleJobOnly(w) ==
    /\ worker[w].at = "settling"
    /\ LET j == worker[w].job
       IN  IF HoldsToken(job[j], w) /\ job[j].status = "running"
           THEN job' = [job EXCEPT ![j] = Updated(@,
                            IF @.cancel_requested THEN "cancelled" ELSE "failed")]
           ELSE UNCHANGED job
    /\ Acks(w)
    /\ UNCHANGED <<run, outbox, broker, cancelling, faults>>

\* The handler of execute_answer: only the holder of the token of a job that
\* still runs ends it, and the run with it.
Settle(w) ==
    /\ worker[w].at = "settling"
    /\ LET j   == worker[w].job
           end == IF job[j].cancel_requested THEN "cancelled" ELSE "failed"
       IN  IF job[j].execution_token = w /\ job[j].status = "running"
           THEN /\ job' = [job EXCEPT ![j] = Updated(@, end)]
                /\ run' = [run EXCEPT !.status = end]
           ELSE UNCHANGED <<job, run>>
    /\ Acks(w)
    /\ UNCHANGED <<outbox, broker, cancelling, faults>>

-------------------------------------------------------------------------------
(* Periodic maintenance and time. *)

\* fail_stale_jobs: the job fails; the run is not touched.
Sweep(j) ==
    /\ Stale(job[j])
    /\ job' = [job EXCEPT ![j] = Updated(@, "failed")]
    /\ UNCHANGED <<outbox, broker, worker, run, cancelling, faults>>

Tick ==
    /\ job' = [j \in Job |-> Aged(job[j])]
    /\ UNCHANGED <<outbox, broker, worker, run, cancelling, faults>>

JobStep(j) ==
    \/ Ask(j) \/ CancelRead(j) \/ CancelWrite(j) \/ CancelRun(j)
    \/ Publish(j) \/ PublishCrash(j) \/ SendFails(j) \/ Sweep(j)

WorkerStep(w) ==
    \/ Claim(w) \/ ClaimRefused(w) \/ Heartbeat(w)
    \/ Begin(w) \/ Retrieve(w) \/ Answer(w) \/ Fail(w)
    \/ Release(w) \/ Settle(w) \/ Crash(w)

Next ==
    \/ \E j \in Job : JobStep(j)
    \/ \E j, c \in Job : Retry(j, c)
    \/ \E w \in Worker : WorkerStep(w)
    \/ \E w \in Worker, j \in Job : Deliver(w, j)
    \/ Tick

Spec == Init /\ [][Next]_vars

-------------------------------------------------------------------------------
(* Safety. *)

\* Only the attempt the run points at can be unfinished or have succeeded:
\* every other attempt failed or was cancelled, and was retried by exactly one
\* attempt, numbered one higher.  Retries, sweeps and late workers of older
\* attempts all have to respect this.
CurrentAttemptOnly ==
    /\ \A j \in Job \ {run.job} : job[j].status \in {"absent", "failed", "cancelled"}
    /\ \A j \in Job : job[j].parent # NoJob =>
           /\ job[job[j].parent].status \in {"failed", "cancelled"}
           /\ job[j].attempt = job[job[j].parent].attempt + 1
           /\ \A i \in Job \ {j} : job[i].parent # job[j].parent
    /\ run.job # NoJob => Children(run.job) = {}

\* The run's own status never contradicts its current attempt, although the
\* two rows are locked by different endpoints; a swept attempt is the one case
\* in which the attempt has ended and the run has not.
RunFollowsJob ==
    run.job # NoJob =>
        LET status == job[run.job].status
        IN  /\ status = "queued" => run.status = "queued"
            /\ status = "running" => run.status \in {"queued", "running"}
            /\ status = "failed" => run.status \in {"queued", "running", "failed"}
            /\ status \in {"succeeded", "cancelled"} => run.status = status

\* A run is answered at most once, and exactly when it is marked succeeded:
\* no redelivery, crash, expiry or retry publishes a second answer.
AnsweredOnce == run.answers = IF run.status = "succeeded" THEN 1 ELSE 0

\* What holds between the attempts of a run, the run and its answer in every state:
\* attempts succeed one another, the run goes with the last one, and is answered once.
IndInv ==
    /\ TypeOK
    /\ CurrentAttemptOnly
    /\ RunFollowsJob
    /\ AnsweredOnce

\* An ended job keeps its status, whoever still holds a copy of its row.
TerminalIsFinal ==
    [][\A j \in Job : job[j].status \in Terminal => job'[j].status = job[j].status]_vars

\* A worker past its claim whose token the row no longer carries can finish
\* in any way it likes: the jobs and the run are left as they are.
FencedOut ==
    [][\A w \in Worker :
          /\ worker[w].at \notin {"idle", "claiming"}
          /\ job[worker[w].job].execution_token # w
          /\ worker'[w] # worker[w]
          => UNCHANGED <<job, run>>]_vars

\* Once a cancel request is recorded it is never withdrawn, and no answer is
\* published by the attempt it names.
CancelSticks ==
    [][\A j \in Job : job[j].cancel_requested =>
          /\ job'[j].cancel_requested
          /\ job'[j].status = "succeeded" => job[j].status = "succeeded"]_vars

\* Attempts and answers, seen from outside, behave as RunContract says.
Fate(j) ==
    CASE job[j].status = "absent"    -> "unborn"
      [] job[j].status \in Active    -> "live"
      [] job[j].status = "succeeded" -> "won"
      [] OTHER                       -> "lost"

Contract == INSTANCE RunContract WITH
    Attempt <- Job, fate <- [j \in Job |-> Fate(j)], answers <- run.answers

ImplementsContract == Contract!Spec

-------------------------------------------------------------------------------
(* Liveness. *)

\* Beat runs the publisher every second and the sweeper every minute, the
\* broker hands a waiting message to a free worker, a worker that is not lost
\* gets on with its task, and time passes.  Nothing makes users act, and
\* faults are finite in number.
Fairness ==
    /\ \A j \in Job : WF_vars(Publish(j)) /\ WF_vars(Sweep(j)) /\ WF_vars(CancelWrite(j))
    /\ \A w \in Worker :
          /\ WF_vars(\E j \in Job : Deliver(w, j))
          /\ WF_vars(Claim(w) \/ ClaimRefused(w))
          /\ WF_vars(Begin(w) \/ Retrieve(w) \/ Answer(w) \/ Fail(w))
          /\ WF_vars(Release(w) \/ Settle(w))
    /\ WF_vars(Tick)

FairSpec == Spec /\ Fairness

\* A queued attempt that nobody cancels and whose message is not given up is
\* executed to an end, whatever crashes and expiries happen on the way, as
\* long as no task raises before its claim: no sweeper looks at queued jobs.
QueuedAttemptEnds ==
    \A j \in Job : job[j].status = "queued" ~>
        \/ job[j].status \in Terminal
        \/ job[j].cancel_requested
        \/ outbox[j].status = "failed"

\* A running attempt ends even if its worker is lost and its message is spent
\* while the dead worker's lease still runs: the sweeper ends it.
RunningAttemptEnds ==
    \A j \in Job : job[j].status = "running" ~> job[j].status \in Terminal

\* What cancel_job and request_cancel say of cancellation: a request that is
\* recorded makes the attempt stop.
CancelledAttemptEnds ==
    \A j \in Job : job[j].cancel_requested ~> job[j].status \in Terminal
===============================================================================
