---------------------------- MODULE Classification ----------------------------
(***************************************************************************)
(* The investigation of one confirmed event: the request that starts it,   *)
(* cancel requests, edits of the event, and worker processes that run      *)
(* execute_event_classification under an execution lease.                  *)
(*                                                                         *)
(* The executor is leased like the one of LeasedJobs, but its session      *)
(* keeps a copy of the job row between two guarded transactions, and two   *)
(* of its ways out write that copy back without asking for the token.      *)
(***************************************************************************)
EXTENDS JobRow, FiniteSets

CONSTANTS
    MaxEdits,   \* bound: versions an edit may add to the event
    MaxCopies,  \* bound: messages of one job the publisher may send
    MaxFaults   \* bound: worker processes lost

ASSUME ClassificationBounds ==
    MaxEdits \in Nat /\ MaxCopies \in Nat \ {0} /\ MaxFaults \in Nat

VARIABLES
    event,      \* the row of production_events
    job,        \* async_jobs
    run,        \* agent_runs, by the job that executes them
    assessed,   \* abnormality_assessments committed by each job
    mail,       \* messages of each job in the broker
    worker,     \* what each worker process does, and its copy of the job row
    cancelling, \* cancel requests that have read and not yet written: <<job, kind>>
    faults

vars == <<event, job, run, assessed, mail, worker, cancelling, faults>>

NoRun == [status |-> "absent", cancel_requested |-> FALSE, version |-> 0]
NoCopy == [status |-> "absent", cancel_requested |-> FALSE]
Idle == [at |-> "idle", job |-> NoJob, copy |-> NoCopy, fit |-> FALSE]

\* Inside the lease, with the heartbeat running.
Leased == {"claimed", "begun", "entered", "graph", "closing"}
Places == {"idle", "opened", "leaving", "unwinding", "settling"} \cup Leased
\* What a cancel request flags: POST /jobs/{id}:cancel the job, POST
\* /agent-runs/{id}:cancel the run and, unless it had ended, its job.
Requests == {"job", "run", "both"}

TypeOK ==
    /\ event \in [status : {"confirmed", "superseded"}, version : 1 .. MaxEdits + 1]
    /\ job \in [Job -> Row]
    /\ run \in [Job -> [status : Active \cup Terminal \cup {"absent"},
                        cancel_requested : BOOLEAN, version : 0 .. MaxEdits + 1]]
    /\ assessed \in [Job -> Nat]
    /\ mail \in [Job -> Nat]
    /\ worker \in [Worker -> [at : Places, job : Job \cup {NoJob}, fit : BOOLEAN,
                              copy : [status : Active \cup Terminal \cup {"absent"},
                                      cancel_requested : BOOLEAN]]]
    /\ cancelling \in SUBSET (Job \X Requests)
    /\ faults \in 0 .. MaxFaults
    /\ \A w \in Worker : worker[w].at # "idle" => run[worker[w].job].version > 0

Init ==
    /\ event = [status |-> "confirmed", version |-> 1]
    /\ job = [j \in Job |-> Absent]
    /\ run = [j \in Job |-> NoRun]
    /\ assessed = [j \in Job |-> 0]
    /\ mail = [j \in Job |-> 0]
    /\ worker = [w \in Worker |-> Idle]
    /\ cancelling = {}
    /\ faults = 0

-------------------------------------------------------------------------------
(* Users. *)

\* Faulty: the run is not pinned to a version of the event.
ClassifyUnpinned(j) ==
    /\ event.status = "confirmed"
    /\ \A i \in Job : job[i].status = "absent"
    /\ job' = [job EXCEPT ![j] = NewRow(NoJob, 1)]
    /\ run' = [run EXCEPT ![j] = [NoRun EXCEPT !.status = "queued"]]
    /\ \E copies \in 1 .. MaxCopies : mail' = [mail EXCEPT ![j] = copies]
    /\ UNCHANGED <<event, assessed, worker, cancelling, faults>>

\* POST /events/{id}:classify stores a run and its first attempt in one
\* transaction; the publisher sends the message once, or again when its own
\* commit is lost.  ClassifyRequests has the requests that race, and retries,
\* which store attempts of the same form.
Classify(j) ==
    /\ event.status = "confirmed"
    /\ \A i \in Job : job[i].status = "absent"
    /\ job' = [job EXCEPT ![j] = NewRow(NoJob, 1)]
    /\ run' = [run EXCEPT ![j] = [status |-> "queued", cancel_requested |-> FALSE,
                                  version |-> event.version]]
    /\ \E copies \in 1 .. MaxCopies : mail' = [mail EXCEPT ![j] = copies]
    /\ UNCHANGED <<event, assessed, worker, cancelling, faults>>

\* The two endpoints read their rows without a lock (a request whose flags are
\* set already writes nothing) ...
CancelRead(j, kind) ==
    /\ ~job[j].cancel_requested \/ ~run[j].cancel_requested
    /\ kind # "job" => run[j].status \in Active
    /\ (kind = "run") <=> job[j].status \notin Active
    /\ cancelling' = cancelling \cup {<<j, kind>>}
    /\ UNCHANGED <<event, job, run, assessed, mail, worker, faults>>

\* ... and write the flags later, whatever the rows have become.
CancelWrite(j, kind) ==
    /\ <<j, kind>> \in cancelling
    /\ job' = IF kind = "run" THEN job ELSE [job EXCEPT ![j].cancel_requested = TRUE]
    /\ run' = IF kind = "job" THEN run ELSE [run EXCEPT ![j].cancel_requested = TRUE]
    /\ cancelling' = cancelling \ {<<j, kind>>}
    /\ UNCHANGED <<event, assessed, mail, worker, faults>>

\* PUT /events/{id}: a new version; a confirmed event stays confirmed.
Edit ==
    /\ event.status = "confirmed" /\ event.version <= MaxEdits
    /\ event' = [event EXCEPT !.version = @ + 1]
    /\ UNCHANGED <<job, run, assessed, mail, worker, cancelling, faults>>

\* The event is merged into another or split.
Supersede ==
    /\ event.status = "confirmed"
    /\ event' = [event EXCEPT !.status = "superseded"]
    /\ UNCHANGED <<job, run, assessed, mail, worker, cancelling, faults>>

-------------------------------------------------------------------------------
(* The worker. *)

JobOf(w) == worker[w].job
CopyOf(j) == [status |-> job[j].status, cancel_requested |-> job[j].cancel_requested]
Moves(w, place) == worker' = [worker EXCEPT ![w].at = place]
Acks(w) == worker' = [worker EXCEPT ![w] = Idle]

\* _classify loads job and event; a job that has ended needs nothing.
Open(w, j) ==
    /\ worker[w].at = "idle" /\ mail[j] > 0
    /\ mail' = [mail EXCEPT ![j] = @ - 1]
    /\ worker' = IF job[j].status \in Terminal THEN worker
                 ELSE [worker EXCEPT ![w] =
                    [at |-> "opened", job |-> j, copy |-> CopyOf(j),
                     fit |-> event.status = "confirmed" /\ event.version = run[j].version]]
    /\ UNCHANGED <<event, job, run, assessed, cancelling, faults>>

Claim(w) ==
    /\ worker[w].at = "opened" /\ Claimable(job[JobOf(w)])
    /\ job' = [job EXCEPT ![JobOf(w)] = Claimed(@, w)]
    /\ Moves(w, "claimed")
    /\ UNCHANGED <<event, run, assessed, mail, cancelling, faults>>

\* A lease that is in force makes Celery try again later, thirty times at most;
\* any other refusal ends the task.
ClaimRefused(w) ==
    /\ worker[w].at = "opened" /\ ~Claimable(job[JobOf(w)])
    /\ \/ UNCHANGED mail
       \/ /\ job[JobOf(w)].status \in Active /\ ~job[JobOf(w)].cancel_requested
          /\ mail' = [mail EXCEPT ![JobOf(w)] = @ + 1]
    /\ Acks(w)
    /\ UNCHANGED <<event, job, run, assessed, cancelling, faults>>

\* session.refresh(job), without a lock.
Begin(w) ==
    /\ worker[w].at = "claimed"
    /\ worker' = [worker EXCEPT ![w].at = "begun", ![w].copy = CopyOf(JobOf(w))]
    /\ UNCHANGED <<event, job, run, assessed, mail, cancelling, faults>>

\* update_job on the session's copy, and its flush: the new status is stored
\* whatever the row has become.
Writes(w, status) ==
    /\ status \in Transitions(worker[w].copy.status)
    /\ job' = [job EXCEPT ![JobOf(w)] =
          Updated(@, Flushed(@.status, worker[w].copy.status, status))]

\* The first transaction of _execute_event_classification.
Enter(w) ==
    /\ worker[w].at = "begun"
    /\ \/ /\ worker[w].copy.status \in Terminal
          /\ Moves(w, "leaving")
          /\ UNCHANGED job
       \/ /\ worker[w].copy.status \notin Terminal /\ worker[w].copy.cancel_requested
          /\ Writes(w, "cancelled")
          /\ Moves(w, "leaving")
       \/ /\ worker[w].copy.status \notin Terminal /\ ~worker[w].copy.cancel_requested
          /\ worker[w].fit
          /\ job' = [job EXCEPT ![JobOf(w)].silence = 0]
          /\ Moves(w, "entered")
    /\ UNCHANGED <<event, run, assessed, mail, cancelling, faults>>

\* A guarded transaction: the first marks the run as running, each node of the
\* graph ends with another.  The guard reads the row afresh.
Node(w) ==
    /\ worker[w].at \in {"entered", "graph"}
    /\ HoldsLease(job[JobOf(w)], w)
    /\ run' = IF worker[w].at = "entered" THEN [run EXCEPT ![JobOf(w)].status = "running"]
              ELSE run
    /\ worker' = [worker EXCEPT ![w].at = "graph", ![w].copy = CopyOf(JobOf(w))]
    /\ UNCHANGED <<event, job, assessed, mail, cancelling, faults>>

\* The exception handler around the graph: a run that was asked to stop is
\* cancelled together with the session's copy of the job; anything else,
\* a refused update included, goes to the wrapper.
Handles(w, copy) ==
    IF run[JobOf(w)].cancel_requested /\ "cancelled" \in Transitions(copy.status)
    THEN /\ job' = [job EXCEPT ![JobOf(w)] =
                Updated(@, Flushed(@.status, copy.status, "cancelled"))]
         /\ run' = [run EXCEPT ![JobOf(w)].status = "cancelled"]
         /\ Moves(w, "leaving")
    ELSE Moves(w, "unwinding") /\ UNCHANGED <<job, run>>

\* A guard of the graph refuses: it has locked the row and read it afresh.
NodeRefused(w) ==
    /\ worker[w].at \in {"entered", "graph"}
    /\ ~HoldsLease(job[JobOf(w)], w)
    /\ Handles(w, CopyOf(JobOf(w)))
    /\ UNCHANGED <<event, assessed, mail, cancelling, faults>>

\* Any other exception in the graph: a provider that fails, ten minutes that
\* are over, _ensure_active that sees the flag of the run.  The copy is as old
\* as the last guard.
Stumble(w) ==
    /\ worker[w].at \in {"entered", "graph"}
    /\ Handles(w, worker[w].copy)
    /\ UNCHANGED <<event, assessed, mail, cancelling, faults>>

\* The graph has ended with a proposal, not yet committed; session.refresh(job).
Finish(w) ==
    /\ worker[w].at = "graph" /\ ~run[JobOf(w)].cancel_requested
    /\ worker' = [worker EXCEPT ![w].at = "closing", ![w].copy = CopyOf(JobOf(w))]
    /\ UNCHANGED <<event, job, run, assessed, mail, cancelling, faults>>

\* The flag was seen: the job is cancelled, and the same commit stores the
\* proposal and the run that succeeded.
CloseCancelled(w) ==
    /\ worker[w].at = "closing" /\ worker[w].copy.cancel_requested
    /\ Writes(w, "cancelled")
    /\ run' = [run EXCEPT ![JobOf(w)].status = "succeeded"]
    /\ Moves(w, "leaving")
    /\ UNCHANGED <<event, assessed, mail, cancelling, faults>>

Current(j) == event.status = "confirmed" /\ event.version = run[j].version

\* Guard, lock of the event, checks, assessment, workflow, job and run in one
\* transaction.
Accept(w) ==
    /\ worker[w].at = "closing" /\ ~worker[w].copy.cancel_requested
    /\ HoldsLease(job[JobOf(w)], w)
    /\ Current(JobOf(w))
    /\ assessed' = [assessed EXCEPT ![JobOf(w)] = @ + 1]
    /\ job' = [job EXCEPT ![JobOf(w)] = Updated(@, "succeeded")]
    /\ run' = [run EXCEPT ![JobOf(w)].status = "succeeded"]
    /\ Moves(w, "leaving")
    /\ UNCHANGED <<event, mail, cancelling, faults>>

\* Everything that raises outside the handler of the graph: an unfit version,
\* a revoked permission, a refused guard or a changed event at the end, and the
\* heartbeat, whose refusal cancels the body wherever it is.
Fail(w) ==
    /\ worker[w].at \in Leased
    /\ Moves(w, "unwinding")
    /\ UNCHANGED <<event, job, run, assessed, mail, cancelling, faults>>

Heartbeat(w) ==
    /\ worker[w].at \in Leased
    /\ HoldsLease(job[JobOf(w)], w)
    /\ job' = [job EXCEPT ![JobOf(w)] = Renewed(@)]
    /\ UNCHANGED <<event, run, assessed, mail, worker, cancelling, faults>>

Release(w) ==
    /\ worker[w].at \in {"leaving", "unwinding"}
    /\ job' = [job EXCEPT ![JobOf(w)] = Released(@, w)]
    /\ IF worker[w].at = "leaving" THEN Acks(w) ELSE Moves(w, "settling")
    /\ UNCHANGED <<event, run, assessed, mail, cancelling, faults>>

\* Faulty: the wrapper ends the job without asking for the token.
SettleUnfenced(w) ==
    /\ worker[w].at = "settling"
    /\ job' = [job EXCEPT ![JobOf(w)] = Updated(@, "failed")]
    /\ run' = [run EXCEPT ![JobOf(w)].status = "failed"]
    /\ Acks(w)
    /\ UNCHANGED <<event, assessed, mail, cancelling, faults>>

\* Faulty: a job that is not the holder's is left alone, its run is not.
SettleRunAnyway(w) ==
    /\ worker[w].at = "settling"
    /\ LET j   == JobOf(w)
           end == IF job[j].cancel_requested THEN "cancelled" ELSE "failed"
       IN  /\ job' = IF job[j].execution_token = w /\ job[j].status = "running"
                     THEN [job EXCEPT ![j] = Updated(@, end)] ELSE job
           /\ run' = [run EXCEPT ![j].status = end]
    /\ Acks(w)
    /\ UNCHANGED <<event, assessed, mail, cancelling, faults>>

\* The wrapper's handler, in a session of its own: only the holder of the token
\* of a job that still runs ends it, and the run with it.
Settle(w) ==
    /\ worker[w].at = "settling"
    /\ LET j   == JobOf(w)
           end == IF job[j].cancel_requested THEN "cancelled" ELSE "failed"
       IN  IF job[j].execution_token = w /\ job[j].status = "running"
           THEN /\ job' = [job EXCEPT ![j] = Updated(@, end)]
                /\ run' = [run EXCEPT ![j].status = end]
           ELSE UNCHANGED <<job, run>>
    /\ Acks(w)
    /\ UNCHANGED <<event, assessed, mail, cancelling, faults>>

\* The process is lost; its message returns to the queue.
Crash(w) ==
    /\ worker[w].at # "idle" /\ faults < MaxFaults
    /\ faults' = faults + 1
    /\ mail' = [mail EXCEPT ![JobOf(w)] = @ + 1]
    /\ Acks(w)
    /\ UNCHANGED <<event, job, run, assessed, cancelling>>

\* fail_stale_jobs: the run is not touched.
Sweep(j) ==
    /\ Stale(job[j])
    /\ job' = [job EXCEPT ![j] = Updated(@, "failed")]
    /\ UNCHANGED <<event, run, assessed, mail, worker, cancelling, faults>>

Tick ==
    /\ job' = [j \in Job |-> Aged(job[j])]
    /\ UNCHANGED <<event, run, assessed, mail, worker, cancelling, faults>>

Body(w) ==
    \/ Begin(w) \/ Enter(w) \/ Node(w) \/ NodeRefused(w) \/ Stumble(w)
    \/ Finish(w) \/ CloseCancelled(w) \/ Accept(w) \/ Fail(w)

Next ==
    \/ \E j \in Job : Classify(j) \/ Sweep(j)
    \/ \E j \in Job, kind \in Requests : CancelRead(j, kind) \/ CancelWrite(j, kind)
    \/ Edit \/ Supersede
    \/ \E w \in Worker, j \in Job : Open(w, j)
    \/ \E w \in Worker : Claim(w) \/ ClaimRefused(w) \/ Body(w) \/ Heartbeat(w)
    \/ \E w \in Worker : Release(w) \/ Settle(w) \/ Crash(w)
    \/ Tick

Spec == Init /\ [][Next]_vars

-------------------------------------------------------------------------------
(* Safety. *)

\* An attempt is assessed at most once, whatever is redelivered or expires;
\* the run of an assessed attempt had succeeded, and only a cancellation asked
\* for afterwards can have changed that.
AssessedOnce ==
    \A j \in Job : assessed[j] > 0 =>
        /\ assessed[j] = 1
        /\ job[j].status \in {"succeeded", "cancelled"}
        /\ run[j].status \in {"succeeded", "cancelled"}
        /\ job[j].status = "cancelled" => run[j].cancel_requested

\* Job, run and assessment tell one story, although five ways out write them, two
\* from a copy read without a lock, and the sweeper the job alone: a success is told
\* only of what was assessed, except that a run may have ended beside a job that was
\* cancelled on request; a failed job has no run that succeeded; and a run is failed
\* or cancelled only with its job.
OutcomesAgree ==
    \A j \in Job :
        /\ job[j].status = "succeeded" => assessed[j] = 1 /\ run[j].status = "succeeded"
        /\ job[j].status = "failed" => run[j].status # "succeeded"
        /\ run[j].status = "succeeded" =>
              assessed[j] = 1 \/ (job[j].status = "cancelled" /\ job[j].cancel_requested)
        /\ run[j].status = "cancelled" => job[j].status = "cancelled"
        /\ run[j].status = "failed" => job[j].status \in {"failed", "cancelled"}

\* A worker that no longer carries the token can end a job only if the run or
\* the job was asked to stop; it never fails or revives it.
FencedUnlessCancelled ==
    [][\A w \in Worker, j \in Job :
          /\ worker[w].at \notin {"idle", "opened"} /\ worker'[w] # worker[w]
          /\ JobOf(w) = j /\ job[j].execution_token # w
          /\ job'[j].status # job[j].status
          => /\ job'[j].status = "cancelled"
             /\ run[j].cancel_requested \/ job[j].cancel_requested]_vars

\* update_job: a job that has ended never changes its status again.
TerminalIsFinal ==
    [][\A j \in Job : job[j].status \in Terminal => job'[j].status = job[j].status]_vars

\* Jobs, runs and assessments fit together, whatever is redelivered or expires.
ClassificationInv == TypeOK /\ AssessedOnce
===============================================================================
