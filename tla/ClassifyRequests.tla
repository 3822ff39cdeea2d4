--------------------------- MODULE ClassifyRequests ---------------------------
(***************************************************************************)
(* The two requests that start an investigation of one event, statement by *)
(* statement: POST /events/{id}:classify and POST /jobs/{id}:retry of a    *)
(* classification.  They take the row lock of the event and the entry of   *)
(* the unique index on active jobs in opposite orders, and both insert a   *)
(* message under an operation key that is unique for ever.                 *)
(***************************************************************************)
EXTENDS JobStatus, Naturals

CONSTANTS
    Job,         \* the rows of async_jobs a behaviour may insert
    Request,     \* the requests a behaviour may serve, one transaction each
    NoJob,       \* parent_job_id IS NULL
    NoRequest,   \* the row is committed
    MaxEventVersion   \* bound: versions of the event

ASSUME NullsAreNotNames == NoJob \notin Job /\ NoRequest \notin Request
ASSUME AtLeastOneVersion == MaxEventVersion \in Nat /\ MaxEventVersion > 0

VARIABLES
    inline, \* settings.run_tasks_inline, fixed: first attempts send no message
    eventRow,  \* the row of production_events
    job,    \* async_jobs of the event; writer is the transaction not yet committed
    run,    \* agent_runs, each named by the request that inserts it
    keys,   \* operation keys in task_outbox, each named by the job it retries
    req     \* what each request is about to do

requestsVars == <<inline, eventRow, job, run, keys, req>>

NoRow == [status |-> "absent", parent |-> NoJob, run |-> NoRequest, writer |-> NoRequest]
NoRun == [job |-> NoJob, version |-> 0]
Arriving == [at |-> "arriving", kind |-> "none", of |-> NoJob, row |-> NoJob]

Answers == {"accepted", "reused", "refused", "clashed", "aborted"}
InProgress == {"checked", "inserted"}

RequestsTypeOK ==
    /\ inline \in BOOLEAN
    /\ eventRow \in [status : {"confirmed", "superseded"}, version : 1 .. MaxEventVersion]
    /\ job \in [Job -> [status : Active \cup Terminal \cup {"absent"},
                        parent : Job \cup {NoJob}, run : Request \cup {NoRequest},
                        writer : Request \cup {NoRequest}]]
    /\ run \in [Request -> [job : Job \cup {NoJob}, version : 0 .. MaxEventVersion]]
    /\ keys \subseteq Job \cup {NoJob}
    /\ req \in [Request -> [at : {"arriving"} \cup InProgress \cup Answers,
                            kind : {"none", "classify", "retry"},
                            of : Job \cup {NoJob}, row : Job \cup {NoJob}]]
    \* a retry holds the row it retries, and that row has ended
    /\ \A q \in Request : req[q].at \in InProgress /\ req[q].kind = "retry" =>
          job[req[q].of].status \in {"failed", "cancelled"}

RequestsInit ==
    /\ inline \in BOOLEAN
    /\ eventRow = [status |-> "confirmed", version |-> 1]
    /\ job = [j \in Job |-> NoRow]
    /\ run = [q \in Request |-> NoRun]
    /\ keys = {}
    /\ req = [q \in Request |-> Arriving]

-------------------------------------------------------------------------------
(* Locks and the unique index. *)

Committed(j) == job[j].status # "absent" /\ job[j].writer = NoRequest

\* Faulty: the predicate of the index forgets running jobs.
IndexedQueued(status) == status = "queued"

\* The index covers queued and running rows of one job type and resource.
Indexed(status) == status \in Active

ActiveJobs == {j \in Job : Committed(j) /\ job[j].status \in Active}
Entries == {j \in Job : Committed(j) /\ Indexed(job[j].status)}

\* A classify request holds the row of the event until it is answered.
HoldsEvent(q) == req[q].kind = "classify" /\ req[q].at \in InProgress
EventIsFree == \A q \in Request : ~HoldsEvent(q)

\* An INSERT waits for the transaction that has inserted the same key, and
\* FOR UPDATE for the one that holds the row.
WaitsFor(q, p) ==
    \/ req[q].at = "checked" /\ \E j \in Job : job[j].writer = p
    \/ req[q].at = "inserted" /\ req[q].kind = "retry" /\ HoldsEvent(p)

Goes(q, place) == req' = [req EXCEPT ![q].at = place]

\* The transaction ends without a trace, whatever it has inserted.
RollsBack(q, answer) ==
    /\ job' = [j \in Job |-> IF job[j].writer = q THEN NoRow ELSE job[j]]
    /\ Goes(q, answer)
    /\ UNCHANGED <<inline, eventRow, run, keys>>

-------------------------------------------------------------------------------
(* Requests. *)

Arrives(q, kind, of) ==
    req' = [req EXCEPT ![q] = [@ EXCEPT !.at = "checked", !.kind = kind, !.of = of]]

\* classify_event locks and reads the event, then looks for an active job.
Classify(q) ==
    /\ req[q].at = "arriving" /\ EventIsFree
    /\ IF eventRow.status # "confirmed" THEN Goes(q, "refused")
       ELSE IF ActiveJobs # {} THEN Goes(q, "reused")
       ELSE Arrives(q, "classify", NoJob)
    /\ UNCHANGED <<inline, eventRow, job, run, keys>>

\* Faulty: an attempt can be retried before it has ended.
RetryUnended(q, j) ==
    /\ req[q].at = "arriving" /\ Committed(j)
    /\ \A p \in Request : req[p].at \in InProgress => req[p].of # j
    /\ \A i \in Job : Committed(i) => job[i].parent # j
    /\ Arrives(q, "retry", j)
    /\ UNCHANGED <<inline, eventRow, job, run, keys>>

\* retry_job locks the attempt, which must be ended and the latest.
Retry(q, j) ==
    /\ req[q].at = "arriving" /\ Committed(j)
    /\ \A p \in Request : req[p].at \in InProgress => req[p].of # j
    /\ IF /\ job[j].status \in {"failed", "cancelled"}
          /\ \A i \in Job : Committed(i) => job[i].parent # j
       THEN Arrives(q, "retry", j)
       ELSE Goes(q, "refused")
    /\ UNCHANGED <<inline, eventRow, job, run, keys>>

\* create_job: the flush inside the savepoint, when no other transaction has an
\* entry in the index.
Insert(q, j) ==
    /\ req[q].at = "checked"
    /\ \A i \in Job : job[i].writer = NoRequest
    /\ Entries = {}
    /\ job[j].status = "absent"
    /\ job' = [job EXCEPT ![j] = [status |-> "queued", parent |-> req[q].of,
                                  run |-> q, writer |-> q]]
    /\ req' = [req EXCEPT ![q] = [@ EXCEPT !.at = "inserted", !.row = j]]
    /\ UNCHANGED <<inline, eventRow, run, keys>>

\* create_job finds an active job after all.  A retry is refused; classify_event
\* would be handed that job, store it in the run it has prepared, and commit.
InsertLoses(q) ==
    /\ req[q].at = "checked" /\ ActiveJobs # {}
    /\ IF req[q].kind = "retry" THEN RollsBack(q, "refused")
       ELSE /\ \E j \in ActiveJobs :
                  run' = [run EXCEPT ![q] = [job |-> j, version |-> eventRow.version]]
            /\ Goes(q, "reused")
            /\ UNCHANGED <<inline, eventRow, job, keys>>

\* "...:{attempt}" for a first attempt, "retry:{original}:..." for a retry.
KeyOf(q) == IF req[q].kind = "classify" /\ inline THEN {} ELSE {req[q].of}

\* The commit also inserts run and message; a message whose operation key exists
\* makes it fail.
Commits(q) ==
    IF KeyOf(q) \cap keys # {} THEN RollsBack(q, "clashed")
    ELSE /\ keys' = keys \cup KeyOf(q)
         /\ job' = [job EXCEPT ![req[q].row].writer = NoRequest]
         /\ run' = [run EXCEPT ![q] = [job |-> req[q].row, version |-> eventRow.version]]
         /\ Goes(q, "accepted")
         /\ UNCHANGED <<inline, eventRow>>

\* Faulty: the failed commit is not noticed and its transaction stays open.
CommitClassifyOpen(q) ==
    /\ req[q].at = "inserted" /\ req[q].kind = "classify"
    /\ KeyOf(q) \cap keys = {} /\ Commits(q)

CommitClassify(q) ==
    /\ req[q].at = "inserted" /\ req[q].kind = "classify"
    /\ Commits(q)

\* Faulty: the retry reads the event without its lock.
BindUnlocked(q) ==
    /\ req[q].at = "inserted" /\ req[q].kind = "retry"
    /\ IF /\ eventRow.status = "confirmed"
          /\ eventRow.version = run[job[req[q].of].run].version
       THEN Commits(q)
       ELSE RollsBack(q, "refused")

\* bind_classification_retry locks the event, after the insert; the attempt's
\* run must have investigated its current version.
Bind(q) ==
    /\ req[q].at = "inserted" /\ req[q].kind = "retry"
    /\ EventIsFree
    /\ IF /\ eventRow.status = "confirmed"
          /\ eventRow.version = run[job[req[q].of].run].version
       THEN Commits(q)
       ELSE RollsBack(q, "refused")

\* PostgreSQL aborts one of two transactions that wait for each other.
Deadlocked(q) ==
    /\ \E p \in Request \ {q} : WaitsFor(q, p) /\ WaitsFor(p, q)
    /\ RollsBack(q, "aborted")

-------------------------------------------------------------------------------
(* Everybody else. *)

\* A worker takes up and ends an attempt; a sweeper may end it.
Work(j, status) ==
    /\ Committed(j) /\ job[j].status \in Active
    /\ status # job[j].status /\ status \in Transitions(job[j].status)
    /\ job' = [job EXCEPT ![j].status = status]
    /\ UNCHANGED <<inline, eventRow, run, keys, req>>

\* PUT /events/{id}; its UPDATE waits for the lock.
EditEvent ==
    /\ eventRow.version < MaxEventVersion /\ eventRow.status = "confirmed" /\ EventIsFree
    /\ eventRow' = [eventRow EXCEPT !.version = @ + 1]
    /\ UNCHANGED <<inline, job, run, keys, req>>

\* Merge and split do, too.
SupersedeEvent ==
    /\ eventRow.status = "confirmed" /\ EventIsFree
    /\ eventRow' = [eventRow EXCEPT !.status = "superseded"]
    /\ UNCHANGED <<inline, job, run, keys, req>>

Serve(q) ==
    \/ \E j \in Job : Insert(q, j)
    \/ InsertLoses(q) \/ CommitClassify(q) \/ Bind(q) \/ Deadlocked(q)

RequestsNext ==
    \/ \E q \in Request : Classify(q) \/ Serve(q)
    \/ \E q \in Request, j \in Job : Retry(q, j)
    \/ \E j \in Job, status \in Active \cup Terminal : Work(j, status)
    \/ EditEvent \/ SupersedeEvent

RequestsSpec == RequestsInit /\ [][RequestsNext]_requestsVars

\* A request that has begun is served to its end, and the database's search for
\* deadlocks ends every mutual wait.
RequestsFairSpec == RequestsSpec /\ \A q \in Request : WF_requestsVars(Serve(q))

-------------------------------------------------------------------------------
(* Properties. *)

\* No run is orphaned: the job of a run that is stored executes that very run,
\* and every stored job has one.
RunsAreExecuted ==
    /\ \A q \in Request : run[q].job # NoJob => job[run[q].job].run = q
    /\ \A j \in Job : Committed(j) => run[job[j].run].job = j

\* At most one attempt is active, and each attempt is retried at most once, by
\* an attempt for the same version of the event.
OneAttemptAtATime ==
    /\ \A i, j \in ActiveJobs : i = j
    /\ \A i, j \in Job : Committed(i) /\ Committed(j) /\ i # j /\ job[i].parent # NoJob
          => job[i].parent # job[j].parent
    /\ \A j \in Job : Committed(j) /\ job[j].parent # NoJob =>
          run[job[j].run].version = run[job[job[j].parent].run].version

\* Every request that has begun is answered, although classify and retry can
\* wait for each other.
EveryRequestIsAnswered ==
    \A q \in Request : req[q].at \in InProgress ~> req[q].at \in Answers

\* "event changed; start a new classification": a request for a first attempt is
\* refused by the unique operation key only if the present version of the event
\* has been investigated already.
NewVersionCanBeClassified ==
    [][\A q \in Request : req'[q].at = "clashed" /\ req[q].at # "clashed" =>
          \E p \in Request : run[p].version = eventRow.version]_requestsVars

\* Runs, jobs and attempts of an event fit together, whichever requests overlap.
RequestsInv == RequestsTypeOK /\ RunsAreExecuted /\ OneAttemptAtATime
===============================================================================
