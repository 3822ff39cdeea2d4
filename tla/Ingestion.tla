------------------------------- MODULE Ingestion -------------------------------
(***************************************************************************)
(* One version of a knowledge document on its way to publication: the      *)
(* parser's artifact and the corrections people make to it, the chunks and *)
(* facts cut from it, the three external indexes that hold entries for     *)
(* them, the leased attempts of execute_ingestion, and the requests that   *)
(* process, retry, cancel, correct, review, publish and withdraw.          *)
(*                                                                         *)
(* The database and the indexes share no transaction: an attempt writes to *)
(* an index first and stores "ready" under its lease afterwards.           *)
(***************************************************************************)
EXTENDS JobStatus, Naturals

CONSTANTS
    Job,          \* the rows of async_jobs a behaviour may insert
    Worker,       \* processes that execute attempts
    NoJob,        \* parent_job_id IS NULL
    NoWorker,     \* execution_token IS NULL
    MaxRevision,  \* bound: the parsed artifact and its corrections
    MaxFaults     \* bound: crashes and leases that run out

ASSUME IngestionNulls == NoJob \notin Job /\ NoWorker \notin Worker
ASSUME IngestionBounds == MaxRevision \in Nat \ {0} /\ MaxFaults \in Nat

VARIABLES
    inline,   \* settings.run_tasks_inline, fixed: first attempts send no message
    version,  \* the row of knowledge_versions
    chunks,   \* the revision knowledge_chunks were cut from, 0 for no rows
    facts,    \* the revision knowledge_facts were extracted from, 0 for no rows
    index,    \* the revisions each external index holds entries of
    job,      \* async_jobs of the version
    keys,     \* operation keys in task_outbox, each named by the job it retries
    worker,   \* what each process is doing, with the copy its session holds
    editing,  \* a correction holds the row lock of the version
    late,     \* an attempt has reached an index after it had lost its lease
    raced,    \* a correction was stored while an attempt was active
    faults    \* faults spent so far

rows == <<version, chunks, facts>>
history == <<late, raced, faults>>
vars == <<inline, rows, index, job, keys, worker, editing, history>>

\* The external indexes in the order the pipeline fills them.
Order == <<"fulltext", "vector", "graph">>
Indexes == {"fulltext", "vector", "graph"}

\* Keys that may be present in index_state.
Marks == Indexes \cup {"cleanup_required", "facts_extracted"}

Startable == {"uploaded", "failed", "processing"}
Reviewed == {"review", "approved", "published"}

VersionRow == [status   : Startable \cup Reviewed \cup {"rejected", "withdrawn"},
               revision : 0 .. MaxRevision,
               state    : SUBSET Marks]

Uploaded == [status |-> "uploaded", revision |-> 0, state |-> {}]
NoRow == [status |-> "absent", cancel_requested |-> FALSE, execution_token |-> NoWorker,
          leased |-> FALSE, parent |-> NoJob]
Idle == [at |-> "idle", job |-> NoJob, copy |-> Uploaded, cut |-> 0, known |-> 0, stage |-> 1]

\* The places of execute_ingestion between its transactions and its calls.
Running == {"loading", "beginning", "cleaning", "cleaned", "parsing", "cutting",
            "segmenting", "extracting", "looking", "upserting", "marking", "ending"}

IngestionTypeOK ==
    /\ inline \in BOOLEAN
    /\ version \in VersionRow
    /\ chunks \in 0 .. MaxRevision
    /\ facts \in 0 .. MaxRevision
    /\ index \in [Indexes -> SUBSET (1 .. MaxRevision)]
    /\ job \in [Job -> [status : Active \cup Terminal \cup {"absent"},
                        cancel_requested : BOOLEAN,
                        execution_token : Worker \cup {NoWorker},
                        leased : BOOLEAN, parent : Job \cup {NoJob}]]
    /\ keys \subseteq Job \cup {NoJob}
    /\ worker \in [Worker -> [at : Running \cup {"idle", "leaving", "unwinding", "settling"},
                              job : Job \cup {NoJob}, copy : VersionRow,
                              cut : 0 .. MaxRevision, known : 0 .. MaxRevision,
                              stage : 1 .. 3]]
    /\ editing \in BOOLEAN /\ late \in BOOLEAN /\ raced \in BOOLEAN
    /\ faults \in 0 .. MaxFaults

\* complete_upload has verified the file.
Init ==
    /\ inline \in BOOLEAN
    /\ version = Uploaded
    /\ chunks = 0 /\ facts = 0
    /\ index = [n \in Indexes |-> {}]
    /\ job = [j \in Job |-> NoRow]
    /\ keys = {}
    /\ worker = [w \in Worker |-> Idle]
    /\ editing = FALSE /\ late = FALSE /\ raced = FALSE
    /\ faults = 0

-------------------------------------------------------------------------------
(* Requests. *)

ActiveJobs == {j \in Job : job[j].status \in Active}
Children(j) == {c \in Job : job[c].parent = j}

\* Faulty: an attempt that was cancelled has no retry.
RetryableFailed(j) == job[j].status = "failed" /\ Children(j) = {}

Retryable(j) == job[j].status \in {"failed", "cancelled"} /\ Children(j) = {}

Insert(j, parent) ==
    /\ job[j].status = "absent"
    /\ job' = [job EXCEPT ![j] = [NoRow EXCEPT !.status = "queued", !.parent = parent]]

\* The operation key of a first attempt names version and attempt number only,
\* so it is the same for each of them, and taken for ever.
FirstKeyIsFree == inline \/ NoJob \notin keys

\* POST /versions/{id}:process, under the row lock of the version.  An active
\* attempt is answered as it is; a key that exists makes the commit fail.
Process(j) ==
    /\ ~editing
    /\ version.status \in Startable
    /\ ActiveJobs = {} /\ FirstKeyIsFree
    /\ Insert(j, NoJob)
    /\ keys' = IF inline THEN keys ELSE keys \cup {NoJob}
    /\ UNCHANGED <<inline, rows, index, worker, editing, history>>

\* POST /jobs/{id}:retry; bind_retry reads the version without a lock, and
\* whatever its status.
Retry(j, c) ==
    /\ Retryable(j) /\ ActiveJobs = {}
    /\ Insert(c, j)
    /\ keys' = keys \cup {j}
    /\ UNCHANGED <<inline, rows, index, worker, editing, history>>

\* POST /jobs/{id}:cancel.
Cancel(j) ==
    /\ job[j].status \in Active /\ ~job[j].cancel_requested
    /\ job' = [job EXCEPT ![j].cancel_requested = TRUE]
    /\ UNCHANGED <<inline, rows, index, keys, worker, editing, history>>

\* Faulty: approved versions can be corrected, too.
CorrectApproved ==
    /\ ~editing
    /\ version.status \in {"failed", "review", "approved", "rejected"}
    /\ ActiveJobs = {}
    /\ version.revision \in 1 .. MaxRevision - 1
    /\ editing' = TRUE
    /\ UNCHANGED <<inline, rows, index, job, keys, worker, history>>

\* correct_artifact locks the version and looks for active attempts ...
Correct ==
    /\ ~editing
    /\ version.status \in {"failed", "review", "rejected"}
    /\ ActiveJobs = {}
    /\ version.revision \in 1 .. MaxRevision - 1
    /\ editing' = TRUE
    /\ UNCHANGED <<inline, rows, index, job, keys, worker, history>>

\* Faulty: what was derived from the old text stays.
CorrectKeeping ==
    /\ editing
    /\ version' = [status |-> "uploaded", revision |-> version.revision + 1, state |-> {}]
    /\ editing' = FALSE
    /\ raced' = (raced \/ ActiveJobs # {})
    /\ UNCHANGED <<inline, chunks, facts, index, job, keys, worker, late, faults>>

\* ... and stores the corrected blocks; what was derived from the old ones goes.
Corrected ==
    /\ editing
    /\ version' = [status |-> "uploaded", revision |-> version.revision + 1,
                   state |-> {"cleanup_required"}]
    /\ chunks' = 0 /\ facts' = 0
    /\ editing' = FALSE
    /\ raced' = (raced \/ ActiveJobs # {})
    /\ UNCHANGED <<inline, index, job, keys, worker, late, faults>>

Decide(from, to) ==
    /\ ~editing
    /\ version.status = from
    /\ version' = [version EXCEPT !.status = to]
    /\ UNCHANGED <<inline, chunks, facts, index, job, keys, worker, editing, history>>

Review == Decide("review", "approved") \/ Decide("review", "rejected")

\* Faulty: publication demands the marks, but no approval.
PublishUnapproved == Indexes \subseteq version.state /\ Decide("review", "published")

\* publish_version demands the three marks besides the approval.
Publish == Indexes \subseteq version.state /\ Decide("approved", "published")

Withdraw == Decide("published", "withdrawn")

-------------------------------------------------------------------------------
(* Leases. *)

\* guard_execution: token, status, lease and cancel flag.
Holds(w) ==
    LET row == job[worker[w].job]
    IN  /\ row.execution_token = w /\ row.status = "running"
        /\ row.leased /\ ~row.cancel_requested

\* A queued attempt is delivered by its message or executed in the request; a
\* running one whose lease has run out is delivered again.
Claim(w, j) ==
    /\ worker[w].at = "idle"
    /\ job[j].status \in Active /\ ~job[j].cancel_requested /\ ~job[j].leased
    /\ job' = [job EXCEPT ![j].status = "running", ![j].execution_token = w,
                          ![j].leased = TRUE]
    /\ worker' = [worker EXCEPT ![w] = [Idle EXCEPT !.at = "loading", !.job = j]]
    /\ UNCHANGED <<inline, rows, index, keys, editing, history>>

\* The heartbeats of a process stay away for the length of its lease.
Expire(j) ==
    /\ job[j].leased /\ faults < MaxFaults
    /\ job' = [job EXCEPT ![j].leased = FALSE]
    /\ faults' = faults + 1
    /\ UNCHANGED <<inline, rows, index, keys, worker, editing, late, raced>>

\* fail_stale_jobs; the version is not touched.
Sweep(j) ==
    /\ job[j].status = "running" /\ ~job[j].leased
    /\ job' = [job EXCEPT ![j].status = "failed"]
    /\ UNCHANGED <<inline, rows, index, keys, worker, editing, history>>

Crash(w) ==
    /\ worker[w].at # "idle" /\ faults < MaxFaults
    /\ worker' = [worker EXCEPT ![w] = Idle]
    /\ faults' = faults + 1
    /\ UNCHANGED <<inline, rows, index, job, keys, editing, late, raced>>

-------------------------------------------------------------------------------
(* The pipeline. *)

Turn(w, changes) == worker' = [worker EXCEPT ![w] = changes]
Moves(w, place) == Turn(w, [worker[w] EXCEPT !.at = place])
Leaves(w, place) == Turn(w, [Idle EXCEPT !.at = place, !.job = worker[w].job])

\* version_access reads the row; a status that has moved on raises.
Load(w) ==
    /\ worker[w].at = "loading" /\ version.status \in Startable
    /\ Turn(w, [worker[w] EXCEPT !.at = "beginning", !.copy = version])
    /\ UNCHANGED <<inline, rows, index, job, keys, editing, history>>

\* A guarded transaction that rewrites the row of the version: the UPDATE waits
\* for a correction, and writes what differs from the session's copy.
Stores(w, copy) ==
    LET seen == worker[w].copy
    IN  version' = [status   |-> Flushed(version.status, seen.status, copy.status),
                    revision |-> Flushed(version.revision, seen.revision, copy.revision),
                    state    |-> Flushed(version.state, seen.state, copy.state)]

\* Faulty: entries of the old text are left in the indexes.
AfterBeginUncleaned(copy) == IF copy.revision = 0 THEN "parsing" ELSE "cutting"

\* The first stage that has not been done.
AfterBegin(copy) ==
    IF "cleanup_required" \in copy.state THEN "cleaning"
    ELSE IF copy.revision = 0 THEN "parsing" ELSE "cutting"

Begin(w) ==
    /\ worker[w].at = "beginning" /\ Holds(w)
    /\ LET copy == [worker[w].copy EXCEPT !.status = "processing"]
       IN  /\ copy # worker[w].copy => ~editing
           /\ Stores(w, copy)
           /\ Turn(w, [worker[w] EXCEPT !.at = AfterBegin(copy), !.copy = copy])
    /\ UNCHANGED <<inline, chunks, facts, index, job, keys, editing, history>>

\* The entries of the version are deleted from the indexes ...
Clean(w) ==
    /\ worker[w].at = "cleaning"
    /\ index' = [n \in Indexes |-> {}]
    /\ late' = (late \/ ~Holds(w))
    /\ Moves(w, "cleaned")
    /\ UNCHANGED <<inline, rows, job, keys, editing, raced, faults>>

\* ... and the request to do so is cleared.
Cleaned(w) ==
    /\ worker[w].at = "cleaned" /\ Holds(w) /\ ~editing
    /\ LET copy == [worker[w].copy EXCEPT !.state = {}]
       IN  /\ Stores(w, copy)
           /\ Turn(w, [worker[w] EXCEPT !.at = AfterBegin(copy), !.copy = copy])
    /\ UNCHANGED <<inline, chunks, facts, index, job, keys, editing, history>>

\* The parser's result is stored as the artifact.
Parse(w) ==
    /\ worker[w].at = "parsing" /\ Holds(w) /\ ~editing
    /\ LET copy == [worker[w].copy EXCEPT !.revision = 1]
       IN  /\ Stores(w, copy)
           /\ Turn(w, [worker[w] EXCEPT !.at = "cutting", !.copy = copy])
    /\ UNCHANGED <<inline, chunks, facts, index, job, keys, editing, history>>

\* Chunks of an earlier attempt are taken over.
Reuse(w) ==
    /\ worker[w].at = "cutting"
    /\ Turn(w, [worker[w] EXCEPT !.at = IF chunks = 0 THEN "segmenting" ELSE "extracting",
                                 !.cut = chunks])
    /\ UNCHANGED <<inline, rows, index, job, keys, editing, history>>

\* The blocks of the session's copy are cut and stored; rows of the same
\* identity would make the insert fail.
Segment(w) ==
    /\ worker[w].at = "segmenting" /\ Holds(w) /\ chunks = 0
    /\ chunks' = worker[w].copy.revision
    /\ Turn(w, [worker[w] EXCEPT !.at = "extracting", !.cut = chunks'])
    /\ UNCHANGED <<inline, version, facts, index, job, keys, editing, history>>

\* Facts that are marked as extracted are read, others extracted and stored.
Extract(w) ==
    /\ worker[w].at = "extracting" /\ Holds(w)
    /\ LET copy == [worker[w].copy EXCEPT !.state = @ \cup {"facts_extracted"}]
           done == "facts_extracted" \in worker[w].copy.state
       IN  /\ ~done => ~editing
           /\ facts' = IF done THEN facts ELSE worker[w].cut
           /\ Stores(w, copy)
           /\ Turn(w, [worker[w] EXCEPT !.at = "looking", !.copy = copy, !.known = facts'])
    /\ UNCHANGED <<inline, chunks, index, job, keys, editing, history>>

\* Before each index the row is read afresh; one that is ready is skipped.
Stage(w) == Order[worker[w].stage]

\* Faulty: the loop over the indexes runs past its end.
AdvancePast(w, copy) ==
    [worker[w] EXCEPT !.at = "looking", !.copy = copy, !.stage = @ + 1]

Advance(w, copy) ==
    IF worker[w].stage = 3 THEN [worker[w] EXCEPT !.at = "ending", !.copy = copy]
    ELSE [worker[w] EXCEPT !.at = "looking", !.copy = copy, !.stage = @ + 1]

Look(w) ==
    /\ worker[w].at = "looking"
    /\ IF Stage(w) \in version.state
       THEN Holds(w) /\ Turn(w, Advance(w, version))
       ELSE ~job[worker[w].job].cancel_requested
            /\ Turn(w, [worker[w] EXCEPT !.at = "upserting", !.copy = version])
    /\ UNCHANGED <<inline, rows, index, job, keys, editing, history>>

\* The entries go to the external index, which knows nothing of leases; older
\* entries are overwritten where identities agree and stay where they do not.
Upsert(w) ==
    /\ worker[w].at = "upserting"
    /\ index' = [index EXCEPT ![Stage(w)] =
           @ \cup ({IF Stage(w) = "graph" THEN worker[w].known ELSE worker[w].cut} \ {0})]
    /\ late' = (late \/ ~Holds(w))
    /\ Moves(w, "marking")
    /\ UNCHANGED <<inline, rows, job, keys, editing, raced, faults>>

Mark(w) ==
    /\ worker[w].at = "marking" /\ Holds(w) /\ ~editing
    /\ LET copy == [worker[w].copy EXCEPT !.state = @ \cup {Stage(w)}]
       IN  Stores(w, copy) /\ Turn(w, Advance(w, copy))
    /\ UNCHANGED <<inline, chunks, facts, index, job, keys, editing, history>>

\* The version is handed to its reviewers and the attempt succeeds.
End(w) ==
    /\ worker[w].at = "ending" /\ Holds(w) /\ ~editing
    /\ version.status = "processing"
    /\ version' = [version EXCEPT !.status = "review"]
    /\ job' = [job EXCEPT ![worker[w].job].status = "succeeded"]
    /\ Leaves(w, "leaving")
    /\ UNCHANGED <<inline, chunks, facts, index, keys, editing, history>>

\* Any exception: a refused guard, a status that moved on, a provider, parser or
\* index that fails, a cancel request that was seen.
Fail(w) ==
    /\ worker[w].at \in Running
    /\ Leaves(w, "unwinding")
    /\ UNCHANGED <<inline, rows, index, job, keys, editing, history>>

\* Leaving execution_lease gives up a lease that is still one's own.
Release(w) ==
    /\ worker[w].at \in {"leaving", "unwinding"}
    /\ job' = [job EXCEPT ![worker[w].job].leased = @ /\ job[worker[w].job].execution_token # w]
    /\ IF worker[w].at = "leaving" THEN Turn(w, Idle) ELSE Moves(w, "settling")
    /\ UNCHANGED <<inline, rows, index, keys, editing, history>>

\* The handler of execute_ingestion ends the attempt, and the version with it.
Settle(w) ==
    /\ worker[w].at = "settling"
    /\ LET row == job[worker[w].job]
       IN  IF row.execution_token = w /\ row.status = "running"
           THEN /\ version.status = "processing" => ~editing
                /\ job' = [job EXCEPT ![worker[w].job].status =
                              IF row.cancel_requested THEN "cancelled" ELSE "failed"]
                /\ version' = [version EXCEPT !.status =
                              IF @ = "processing" THEN "failed" ELSE @]
           ELSE UNCHANGED <<job, version>>
    /\ Turn(w, Idle)
    /\ UNCHANGED <<inline, chunks, facts, index, keys, editing, history>>

-------------------------------------------------------------------------------
JobStep(j) == Process(j) \/ Cancel(j) \/ Expire(j) \/ Sweep(j)

WorkerStep(w) ==
    \/ Load(w) \/ Begin(w) \/ Clean(w) \/ Cleaned(w) \/ Parse(w)
    \/ Reuse(w) \/ Segment(w) \/ Extract(w)
    \/ Look(w) \/ Upsert(w) \/ Mark(w) \/ End(w)
    \/ Fail(w) \/ Release(w) \/ Settle(w) \/ Crash(w)

Next ==
    \/ \E j \in Job : JobStep(j)
    \/ \E j, c \in Job : Retry(j, c)
    \/ \E w \in Worker : WorkerStep(w)
    \/ \E w \in Worker, j \in Job : Claim(w, j)
    \/ Correct \/ Corrected \/ Review \/ Publish \/ Withdraw

Spec == Init /\ [][Next]_vars

-------------------------------------------------------------------------------
(* Properties. *)

\* A version under review, approved or published has its three indexes marked
\* ready, and each holds entries of the stored rows and of nothing older, unless
\* an attempt without a lease has reached an index, which fencing cannot prevent,
\* or a retry slipped in while a correction was being stored.
ReviewedIsIndexed ==
    version.status \in Reviewed =>
        /\ Indexes \subseteq version.state
        /\ late \/ raced
           \/ /\ index["fulltext"] = {chunks}
              /\ index["vector"] = {chunks}
              /\ index["graph"] = {facts}

\* Reviewers judge chunks and facts of the corrected text, unless a retry slipped
\* in while the correction was being stored.
ReviewedIsCurrent ==
    version.status \in Reviewed => raced \/ (chunks = version.revision /\ facts = chunks)

\* What was approved stays as it is, whatever earlier attempts still do.
ApprovedIsFrozen ==
    [][version.status \in {"approved", "published"} =>
          /\ UNCHANGED <<chunks, facts>>
          /\ version'.status \in {"approved", "published", "withdrawn"}
          /\ version'.revision = version.revision
          /\ version'.state = version.state]_vars

\* The version as its document knows it: until people can judge it, it is "uploaded".
InDocument ==
    [v \in {"it"} |-> [status |-> IF version.status \in Startable THEN "uploaded"
                                  ELSE version.status,
                       number |-> 1, content |-> "file", from |-> 1, to |-> 0]]

Document == INSTANCE Versions
    WITH Version <- {"it"}, Document <- {{"it"}}, Content <- {"file"}, NoContent <- "none",
         MaxDay <- 1, version <- InDocument

\* Attempts that fail, are taken over or write from old copies, and corrections
\* between them, move the version as the handlers of the document do.
ImplementsDocument == [][InDocument' # InDocument => Document!VersionsNext]_vars

\* A version whose processing broke off can be processed further: the request to
\* process it or the retry of some attempt is not refused.
CanBeStarted == FirstKeyIsFree \/ \E j \in Job : Retryable(j)

BrokenOffCanGoOn ==
    version.status \in {"processing", "failed"} /\ ActiveJobs = {} => CanBeStarted

\* The documentation has corrected versions processed again; but the first key is
\* taken and an attempt that succeeded has no retry.
CorrectedCanGoOn ==
    version.status = "uploaded" /\ ActiveJobs = {} => CanBeStarted

\* A version that people judge or read is what its indexes hold.
IngestionInv == IngestionTypeOK /\ ReviewedIsIndexed /\ ReviewedIsCurrent
===============================================================================
