-------------------------------- MODULE JobRow --------------------------------
(***************************************************************************)
(* One row of the table async_jobs, as far as concurrency can tell rows    *)
(* apart: the status, the cancel flag, the execution lease and the link to *)
(* the attempt it retries.  The operators are the ways the platform's      *)
(* service layer reads and rewrites a row; the modules that extend this    *)
(* one say who calls them, when, and on which copy of the row.             *)
(***************************************************************************)
EXTENDS JobStatus, Naturals

CONSTANTS
    Job,           \* the rows a behaviour may create
    Worker,        \* the worker processes
    NoJob,         \* parent_job_id IS NULL
    NoWorker,      \* execution_token IS NULL
    LeaseSeconds,  \* ticks a lease lasts (settings.job_lease_seconds)
    StaleAfter     \* ticks of silence allowed (job_heartbeat_timeout_seconds)

ASSUME NullsAreNotIds == NoJob \notin Job /\ NoWorker \notin Worker
ASSUME TimeoutsArePositive ==
    LeaseSeconds \in Nat \ {0} /\ StaleAfter \in Nat \ {0}

(***************************************************************************)
(* Two clocks are kept relative to now: lease is how long lease_expires_at *)
(* still lies ahead (0: NULL or passed) and silence how long ago           *)
(* heartbeat_at was written, saturating where no comparison changes.  A    *)
(* token is named by the process that drew it: it is compared by that      *)
(* process only, which holds one at a time.  "absent" is a row not yet     *)
(* inserted.                                                               *)
(***************************************************************************)
Row == [status           : Active \cup Terminal \cup {"absent"},
        cancel_requested : BOOLEAN,
        execution_token  : Worker \cup {NoWorker},
        lease            : 0 .. LeaseSeconds,
        silence          : 0 .. StaleAfter + 1,
        parent           : Job \cup {NoJob},
        attempt          : Nat]

RowOf(status, parent, attempt) ==
    [status |-> status, cancel_requested |-> FALSE, execution_token |-> NoWorker,
     lease |-> 0, silence |-> 0, parent |-> parent, attempt |-> attempt]

Absent == RowOf("absent", NoJob, 0)

\* The row create_job inserts; retry_job then sets its parent and attempt.
NewRow(parent, attempt) == RowOf("queued", parent, attempt)

\* update_job on one copy of the row: entering "running" beats the heart.
Updated(row, status) ==
    [row EXCEPT !.status = status,
                !.silence = IF status = "running" THEN 0 ELSE @]

\* Faulty: a claim that looks at flag and lease but not at the status.
ClaimableUnleased(row) == ~row.cancel_requested /\ row.lease = 0

\* claim_job refuses a row that is finished, flagged or leased to anybody.
Claimable(row) ==
    /\ row.status \in Active
    /\ ~row.cancel_requested
    /\ row.lease = 0

Claimed(row, w) ==
    [row EXCEPT !.status = "running", !.execution_token = w,
                !.lease = LeaseSeconds, !.silence = 0]

\* Faulty: guards that forget the status, the owner or the cancel flag.
HoldsToken(row, w) == row.execution_token = w
HoldsAnyLease(row, w) ==
    row.status = "running" /\ ~row.cancel_requested /\ row.lease > 0
HoldsUncancellable(row, w) ==
    row.execution_token = w /\ row.status = "running" /\ row.lease > 0

\* What guard_execution, and the WHERE clause of the heartbeat, demand.
HoldsLease(row, w) ==
    /\ row.execution_token = w
    /\ row.status = "running"
    /\ ~row.cancel_requested
    /\ row.lease > 0

Renewed(row) == [row EXCEPT !.lease = LeaseSeconds, !.silence = 0]

\* The finally block of execution_lease gives the lease up, if it is still w's.
Released(row, w) ==
    IF row.execution_token = w THEN [row EXCEPT !.lease = 0] ELSE row

\* Faulty: a sweeper that leaves flagged rows to their workers.
StaleUnflagged(row) ==
    row.status = "running" /\ row.silence > StaleAfter /\ ~row.cancel_requested

\* The rows fail_stale_jobs selects.
Stale(row) == row.status = "running" /\ row.silence > StaleAfter

\* One tick; a row that is not running is in no comparison with the clock.
Aged(row) ==
    IF row.status = "running"
    THEN [row EXCEPT !.lease = IF @ = 0 THEN 0 ELSE @ - 1,
                     !.silence = IF @ > StaleAfter THEN @ ELSE @ + 1]
    ELSE row
===============================================================================
