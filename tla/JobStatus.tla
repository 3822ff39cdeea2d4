------------------------------ MODULE JobStatus -------------------------------
(***************************************************************************)
(* The statuses of async_jobs and the two rules every module of the        *)
(* repository shares: the transition table of update_job, and what the     *)
(* object-relational mapper writes for an attribute that was assigned.     *)
(***************************************************************************)
Active == {"queued", "running"}
Terminal == {"succeeded", "failed", "cancelled"}

\* The transition table of update_job, which raises ConflictError elsewhere.
Transitions(status) ==
    CASE status = "queued"  -> {"running", "failed", "cancelled"}
      [] status = "running" -> {"running", "succeeded", "failed", "cancelled"}
      [] OTHER              -> {status} \cap Terminal

\* A flush writes an attribute only if it was given a value other than the one
\* the session loaded; what others committed in between decides otherwise.
Flushed(stored, loaded, assigned) == IF assigned = loaded THEN stored ELSE assigned
===============================================================================
