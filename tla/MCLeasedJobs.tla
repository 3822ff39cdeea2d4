----------------------------- MODULE MCLeasedJobs -----------------------------
(* Two attempts and two workers; three attempts in a longer chain of retries. *)
EXTENDS LeasedJobs, TLC

Symmetric == Permutations(Job) \cup Permutations(Worker)
===============================================================================
