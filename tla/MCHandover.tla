------------------------------ MODULE MCHandover ------------------------------
(* One recording and one request at a time.  A behaviour keeps within one of   *)
(* three limits, as all of two jobs, two workers, two versions of each kind    *)
(* and a fault are too much at once.                                           *)
EXTENDS Handover, TLC

CONSTANTS FirstJob, SecondJob, SecondWorker

VARIABLE limit

Within(l) ==
    \/ l = "one job" /\ job'[SecondJob] = NoRow
    \/ l = "one worker" /\ session'[SecondWorker] = Idle /\ faults' = 0
    \/ l = "one version" /\ Len(transcripts') <= 1 /\ Len(summaries') <= 1

\* Jobs are interchangeable until they are created.
InOrder == job'[FirstJob] = NoRow => job'[SecondJob] = NoRow

MCInit == Init /\ limit \in {"one job", "one worker", "one version"}

MCNext == Next /\ Within(limit) /\ InOrder /\ UNCHANGED limit

\* Handover's Fairness, within the limit of the behaviour.
MCFairness ==
    /\ \A j \in Job : WF_vars(Sweep(j) /\ Within(limit))
    /\ \A s \in Worker :
          /\ WF_vars((\E j \in Job : Load(s, j)) /\ Within(limit))
          /\ WF_vars(ExecutorStep(s) /\ Within(limit))

MCSpec == MCInit /\ [][MCNext]_<<vars, limit>> /\ MCFairness
===============================================================================
