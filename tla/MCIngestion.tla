------------------------------ MODULE MCIngestion ------------------------------
(* Two executors that go on from what an earlier attempt has stored, the one  *)
(* of a document's version and the one of an investigation.  They share no    *)
(* state: a behaviour is about one of them.                                   *)
EXTENDS Ingestion, Investigation, TLC

VARIABLE focus

MCInit ==
    /\ Init /\ InvestigationInit
    /\ focus \in {"ingestion", "investigation"}
    /\ focus = "investigation" => inline

\* A run that is cancelled has lost one process at most.
FewLosses == attempt'.cancel_requested => losses' <= 1

MCNext ==
    /\ UNCHANGED focus
    /\ \/ focus = "ingestion" /\ Next /\ UNCHANGED investigationVars
       \/ focus = "investigation" /\ InvestigationNext /\ FewLosses /\ UNCHANGED vars

MCSpec == MCInit /\ [][MCNext]_<<vars, investigationVars, focus>>

Symmetric ==
    Permutations(Job) \cup Permutations(Worker) \cup Permutations(Investigator)
===============================================================================
