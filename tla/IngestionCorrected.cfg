SPECIFICATION Spec
CONSTANTS
    Job = {j1, j2}
    Worker = {w1}
    NoJob = NoJob
    NoWorker = NoWorker
    MaxRevision = 2
    MaxFaults = 0
INVARIANTS CorrectedCanGoOn
CHECK_DEADLOCK FALSE
