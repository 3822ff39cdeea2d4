SPECIFICATION MCSpec
CONSTANTS
    Job = {j1, j2}
    Client = {c1}
    Worker = {w1, w2}
    FirstJob = j1
    SecondJob = j2
    SecondWorker = w2
    NoJob = NoJob
    MaxVersions = 2
    MaxFaults = 1
INVARIANTS HandoverInv
PROPERTIES ActiveJobEnds
CHECK_DEADLOCK FALSE
