SPECIFICATION FairSpec
CONSTANTS
    Job = {j1}
    Worker = {w1}
    NoJob = NoJob
    NoWorker = NoWorker
    LeaseSeconds = 1
    StaleAfter = 1
    MaxSendAttempts = 1
    MaxFaults = 0
    StartupMayFail = FALSE
PROPERTIES CancelledAttemptEnds
CHECK_DEADLOCK FALSE
