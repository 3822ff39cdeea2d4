SPECIFICATION Spec
CONSTANTS
    Job = {j1, j2}
    Worker = {w1, w2}
    NoJob = NoJob
    NoWorker = NoWorker
    LeaseSeconds = 1
    StaleAfter = 1
    MaxSendAttempts = 2
    MaxFaults = 2
    StartupMayFail = TRUE
SYMMETRY Symmetric
INVARIANTS IndInv
PROPERTIES TerminalIsFinal FencedOut CancelSticks ImplementsContract
CHECK_DEADLOCK FALSE
