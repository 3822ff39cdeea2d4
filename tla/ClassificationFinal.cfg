SPECIFICATION Spec
CONSTANTS
    Job = {j1}
    Worker = {w1, w2}
    NoJob = NoJob
    NoWorker = NoWorker
    LeaseSeconds = 1
    StaleAfter = 1
    MaxEdits = 1
    MaxCopies = 2
    MaxFaults = 1
PROPERTIES TerminalIsFinal
CHECK_DEADLOCK FALSE
