SPECIFICATION Spec
CONSTANTS
    Job = {j1, j2}
    Client = {c1, c2}
    Worker = {w1}
    NoJob = NoJob
    MaxVersions = 2
    MaxFaults = 0
PROPERTIES ConfirmedIsFrozen
CHECK_DEADLOCK FALSE
