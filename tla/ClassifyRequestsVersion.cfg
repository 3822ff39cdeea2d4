SPECIFICATION RequestsSpec
CONSTANTS
    Job = {j1, j2, j3}
    Request = {q1, q2}
    NoJob = NoJob
    NoRequest = NoRequest
    MaxEventVersion = 2
PROPERTIES NewVersionCanBeClassified
CHECK_DEADLOCK FALSE
