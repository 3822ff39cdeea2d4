SPECIFICATION MCSpec
CONSTANTS
    Reviewer = {r1, r2}
    Clerk = {c1, c2}
    Scanner = {s1, s2}
    MaxMoves = 7
    MaxEdits = 1
    Job = {j1, j2, j3}
    Request = {q1, q2, q3}
    NoJob = NoJob
    NoRequest = NoRequest
    MaxEventVersion = 2
INVARIANTS IndInv RequestsInv
PROPERTIES OrderIsKept OverdueIsReminded EveryRequestIsAnswered
CHECK_DEADLOCK FALSE
