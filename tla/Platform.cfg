SPECIFICATION MCSpec
CONSTANTS
    Version = {v1, v2, v3}
    Document = {{v1, v2, v3}}
    Content = {c1, c2, c3}
    NoContent = NoContent
    MaxDay = 3
    Admin = {a1, a2}
    Snapshot = {s1}
    MaxConfigs = 3
    MaxTries = 2
    Writer = {t1, t2, t3}
    MaxTime = 3
    Call = {h1, h2, h3}
    Digest = {d1, d2}
    Patience = 1
    MaxInserts = 3
    Unit = {u1, u2, u3}
    Root = u1
    User = {x1}
    Assignment = {g1, g2}
    MaxBumps = 2
    Message = {m1, m2}
    Publisher = {p1, p2}
    BatchSize = 1
    MaxAttempts = 3
    BaseDelay = 1
    DelayCap = 1
    MaxRoundFaults = 1
    Job = {j1}
    Worker = {w1, w2}
    NoJob = NoJob
    NoWorker = NoWorker
    LeaseSeconds = 1
    StaleAfter = 2
    MaxSendAttempts = 2
    MaxFaults = 2
    StartupMayFail = FALSE
INVARIANTS VersionsInv ConfigurationInv AuditInv IdempotencyInv OutboxInv
PROPERTIES PublishedHistoryStands NotDoneAgain AccessHolds ChangedByItsHolder EveryMessageLeaves
    QueuedAttemptEnds RunningAttemptEnds
CHECK_DEADLOCK FALSE
