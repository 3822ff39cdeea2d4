SPECIFICATION MCSpec
CONSTANTS
    Officer = {o1, o2}
    Order = {wo1}
    MaxHazardVersion = 9
    Image = {i1, i2}
    Analyst = {a1, a2}
    Inspector = {r1}
    MaxAnalyses = 2
    MaxLosses = 1
    Editor = {e1, e2}
    Drafter = e1
    Generation = {g1}
    Export = {x1}
    Source = {s1, s2, so1}
    WorkOrder = {so1}
    ChunkSize = 1
    Organization = {org1, org2}
    DailyRun = {d1, d2}
    MaxReportVersions = 2
    First = p1
    Version = {v1, v2, v3}
    Document = {{v1, v2}, {v3}}
    Content = {1, 2}
    NoContent = 0
    MaxDay = 1
    Worker = {w1}
    Remover = {d1}
    Publisher = {p1, p2}
    MaxTranscripts = 2
    MaxMinutes = 1
    MaxAttempts = 2
    MaxFaults = 1
INVARIANTS HazardInv InspectionsInv 
PROPERTIES DeletedStaysDeleted AnalysisEnds MeetingsHold DeletionCompletes
CHECK_DEADLOCK FALSE
