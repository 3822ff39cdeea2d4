SPECIFICATION MCSpec
CONSTANTS
 Job = {j1, j2}
 Worker = {w1, w2}
 NoJob = NoJob
 NoWorker = NoWorker
 MaxRevision = 2
 MaxFaults = 1
 Investigator = {p1, p2}
 Query = {evidence1, evidence2}
 Finding = {finding1}
 OwnText = OwnText
 EvidenceBudget = 3
 RevisionLimit = 1
 MaxLosses = 2
SYMMETRY Symmetric
INVARIANTS IngestionInv BrokenOffCanGoOn InvestigationInv
PROPERTIES ApprovedIsFrozen ImplementsDocument ReportsStand
CHECK_DEADLOCK FALSE
