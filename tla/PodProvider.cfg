SPECIFICATION Spec
CONSTANTS
  p1 = p1  j1 = j1  j2 = j2  j3 = j3
  Key = {p1}
  JobId = {j1, j2}
  NoId = NoId  NoPod = NoPod  NoJob = NoJob  NoEntry = NoEntry  NoUpdate = NoUpdate
  NumWorkers = 1
  MaxUid = 2
  MaxEdit = 1
  MaxRestart = 1
  MaxFail = 1
  MaxTrouble = 2
CHECK_DEADLOCK FALSE
SYMMETRY Jobs
INVARIANTS AtMostOneJob CompletedTruthfully IdentifierOwned NoOrphan
PROPERTIES ImplementsPodJobs
