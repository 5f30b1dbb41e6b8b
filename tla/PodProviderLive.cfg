SPECIFICATION FairSpec
CONSTANTS
  p1 = p1  j1 = j1  j2 = j2  j3 = j3
  Key = {p1}
  JobId = {j1}
  NoId = NoId  NoPod = NoPod  NoJob = NoJob  NoEntry = NoEntry  NoUpdate = NoUpdate
  NumWorkers = 1
  MaxUid = 1
  MaxEdit = 0
  MaxRestart = 1
  MaxFail = 0
  MaxTrouble = 2
CHECK_DEADLOCK FALSE
PROPERTIES Settles CallsReturn
