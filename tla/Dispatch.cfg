SPECIFICATION FairSpec
CONSTANTS
  c1 = c1  c2 = c2
  Container = {c1, c2}
  Stream = {"stdout"}
  Lines = 2  PipeSize = 1
  Code = {0, 2}
CHECK_DEADLOCK FALSE
INVARIANTS OutputInOrder ExitTruthful
PROPERTIES Exits
