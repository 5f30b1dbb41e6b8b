SPECIFICATION FairSpec
CONSTANTS
  other = other
  Foreign = {other}
  MaxRuns = 2  MaxTrouble = 2
CHECK_DEADLOCK FALSE
INVARIANT RegistersItsPort
PROPERTIES ApprovesOwnPending WaitEnds ListenersClose ServedInTheEnd
