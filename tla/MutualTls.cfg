SPECIFICATION FairSpec
CONSTANTS
  Option <- AllOptions
  DayRange = 4  MaxPairs = 2  MaxDay = 2  MaxTrouble = 2
CHECK_DEADLOCK FALSE
INVARIANTS TunnelIsBonded SuccessIsAPair
PROPERTIES RefusedBeforeWriting Connects
