SPECIFICATION FairSpec
CONSTANTS
  n1 = n1
  Node = {n1}
  Kubelet = FALSE
  MaxInstance = 2  MaxStart = 2
  MaxTrouble = 3
CHECK_DEADLOCK FALSE
INVARIANT LiveIsManaged
PROPERTIES RemovesOnlyUnlisted ServesListed EndTogether UnlistedEnds
