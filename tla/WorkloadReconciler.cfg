SPECIFICATION FairSpec
CONSTANTS
  a = a
  Job = {a}
  MaxWidth = 2
  Faults = {"list", "populate", "stream", "apply", "delete"}
  MaxFail = 2
  MaxRestart = 1
  NoPod = NoPod  NoJob = NoJob  NoPhase = NoPhase
  NoInventory = NoInventory  NoListing = NoListing
  MaxLen = 8
  Identifier <- SomeIdentifiers
  JobName <- SomeNames
  Index = {0, 1, 10}
INVARIANTS InventoryCovers NamesApart NamesAccepted
PROPERTIES CollectsOnlyGone CollectsStale DeliversEnd
