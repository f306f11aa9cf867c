SPECIFICATION UpdateFairSpec
CONSTANTS
  SWAP_ITEMS <- SwapItems
  ScriptItems <- Script
  Versions = {"1", "2"}
  Ships <- Packages
  Ops = {o1, o2}
  MaxOps = 3
  MaxFaults = 2
CHECK_DEADLOCK FALSE
INVARIANT UpdateInv
PROPERTIES
  UpdatesEnd
  
