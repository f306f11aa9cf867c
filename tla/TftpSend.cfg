SPECIFICATION SendFairSpec
CONSTANTS
  MaxBlocks = 5
  MAX_WINDOW_SIZE = 3
  WireNumbers = 4
  MAX_RETRIES = 1
  Capacity = 3
  SocketErrors = TRUE
CHECK_DEADLOCK FALSE
INVARIANTS
  SendInv
  AckedIsReceived
PROPERTIES
  TransferEnds
