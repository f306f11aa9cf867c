SPECIFICATION AdminSpec
CONSTANTS
  MAX_ATTEMPTS = 1
  LOCKOUT = 1
  WINDOW = 1
  Names = {"admin", "ann"}
  Default = "admin"
  Ids = {i1, i2, i3, i4, i5, i6}
  Browsers = {b1, b2}
  Terminals = {b2}
  i1 = i1
  i2 = i2
  i3 = i3
  Starts <- Boxes
  IDLE = 0
  MaxGuesses = 0
  MaxEvents = 2
  None = None
CHECK_DEADLOCK FALSE
INVARIANT AdminInv
PROPERTIES
  NobodySkipsTheCode
  SyncEndsAccess
  AdminsRemain
