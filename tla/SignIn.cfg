SPECIFICATION PagesFairSpec
CONSTANTS
  MAX_ATTEMPTS = 2
  LOCKOUT = 1
  WINDOW = 1
  Names = {"admin"}
  Default = "admin"
  Ids = {i1, i2, i3, i4}
  Browsers = {b1}
  Terminals = {}
  i1 = i1
  i2 = i2
  i3 = i3
  Starts <- SmallBoxes
  IDLE = 1
  MaxGuesses = 3
  MaxEvents = 1
  None = None
CHECK_DEADLOCK FALSE
 
PROPERTIES
  
  OperatorGetsIn
  UnattendedIsSignedOut
