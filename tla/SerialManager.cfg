SPECIFICATION Spec
CONSTANTS
  Ports = {p1, p2}
  Sessions = {s1, s2, s3, s4}
  Modes <- AllModes
INVARIANTS
  IInv
  OnlySharedRwShares
  
PROPERTIES
  KeyboardIsKept
  ImplementsSharing
