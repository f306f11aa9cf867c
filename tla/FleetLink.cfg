SPECIFICATION FleetFairSpec
CONSTANTS
  Conns = {n1, n2, n3, n4}
  Ticks = {b1}
  Keys = {hub1, hub2}
  THRESHOLD = 3
  MaxSaves = 2
  MaxFaults = 1
CHECK_DEADLOCK FALSE

  
PROPERTIES
  HeartbeatsArrive
  
