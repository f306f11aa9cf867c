SPECIFICATION HubFairSpec
CONSTANTS
  Ports = {p1}
  Sessions = {s1}
  Modes = {"shared-rw"}
  Channels = {c1, c2}
  Callers = {c1, c2, w1}
  PROBES = 2
  MaxFaults = 1
INVARIANTS
  HubInv
PROPERTIES
  PortIsReachable
  ChannelsAreAnswered
  NothingOutlivesItsChannel
