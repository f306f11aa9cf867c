SPECIFICATION ConsoleFairSpec
CONSTANTS
  ssh1 = ssh1
  ssh2 = ssh2
  web1 = web1
  tun1 = tun1
  bat1 = bat1
  p1 = p1
  Ports = {p1}
  Sessions = {ssh1, web1, bat1}
  Modes <- AllButShared
  Ssh = {ssh1}
  Web = {web1}
  Tunnel = {}
  Batch = {bat1}
  Dedicated = {}
  AssignedPort <- NobodyOwnsOne
  CapturedUsers = {}
  CapturedPorts = {}
  AllowPortMenu = TRUE
  EarlyLeave = FALSE
INVARIANTS
  BatchCanType
PROPERTIES
  DisconnectIsHonoured
