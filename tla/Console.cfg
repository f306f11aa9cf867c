SPECIFICATION ConsoleSpec
CONSTANTS
  ssh1 = ssh1
  ssh2 = ssh2
  web1 = web1
  tun1 = tun1
  bat1 = bat1
  p1 = p1
  Ports = {p1}
  Sessions = {ssh1, ssh2, web1, tun1}
  Modes <- ExclusiveOrFirst
  Ssh = {ssh1, ssh2}
  Web = {web1}
  Tunnel = {tun1}
  Batch = {}
  Dedicated = {ssh2}
  AssignedPort <- Ssh2OwnsP1
  CapturedUsers = {ssh1}
  CapturedPorts = {p1}
  AllowPortMenu = TRUE
  EarlyLeave = TRUE
INVARIANTS
  ConsoleInv
  CaptureFollowsSession
PROPERTIES
  ImplementsManager
