SPECIFICATION UploadFairSpec
CONSTANTS
  Clients = {c1}
  TftpTransfers = {t1, t2}
  TunnelTransfers = {u1}
  PageUploads = {g1}
  Blocks = 2
  MAX_RETRIES = 1
  Overlap = FALSE
  DiskErrors = TRUE
  SocketErrors = TRUE
CHECK_DEADLOCK FALSE

  
PROPERTIES
  SureIsStored
  
