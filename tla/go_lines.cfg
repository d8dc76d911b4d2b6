SPECIFICATION FairSpec
CONSTANTS
  Clients = {local, remote}
  LocalClient = local
  NoClient = none
  Byte <- MCByte
  NUL = 0
  BufSize = 8
  MaxFaults = 1
  MaxLines = 1
INVARIANTS
  GoTypeOK
  PrintsTails
  FirstMessageArrives
PROPERTIES
  UsersLeave
CHECK_DEADLOCK FALSE
