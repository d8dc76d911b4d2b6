SPECIFICATION FairSpec
CONSTANTS
  Clients = {local, remote}
  LocalClient = local
  NoClient = none
  ProgramsUsed = {"classes", "procedural", "c"}
  TypesUsed = {"CLIENT_AND_SERVER", "CLIENT_ONLY", "SERVER_ONLY"}
  BuildsUsed = {"unix", "windows"}
  Byte <- MCByte
  NUL = 0
  BufSize = 3
  MaxFaults = 1
  MaxLost = 1
  MaxDups = 1
  Text <- MCText
INVARIANTS
  UdpTypeOK
  OwnEcho
  ServerSocketClosed
PROPERTIES
  UndefinedOnlyAfterError
  ImplementsEchoOnce
  AnsweredEnds
CHECK_DEADLOCK FALSE
