SPECIFICATION FairSpec
CONSTANTS
  Clients = {local, remote}
  LocalClient = local
  NoClient = none
  ProgramsUsed = {"procedural", "c", "python"}
  TypesUsed = {"CLIENT_AND_SERVER"}
  BuildsUsed = {"unix"}
  Byte <- MCByte
  NUL = 0
  BufSize = 3
  MaxFaults = 1
  NumAddrs = 1
  ServerAddrs <- MCServerAddrs
  Text <- MCShortText
  StackContents <- MCStack
PROPERTIES
  OneshotConnectedEnds
  OneshotFinishes
CHECK_DEADLOCK FALSE
