SPECIFICATION Spec
CONSTANTS
  Clients = {local, remote}
  LocalClient = local
  NoClient = none
  ProgramsUsed = {"procedural", "c", "python"}
  TypesUsed = {"CLIENT_AND_SERVER", "CLIENT_ONLY", "SERVER_ONLY"}
  BuildsUsed = {"unix", "windows"}
  Byte <- MCByte
  NUL = 0
  BufSize = 4
  MaxFaults = 1
  NumAddrs = 2
  ServerAddrs <- MCServerAddrs
  Text <- MCText
  StackContents <- MCStack
INVARIANTS
  OneshotTypeOK
  EchoIntegrity
  EofAfterWholeEcho
  PrintsReceived
  OnlyPythonBreaksPipes
  SocketsClosed
PROPERTIES
  KeepsContract
CHECK_DEADLOCK FALSE
