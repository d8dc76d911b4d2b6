SPECIFICATION Spec
CONSTANTS
  Clients = {local, remote}
  LocalClient = local
  NoClient = none
  TypesUsed = {"CLIENT_AND_SERVER", "CLIENT_ONLY", "SERVER_ONLY"}
  ModesUsed = {1, 2, 3, 4, 5}
  RemoteModes = {1, 3, 4}
  BuildsUsed = {"unix", "windows"}
  Byte <- MCByte
  NUL = 0
  BufSize = 3
  MaxFaults = 1
  NumAddrs = 2
  ServerAddrs <- MCServerAddrs
  Request <- MCRequest
  Packets <- MCPackets
  Unrequested <- MCUnrequested
INVARIANTS
  TypeOK
  ReplyIntegrity
  EofMeansComplete
  RejectedIsTold
  LogShowsReceived
  DrainsBeforeShutdown
  NoSigPipe
  ConnectionsClosed
PROPERTIES
  ImplementsContract
CHECK_DEADLOCK FALSE
