SPECIFICATION FdSpec
CONSTANTS
  Clients = {local, remote}
  LocalClient = local
  NoClient = none
  TypesUsed = {"CLIENT_AND_SERVER"}
  ModesUsed = {1, 2, 5}
  RemoteModes = {1}
  BuildsUsed = {"unix"}
  Byte <- MCByte
  NUL = 0
  BufSize = 3
  MaxFaults = 1
  NumAddrs = 2
  ServerAddrs <- MCServerAddrs
  Request <- MCRequest
  Packets <- MCPackets
  Unrequested <- MCUnrequested
INVARIANTS
  FdTypeOK
  StaleCloseNeedsFailure
  OnlyRefusedLeak
PROPERTIES
  ImplementsTcpDemo
CHECK_DEADLOCK FALSE
