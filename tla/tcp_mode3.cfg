SPECIFICATION Spec
CONSTANTS
  Clients = {local}
  LocalClient = local
  NoClient = none
  TypesUsed = {"CLIENT_AND_SERVER"}
  ModesUsed = {3}
  RemoteModes = {1}
  BuildsUsed = {"unix"}
  Byte <- MCByte
  NUL = 0
  BufSize = 3
  MaxFaults = 0
  NumAddrs = 2
  ServerAddrs <- MCServerAddrs
  Request <- MCRequest
  Packets <- MCPackets
  Unrequested <- MCUnrequested
INVARIANTS
  Mode3Drains
CHECK_DEADLOCK FALSE
