SPECIFICATION FairSpec
CONSTANTS
  Clients = {local}
  LocalClient = local
  NoClient = none
  TypesUsed = {"SERVER_ONLY"}
  ModesUsed = {1}
  RemoteModes = {1}
  BuildsUsed = {"unix"}
  Byte <- MCByte
  NUL = 0
  BufSize = 3
  MaxFaults = 0
  NumAddrs = 2
  ServerAddrs <- MCServerAddrs
  Request <- MCRequest
  Packets <- MCPackets
  Unrequested <- MCUnrequested
PROPERTIES
  ServerOnlyListens
CHECK_DEADLOCK FALSE
