SPECIFICATION FairSpec
CONSTANTS
  Clients = {local, remote}
  LocalClient = local
  NoClient = none
  TypesUsed = {"CLIENT_AND_SERVER"}
  ModesUsed = {1, 2, 3, 4}
  RemoteModes = {1}
  BuildsUsed = {"unix", "windows"}
  Byte <- MCByte
  NUL = 0
  BufSize = 2
  MaxFaults = 1
  NumAddrs = 1
  ServerAddrs <- MCServerAddrs
  Request <- MCShortRequest
  Packets <- MCShortPackets
  Unrequested <- MCShortUnrequested
PROPERTIES
  ConnectedEnds
  DemoFinishes
  ServesToTheEnd
CHECK_DEADLOCK FALSE
