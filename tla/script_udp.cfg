SPECIFICATION FairSpec
CONSTANTS
  Clients <- MCClients
  LocalClient = 0
  NoClient = none
  ProgramsUsed = {"python", "java"}
  TypesUsed = {"CLIENT_AND_SERVER", "CLIENT_ONLY", "SERVER_ONLY"}
  BuildsUsed = {"unix", "windows"}
  Byte <- MCByte
  NUL = 0
  BufSize = 3
  MaxFaults = 1
  MaxLost = 1
  MaxDups = 1
  Text <- MCText
INVARIANTS
  ScriptTypeOK
  AnswersTheLastTry
PROPERTIES
  ScriptImplementsEchoOnce
  ClientGetsDone
  JavaFinishes
CHECK_DEADLOCK FALSE
