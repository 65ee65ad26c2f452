\* One client of each kind, a daemon that stops and dies at any step, two line limits.
SPECIFICATION FairSpec
CONSTANTS
  None = None
  NoValue = NoValue
  Absent = Absent
  Unreadable = Unreadable
  Fresh = Fresh
  r1 = r1
  r2 = r2
  Ids = {r1, r2}
  HandshakeId = r1
  HealthId = r2
  Values = {"1", "2", "3", "4", "9", "10", "info", "debug", "loud"}
  Garbled = "garbled"
  Default <- MCDefault
  Allowed <- MCAllowed
  Size <- MCSize
  Commands <- MCCommands
  Scripts <- MCScripts
  DaemonLimit = 3
INVARIANTS
  TypeOK
  AnsweredInOrder
  PrintedInOrder
  CleanExitAnswered
  VerdictIsProven
PROPERTIES
  StartsConfigured
  RequestsReturn
CHECK_DEADLOCK FALSE
