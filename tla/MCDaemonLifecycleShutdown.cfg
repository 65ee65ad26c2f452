\* One daemon, two connections, both signals, and a program that takes the socket file.
SPECIFICATION FairSpec
CONSTANTS
  None = None
  INT = INT
  TERM = TERM
  Daemons = {d1}
  Clients = {c1, c2}
  Signals = {INT, TERM}
  SignalExit <- MCSignalExit
  Inodes = {i1, i2}
  OtherKinds = {"dead"}
INVARIANTS
  TypeOK
  ExitCodesTrue
  OneLateAnswer
PROPERTIES
  SignalledEnds
  SecondSignalDecides
