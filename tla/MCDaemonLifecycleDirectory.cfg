\* Two daemons and other programs around one socket path.
SPECIFICATION Spec
CONSTANTS
  None = None
  INT = INT
  TERM = TERM
  Daemons = {d1, d2}
  Clients = {}
  Signals = {TERM}
  SignalExit <- MCSignalExit
  Inodes = {i1, i2, i3}
  OtherKinds = {"live", "dead", "file"}
SYMMETRY Symmetric
INVARIANTS
  OneListens
  RemovedIsProven
  ExitVacates
PROPERTIES
  OnlyHolderTouches
