\* The identity a cleanup acts on is that of the daemon's own socket.
SPECIFICATION Spec
CONSTANTS
  None = None
  INT = INT
  TERM = TERM
  Daemons = {d1}
  Clients = {}
  Signals = {TERM}
  SignalExit <- MCSignalExit
  Inodes = {i1, i2}
  OtherKinds = {"live"}
INVARIANTS
  RemovedIsOwn
