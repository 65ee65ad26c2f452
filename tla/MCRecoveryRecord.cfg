\* An effect without a record: the process dies between them.
SPECIFICATION Spec
CONSTANTS
  None = None
  i1 = i1
  c1 = c1
  Ops = {o1, o2}
  Contents = {c1, c2}
  Empty = Empty
  Inodes = {i1, i2, i3}
  Accepted <- MCAccepted
  Auths = {u1}
  NoAuth = NoAuth
  Others = {"events"}
  MaxRuns = 1
SYMMETRY Symmetric
INVARIANTS
  EffectIsRecorded
