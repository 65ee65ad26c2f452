\* An import that returns drift keeps a discrepancy: the code does not.
SPECIFICATION Spec
CONSTANTS
  None = None
  o1 = o1
  o2 = o2
  o3 = o3
  a1 = a1
  Ops = {o1, o2}
  Owners = {alice}
  Artifacts = {a1}
  Contents = {c1, c2}
  Paths = {p1}
  Inodes = {i1, i2}
  SourceArtifact <- MCSourceArtifact
SYMMETRY Symmetric
INVARIANTS
  DriftIsRetained
