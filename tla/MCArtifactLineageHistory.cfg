\* Content-only imports: two owners, two artifacts, three operations, and the abstract history.
SPECIFICATION Spec
CONSTANTS
  None = None
  o1 = o1
  o2 = o2
  o3 = o3
  a1 = a1
  Ops = {o1, o2, o3}
  Owners = {alice, bob}
  Artifacts = {a1, a2}
  Contents = {c1}
  Paths = {}
  Inodes = {}
  SourceArtifact <- MCSourceArtifact
SYMMETRY Symmetric
INVARIANTS
  LinearHistory
  StoreReopens
PROPERTIES
  AppendOnly
  ImplementsVersionHistory
