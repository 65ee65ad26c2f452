\* Projections and playback of a growing history: forged rows, failed rebuilds, crashes.
SPECIFICATION Spec
CONSTANTS
  None = None
  low = low
  up = up
  EventIds = {e1, e2}
  Numbers = {0, 1}
  Texts = {low, up}
  Upper <- MCUpper
  Bodies <- MCBodies
  Projections = {p1}
  Records = {r1}
  Forged <- MCForged
SYMMETRY Symmetric
INVARIANTS
  TypeOK
  ReturnedIsCurrent
  AnsweredIsPublished
  EvidenceStands
PROPERTIES
  ReplacedBySuccess
