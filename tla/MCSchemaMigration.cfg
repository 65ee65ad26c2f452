\* Two daemons and every store; other programs change the path and modes twice.
SPECIFICATION FairSpec
CONSTANTS
  None = None
  v1 = v1
  v2 = v2
  VersionIds = {v1, v2}
  Openers = {d1, d2}
  Files = {f1, f2}
  Stores <- MCStores
  Replacements <- MCReplacements
  MaxOpens = 2
  MaxChanges = 2
INVARIANTS
  TypeOK
  UpgradeIsWhole
  ReopensSame
PROPERTIES
  CommitsToWhatItSaw
  OpensEnd
CHECK_DEADLOCK FALSE
