CONSTANTS
  e1 = e1
  e2 = e2
  n1 = n1
  n2 = n2
  w1 = w1
  w2 = w2
  web = web
  v1 = v1
  legacy = legacy
  None = None
  Deleted = Deleted
  Extension = {e1, e2}
  Name = {n1, n2}
  AddonId = {web, legacy}
  Version = {v1}
  Recipe = {r1}
  r1 = r1
  Worker = {w1, w2}
  Xpi <- MCXpi
  Use <- MCUse
SPECIFICATION Spec
SYMMETRY Symmetry
INVARIANTS TypeOK DescribesFile
PROPERTY UsedKept
CHECK_DEADLOCK FALSE
