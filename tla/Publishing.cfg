\* Three web workers, three recipes, every call succeeds.
CONSTANTS
  r1 = r1
  r2 = r2
  h1 = h1
  h2 = h2
  x1 = x1
  x2 = x2
  Recipe = {r1, r2, r3}
  Version = {x1, x2}
  Handler = {h1, h2, h3}
  Asked <- AskedAll
  Syncer = {}
  None = None
  Overlap = FALSE
  Faults = {}
SYMMETRY Symmetry
SPECIFICATION Spec
INVARIANTS
  Settled
\* With no command to start, what is left may be nothing.
CHECK_DEADLOCK FALSE
