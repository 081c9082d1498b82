\* Two handlers at a time on two recipes and three revisions in all.
CONSTANTS
  Recipe = {r1, r2}
  Revision = {v1, v2, v3}
  RequestId = {q1, q2, q3}
  Handler = {h1, h2}
  Name = {n1}
  None = None
  Renames = FALSE
  MaxOverlaps = 2
SYMMETRY Symmetry
SPECIFICATION Spec
INVARIANTS
  TypeOK
  OnlyReviewedInForce
  NoFork
  NamesUniqueOn
  NothingLost
  OnlyOneOfPair
  CanSwitchOff
\* Revision and request ids run out.
CHECK_DEADLOCK FALSE
