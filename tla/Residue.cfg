\* Two web workers beside the command: requests for two recipes overlap, calls fail in
\* every way, processes end anywhere.
CONSTANTS
  r1 = r1
  r2 = r2
  h1 = h1
  h2 = h2
  x1 = x1
  x2 = x2
  Recipe = {r1, r2}
  Version = {x1, x2}
  Handler = {h1, h2}
  Asked <- AskedInTurn
  Syncer = {s1}
  None = None
  Overlap = TRUE
  Faults = {"refused", "reverted", "stranded", "unanswered", "redelivered", "crash"}
SPECIFICATION FairSpec
INVARIANTS
  TypeOK
  WorkspaceFollows
PROPERTIES
  OnlyResidueBlocks
