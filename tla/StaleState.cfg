\* Users close approved requests as well.
CONSTANTS
  Recipe = {r1, r2}
  Revision = {v1, v2, v3}
  User = {alice, bob}
  Content = {rollout, rollback}
  plain = plain
  rollout = rollout
  rollback = rollback
  None = None
  Conflicts <- RolloutConflicts
  PeerApprovalEnforced = TRUE
  AutographConfigured = TRUE
  ClosableStatus <- AllStatuses
  Faults = {}
SYMMETRY Symmetry
SPECIFICATION Spec
INVARIANTS
  NoConflictEnabled
\* Recipe and revision ids run out.
CHECK_DEADLOCK FALSE
