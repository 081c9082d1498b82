\* One recipe, three revisions: any request may be closed, and any call may fail.
CONSTANTS
  Recipe = {r1}
  Revision = {v1, v2, v3}
  User = {alice, bob}
  Content = {plain}
  plain = plain
  rollout = rollout
  rollback = rollback
  None = None
  Conflicts <- NoConflicts
  PeerApprovalEnforced = TRUE
  AutographConfigured = TRUE
  ClosableStatus <- AllStatuses
  Faults = {"sign", "unanswered"}
SYMMETRY Symmetry
SPECIFICATION Spec
INVARIANTS
  TypeOK
  OnlyReviewedInDatabase
  HistoryIsAChain
\* Recipe and revision ids run out.
CHECK_DEADLOCK FALSE
