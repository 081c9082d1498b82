\* Two recipes, one user who reviews too; no failed call deletes from the
\* workspace a record that clients still get.
CONSTANTS
  Recipe = {r1, r2}
  Revision = {v1, v2}
  User = {alice}
  Content = {plain}
  plain = plain
  rollout = rollout
  rollback = rollback
  None = None
  Conflicts <- NoConflicts
  PeerApprovalEnforced = FALSE
  AutographConfigured = TRUE
  ClosableStatus <- AllStatuses
  Faults = {"sign", "refused", "reverted", "unanswered"}
SPECIFICATION FairSpec
PROPERTIES
  SyncConverges
\* Recipe and revision ids run out.
CHECK_DEADLOCK FALSE
