\* Two recipes that may hold a rollout and its rollback.  Approved requests are
\* not closed, Autograph answers, Remote Settings may refuse.
CONSTANTS
  Recipe = {r1, r2}
  Revision = {v1, v2, v3}
  User = {alice, bob}
  Content = {rollout, rollback}
  plain = plain
  rollout = rollout
  rollback = rollback
  None = None
  Conflicts <- RolloutConflicts
  PeerApprovalEnforced = TRUE
  AutographConfigured = TRUE
  ClosableStatus <- OpenOrRejected
  Faults = {"refused", "reverted"}
SYMMETRY Symmetry
SPECIFICATION Spec
INVARIANTS
  NoConflictEnabled
  OnlyReviewedPublished
  SignatureMatches
  PublishedSignatureMatches
PROPERTIES
  ApprovalCarriesOver
  OnlyEnableSwitchesOn
  ImplementsPeerApproval
\* Recipe and revision ids run out.
CHECK_DEADLOCK FALSE
