------------------------------ MODULE MCRecipes ------------------------------
(***************************************************************************)
(* Instances of Recipes for TLC.                                           *)
(***************************************************************************)
EXTENDS Recipes, TLC

CONSTANTS plain, rollout, rollback

\* One slug: its rollout, and its rollback.
RolloutConflicts == {<<rollout, rollback>>, <<rollback, rollout>>}
NoConflicts == {}

\* The requests users close: any, those not approved, or only pending ones.
AllStatuses    == Status
OpenOrRejected == {"pending", "rejected"}
OnlyOpen       == {"pending"}

\* Ids, users and revisions are only compared.
Symmetry == Permutations(Recipe) \cup Permutations(Revision) \cup Permutations(User)
=============================================================================
