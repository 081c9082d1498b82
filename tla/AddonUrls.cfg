\* No deployment while the command runs: the proofs allow it.
CONSTANTS
  v1 = v1
  v2 = v2
  v3 = v3
  None = None
  LastRecipe = 2
  Revision = {v1, v2, v3}
  RecipeOf <- MCRecipeOf
  Known = {v1, v2, v3}
  Refused = {v1}
  LastHost = 1
  Beside = FALSE
SPECIFICATION FairSpec
INVARIANTS
  SignedUnlessTorn
  OnlyUsersSwitch
PROPERTIES
  OnlyUsersApprove
  UrlsMove
