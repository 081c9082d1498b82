\* An action and a recipe, two keys: signatures grow old, the network fails.
CONSTANTS
  Action = {a1}
  Recipe = {r1}
  Code = {c1, c2}
  Schema = {s1}
  Url = {u1, u2}
  u1 = u1
  u2 = u2
  None = None
  AutographConfigured = TRUE
  KeyAt <- Keys
  Expiry <- Ends
  MaxAge = 1
  Period = 1
  ExpireEarly = 1
  LastDay = 4
SPECIFICATION FairSpec
INVARIANTS
  TypeOK
  SignedAsStored
  ServedIsHashed
  ServedVerifies
PROPERTIES
  OutageEnds
