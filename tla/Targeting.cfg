CONSTANTS
  None = None
  Client <- Clients
  Object <- Objects
  FilterLists <- Lists
  Raw <- RawTexts
  OldColumns <- Columns
  Capability = {"env.version", "versionCompare", "preferenceExists", "preferenceIsUserSet", "preferenceValue", "bucketSample", "keys"}
  Baseline = {"slugged", "other", "preferenceExists", "preferenceIsUserSet", "preferenceValue", "bucketSample", "keys"}
SPECIFICATION Spec
INVARIANTS
  TypeOK
  NeverUnfiltered
  EveryPartRequired
  MatchesAsDocumented
  OldClientsSpared
