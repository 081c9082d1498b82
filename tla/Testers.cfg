CONSTANTS
  None = None
  Client <- Clients
  Object <- Testers
  FilterLists <- OneFilter
  Raw <- RawTexts
  OldColumns <- NoColumns
  Capability = {"env.version", "versionCompare", "preferenceExists", "preferenceIsUserSet", "preferenceValue", "bucketSample", "keys"}
  Baseline = {"slugged", "other", "preferenceExists", "preferenceIsUserSet", "preferenceValue", "bucketSample", "keys"}
SPECIFICATION Spec
INVARIANT ClientsAsDocumented
