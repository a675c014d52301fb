CONSTANTS
  logs = logs
  errors = errors
  metrics = metrics
  rogue = rogue
  caller = caller
  react1 = react1
  react2 = react2
  Tasks <- ThreeTasks
  Job <- Jobs
  Names <- FourNames
  Catalogs <- FourCatalogs
  Allowed <- PinnedNames
  Pinned = TRUE
SPECIFICATION FairSpec
INVARIANTS
  TypeOK
  CatalogChecked
  OnlyAllowedUsed
  TopkContract
  RecordsMatchAnswers
PROPERTY UseEnds
