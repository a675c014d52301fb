SPECIFICATION Spec
CONSTANTS
  Scenarios <- AskingDef
  ServiceList <- ServiceListDef
  Queries <- QueriesDef
  Replies <- RepliesDef
  Limits <- LimitsDef
INVARIANT ExamplesCitable
CHECK_DEADLOCK FALSE
