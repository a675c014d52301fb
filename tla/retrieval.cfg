SPECIFICATION Spec
CONSTANTS
  Scenarios <- ScenariosDef
  ServiceList <- ServiceListDef
  Queries <- QueriesDef
  Replies <- RepliesDef
  Limits <- LimitsDef
INVARIANTS
  ClustersRank
  MetricsTold
  TracesKeepSignal
  CallsReachAll
  JoinExact
  CitationsGrounded
  BudgetsHonoured
\* The script ends, and a query is asked once.
CHECK_DEADLOCK FALSE
