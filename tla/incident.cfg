CONSTANTS
  t1 = t1
  t2 = t2
  s1 = s1
  s2 = s2
  Traces <- TwoTraces
  Services <- TwoServices
  Budgets <- PlannerBudgets
  FanOutCap = 1
  DrillCap = 2
  MaxIterations = 8
  CritiqueOn = TRUE
  MaxCritique = 2
  Validating = FALSE
  RecursionLimit = 25
SPECIFICATION FairSpec
CHECK_DEADLOCK FALSE
INVARIANTS
  TypeOK
  WithinRecursionLimit
  BudgetsWithinSchema
  DrillDownComplete
  CritiqueAuditsLatest
PROPERTIES
  KeepsContract
  InvestigationEnds
