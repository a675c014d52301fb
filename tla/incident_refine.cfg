CONSTANTS
  t1 = t1
  t2 = t2
  s1 = s1
  s2 = s2
  Traces <- TwoTraces
  Services <- TwoServices
  Budgets <- PlannerBudgets
  FanOutCap = 1
  DrillCap = 2
  MaxIterations = 2
  CritiqueOn = TRUE
  MaxCritique = 1
  Validating = FALSE
  RecursionLimit = 25
SPECIFICATION Spec
CHECK_DEADLOCK FALSE
INVARIANT NoLogsRefines
