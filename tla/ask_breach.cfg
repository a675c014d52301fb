CONSTANTS
  r1 = r1
  r2 = r2
  s1 = s1
  Requests <- OneRequest
  Sessions <- OneSession
  SessionOf <- SameSession
  Enabled <- OnlyLogs
  FallbackRoute = "out_of_scope"
  MaxRetries = 1
  Cap = 1
  MaxCost = 2
  MaxCritique = 0
  PlannerLLM = FALSE
  HasBudget = TRUE
  MaxTokens = 0
  MaxMessages = 2
SPECIFICATION Spec
CHECK_DEADLOCK FALSE
INVARIANT BreachEndsInError
