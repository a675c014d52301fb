CONSTANTS
  r1 = r1
  r2 = r2
  s1 = s1
  Requests <- TwoRequests
  Sessions <- OneSession
  SessionOf <- SameSession
  Enabled <- OnlyLogs
  FallbackRoute = "out_of_scope"
  MaxRetries = 0
  Cap = 0
  MaxCost = 0
  MaxCritique = 0
  PlannerLLM = FALSE
  HasBudget = TRUE
  MaxTokens = 0
  MaxMessages = 1
SPECIFICATION Spec
CHECK_DEADLOCK FALSE
INVARIANTS
  HistoryWasAnswered
  SerialTurnsKept
