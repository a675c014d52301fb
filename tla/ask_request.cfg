CONSTANTS
  r1 = r1
  r2 = r2
  s1 = s1
  Requests <- OneRequest
  Sessions <- OneSession
  SessionOf <- SameSession
  Enabled <- NoTraces
  FallbackRoute = "logs"
  MaxRetries = 2
  Cap = 2
  MaxCost = 3
  MaxCritique = 2
  PlannerLLM = TRUE
  HasBudget = TRUE
  MaxTokens = 2
  MaxMessages = 2
SPECIFICATION FairSpec
CHECK_DEADLOCK FALSE
INVARIANTS
  TypeOK
  FramesInOrder
  RowsTellTheStream
  SpendBounded
  SynthesisWithinCap
  LostOnlyAtYield
PROPERTIES
  LateSpendOnlyIfAbandoned
  KeepsScope
  EveryRequestEnds
