CONSTANTS
  logs = logs
  errors = errors
  rogue = rogue
  fetch1 = fetch1
  fetch2 = fetch2
  escape = escape
  select = select
  logsAgent = logsAgent
  traceAgent = traceAgent
  Tasks <- FourTasks
  Job <- Jobs
  Names <- ThreeNames
  Catalogs <- TwoCatalogs
  Allowed <- PinnedNames
  Pinned = TRUE
  Agents <- TwoAgents
  Owner <- Owners
  Pipelined <- OneLogsAgent
  Budgeted <- OneLogsAgent
SPECIFICATION FairAgentSpec
INVARIANTS
  NoOrphans
  EvidenceIsRecorded
PROPERTIES
  KeepsPhases
  AgentEnds
