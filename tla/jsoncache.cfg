CONSTANTS
  a = a
  b = b
  c = c
  d = d
  logs = logs
  traces = traces
  nobody = nobody
  Readers <- FourReaders
  Files <- TwoFiles
  Want <- Wanted
  Nobody <- nobody
  MaxClears = 1
SPECIFICATION FairSpec
CHECK_DEADLOCK FALSE
INVARIANTS
  TypeOK
  LockMatchesReader
PROPERTIES
  KeepsReadOnce
  LoadEnds
