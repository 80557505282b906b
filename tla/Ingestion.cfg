CONSTANTS
  c1 = c1
  c2 = c2
  long_id = long_id
  Ids = {c1, c2, long_id}
  LongIds = {long_id}
  Rows <- MCRows
  Sources <- MCSources
  MaxRetries = 2
  MaxBytes = 2
  MaxChunk = 2
  MaxRows = 3
  MaxRuns = 2
SPECIFICATION FairSpec
INVARIANTS
  TypeOK
  RowsAccounted
  EndIsAudited
PROPERTIES
  RunsEnd
CHECK_DEADLOCK FALSE
