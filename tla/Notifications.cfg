CONSTANTS
  Txns = {t1, t2}
  Keys = {k1}
  MaxAttempts = 2
  MaxRetries = 1
  MaxLost = 1
SPECIFICATION FairSpec
INVARIANTS
  RowsAreSound
  PostedIsCommitted
  PostedOnce
PROPERTIES
  TasksEnd
CHECK_DEADLOCK FALSE
