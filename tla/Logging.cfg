SPECIFICATION LoggingSpec
CONSTANTS
  t1 = t1
  t2 = t2
  t3 = t3
  Budget = 6
  NoThread = NoThread
  NoMessage = NoMessage
  Threads = {t1, t2, t3}
  Capacity = 2
  MaxRecords = 3
  MaxInstances = 2
  ThroughEntry = TRUE
  SpawnMayFail = TRUE
  Writers = {w1, w2}
  w1 = w1
  w2 = w2
  MaxStarts = 2
  PromptStart = TRUE
CHECK_DEADLOCK FALSE
INVARIANTS LogsTypeOK FileLogKept RingKept
PROPERTY LogsProgress
