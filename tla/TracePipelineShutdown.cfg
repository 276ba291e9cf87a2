CONSTANTS
  Threads = {t1, t2}
  VMThread = vm
  NoThread = NoThread
  NoRecord = NoRecord
  NoBatch = NoBatch
  maxRecords = 1
  MaxAdds = 3
  DeathCounts = {0}
  MayShutDown = TRUE
SPECIFICATION PipelineSpec
INVARIANT ShutdownFlushes
\* the program may stop at any time
CHECK_DEADLOCK FALSE
