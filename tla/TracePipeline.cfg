CONSTANTS
  Threads = {t1, t2}
  VMThread = vm
  NoThread = NoThread
  NoRecord = NoRecord
  NoBatch = NoBatch
  maxRecords = 1
  MaxAdds = 2
  DeathCounts = {0}
  MayShutDown = TRUE
SPECIFICATION FairPipelineSpec
INVARIANTS RecordsAccountedFor WrittenOnce
PROPERTIES ImplementsMailbox BatchGetsWritten AddsReturn
\* the program may stop at any time
CHECK_DEADLOCK FALSE
