CONSTANTS
  Threads = {t1, t2}
  VMThread = vm
  NoThread = NoThread
  NoRecord = NoRecord
  maxRecords = 1
  MaxAdds = 3
  DeathCounts = {0}
  MayShutDown = FALSE
SPECIFICATION Spec
INVARIANT CollectionsDoNotOverlap
\* the program may stop at any time
CHECK_DEADLOCK FALSE
