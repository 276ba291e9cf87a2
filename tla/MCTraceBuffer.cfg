CONSTANTS
  Threads = {t1, t2, t3}
  VMThread = vm
  NoThread = NoThread
  NoRecord = NoRecord
  maxRecords = 2
  MaxAdds = 2
  DeathCounts = {0, 8, 9}
  MayShutDown = TRUE
SPECIFICATION Spec
SYMMETRY Symmetry
INVARIANTS
  TypeOK
  NothingLost
  BatchesWhole
  CountIsExact
  OneCollector
  CopyFits
PROPERTY SlotsWrittenOnce
\* the program may stop at any time: it adds no more records, or aborts
CHECK_DEADLOCK FALSE
