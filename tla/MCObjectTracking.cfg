CONSTANTS
  t1 = t1
  t2 = t2
  Threads = {t1, t2}
  Objects = {o1, o2, shared}
  Arrays = {shared}
  Shared = shared
  Null = Null
  MaxTag = 3
  Programs <- MCPrograms
  maxRecords = 1
SPECIFICATION Spec
SYMMETRY Symmetry
INVARIANTS TypeOK TaggedIsTracked AllocatedOnce DeathsTrue DiesOnce DeadAreReported ShadowMatchesHeap
PROPERTY OneTag
\* the program may stop at any time
CHECK_DEADLOCK FALSE
