CONSTANTS
  Tags = {o1, o2, o3}
  Times = {1, 2, 3, 4}
  Leftovers <- AllObjects
  INT_MAX = 3
SPECIFICATION FairSpec
INVARIANTS
  TypeOK
  DeathTimesRight
  LatestOnTop
  LiveStampsKept
PROPERTIES
  CompletedIsFinal
  Terminates
\* the algorithm ends
CHECK_DEADLOCK FALSE
