SPECIFICATION Spec
CONSTANTS
  o1 = o1
  o2 = o2
  Objects = {o1, o2}
  Null = Null
  Prim = Prim
  Modes = {FALSE}
  Methods <- MCMethods
  MaxStack = 6
  MaxVn = 6
  MaxPending = 3
  MaxVisits = 5
  HEAP_BITS_SMALL = 1
  INST_BITS_SMALL = 1
INVARIANT UsesCoveredOnAllPaths
SYMMETRY Symmetry
CHECK_DEADLOCK FALSE
