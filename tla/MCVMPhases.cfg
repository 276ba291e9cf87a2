SPECIFICATION Spec
CONSTANTS
  A = A
  B = B
  U = U
  I = I
  b1 = b1
  u1 = u1
  arr = arr
  new = new
  t1 = t1
  t2 = t2
  Threads = {t1, t2}
  Classes = {A, B, U, I}
  Objects = {b1, u1, arr, new}
  Null = Null
  Super <- MCSuper
  Interfaces <- MCInterfaces
  ClassOf <- MCClassOf
  Length <- MCLength
  HasField = {A, B, U}
  HasStatic = {A, B, U, I}
  Told = {A, B, I}
  FirstStatic <- MCFirstStatic
  InitialHeaps <- MCInitialHeaps
  MaxOps = 2
INVARIANTS TypeOK ShadowRight TracedOnce
SYMMETRY Symmetry
CHECK_DEADLOCK FALSE
