SPECIFICATION Spec
CONSTANTS
  t1 = t1
  t2 = t2
  t3 = t3
  Threads = {t1, t2, t3}
  Scanners = {t1}
  A = A
  B = B
  U = U
  Object = Object
  Class = Class
  Classes = {Object, Class, A, B, U}
  NoClass = NoClass
  Super <- MCSuper
  Fields <- MCFields
  Static <- MCStatic
  Accesses <- MCAccesses
  Untold = {Object, U}
  SYNTHETIC_ID_BASE = 100
INVARIANTS TypeOK SlotsRight RepliesMatch
PROPERTY TasksEnd
CHECK_DEADLOCK FALSE
