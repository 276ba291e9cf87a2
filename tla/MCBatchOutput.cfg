CONSTANTS
  MaxRecords = 4
  MaxTime = 1
  Kinds <- KindsHere
  WantedLetters <- WantedHere
SPECIFICATION Spec
INVARIANTS TraceInOrder CountsConserved
\* one batch is written
CHECK_DEADLOCK FALSE
