SPECIFICATION Spec
CONSTANTS
  w1 = w1
  w2 = w2
  Worker = {w1, w2}
  Limited = {FALSE, TRUE}
  Buffer = 1
  MaxBytes = 2
  MaxInput = 1
CHECK_DEADLOCK FALSE
SYMMETRY Symmetry
INVARIANTS
  TypeOK
  AssertionsHold
  PacedWrites
  QueuedIsRemembered
PROPERTY
  ImplementsPipe
