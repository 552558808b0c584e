SPECIFICATION Spec
CONSTANTS
  c1 = c1
  c2 = c2
  n1 = n1
  n2 = n2
  Client = {c1, c2}
  Name = {n1, n2}
  Prefs = {"any", "v4"}
CHECK_DEADLOCK FALSE
SYMMETRY Symmetry
INVARIANT
  RemovedOnce
