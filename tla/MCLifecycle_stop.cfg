SPECIFICATION FairSpec
CONSTANTS
  s1 = s1
  w1 = w1
  w2 = w2
  main = main
  Sock = {s1}
  Worker = {w1, w2}
  Main = main
  Garbage = {FALSE}
  MaxQueue = 2
  MaxSem = 4
  MaxWork = 3
CHECK_DEADLOCK FALSE
INVARIANTS
  TypeOK
  ExitMeansStop
  StoppedWorkersHaveExited
PROPERTY
  StopCompletes
