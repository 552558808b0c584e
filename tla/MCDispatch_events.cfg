SPECIFICATION FairSpec
CONSTANTS
  s1 = s1
  s2 = s2
  w1 = w1
  w2 = w2
  ep = ep
  Sock = {s1, s2}
  First = {s1}
  Fallible = {s1, s2}
  Worker = {w1, w2}
  Epoll = ep
  EventsPerRun = 128
  MaxArrivals = 1
  MaxCalls = 1
  MaxChunks = 2
CHECK_DEADLOCK FALSE
INVARIANTS
  TypeOK
  PermitPerEvent
  NoLostReadiness
  TriggerNotLost
PROPERTIES
  InputHandled
  FailedRemoved
