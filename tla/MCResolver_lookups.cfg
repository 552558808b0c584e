SPECIFICATION FairSpec
CONSTANTS
  c1 = c1
  c2 = c2
  n1 = n1
  n2 = n2
  Client = {c1, c2}
  Name = {n1}
  Prefs = {"any", "v4"}
CHECK_DEADLOCK FALSE
INVARIANTS
  TypeOK
  AnswersAreAwaited
  NoStrandedQuery
  NoLeakedSocket
PROPERTIES
  ImplementsLookups
  LookupEnds
