SPECIFICATION FairSpec
CONSTANTS
  Asked <- MCAsked
  Prefs = {"any", "v4"}
  FirstRequest = 258
CHECK_DEADLOCK FALSE
INVARIANTS
  TypeOK
  UnderstoodAsAsked
  HeardAsAnswered
  AnswerFindsClient
PROPERTIES
  ResolveReturns
  ImplementsResolver
