SPECIFICATION FairSpec
CONSTANTS
  MaxChunks = 4
  MaxRemotes = 2
  MaxReplies = 1
  Requests <- MCRequests
  HostLines <- MCHostLines
  Fields <- MCFields
  Bodies <- MCBodies
  MaxText = 7
CHECK_DEADLOCK FALSE
INVARIANTS
  TypeOK
  RelayedInOrder
  NothingStranded
  OneRemoteConnects
  WholeHeaderIsRead
PROPERTY
  FailureDisconnects
