SPECIFICATION FairSpec
CONSTANTS
  stream = stream
  resolver = resolver
  activity = activity
  egress = egress
  queryTimeout = queryTimeout
  Runnable = {stream, resolver}
  Timer = {activity, egress, queryTimeout}
  Owner <- MCOwner
  Timeout <- MCTimeout
  Horizon = 4
  MaxTime = 9
CHECK_DEADLOCK FALSE
INVARIANTS
  TypeOK
  TablesAgree
  ArmedIsEarliest
  NoLostExpiry
  NeverLate
PROPERTIES
  ImplementsService
  OverdueFires
