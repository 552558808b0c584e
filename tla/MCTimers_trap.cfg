SPECIFICATION Spec
CONSTANTS
  stream = stream
  resolver = resolver
  activity = activity
  egress = egress
  queryTimeout = queryTimeout
  Runnable = {stream, resolver}
  Timer = {activity, egress, queryTimeout}
  Owner <- MCOwner
  Timeout <- MCTimeout
  Horizon = 3
  MaxTime = 6
CHECK_DEADLOCK FALSE
INVARIANT
  NeverTrapped
