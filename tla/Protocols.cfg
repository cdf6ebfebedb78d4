SPECIFICATION FairSpec
CHECK_DEADLOCK FALSE
CONSTANTS
  custom = custom
  file = file
  r1 = r1
  Schemes <- MCSchemes
  BuiltIn <- MCBuiltIn
  Requests <- MCRequests
  NetOnly = {}
  MaxTasks = 4
INVARIANTS MapsAgree TasksSucceed FallbackAlive
PROPERTY RequestsAnswered
