CONSTANTS
  Requests = {r1, r2}
  Handlers = {h1, h2}
  None = none
  Callers = "anytime"
  MaxToggles = 1
  MaxRestarts = 0
  MaxQueries = 1
SPECIFICATION FairSpec
INVARIANTS NeverSendsUnset WakeUpIsPending
PROPERTIES NobodyListensForever
CHECK_DEADLOCK FALSE
