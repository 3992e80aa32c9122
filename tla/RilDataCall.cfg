CONSTANTS
  Requests = {r1, r2}
  Handlers = {h1, h2}
  None = none
  Callers = "anytime"
  MaxToggles = 0
  MaxRestarts = 0
  MaxQueries = 0
SPECIFICATION Spec
PROPERTIES SentWithoutDataCall
CHECK_DEADLOCK FALSE
