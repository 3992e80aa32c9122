CONSTANTS
  Requests = {r1, r2}
  Handlers = {h1, h2}
  None = none
  Callers = "answered"
  MaxToggles = 0
  MaxRestarts = 0
  MaxQueries = 0
SPECIFICATION FairSpec
PROPERTIES SenderIsNotified
CHECK_DEADLOCK FALSE
