CONSTANTS
  Requests = {r1}
  Handlers = {h1, h2}
  None = none
  Callers = "settled"
  MaxToggles = 0
  MaxRestarts = 0
  MaxQueries = 1
SPECIFICATION Spec
INVARIANTS RemembersWhatWasSent
CHECK_DEADLOCK FALSE
