CONSTANTS
  Requests = {r1, r2}
  Handlers = {h1, h2}
  None = none
  Callers = "settled"
  MaxToggles = 0
  MaxRestarts = 1
  MaxQueries = 1
SPECIFICATION FairSpec
 
PROPERTIES SenderIsNotified DataComesBack
CHECK_DEADLOCK FALSE
