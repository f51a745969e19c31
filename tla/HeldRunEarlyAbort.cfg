\* The client is gone before agent.send() has returned.
CONSTANTS
  Call = {k1, k2}
  MaxMessages = 1
  EarlyAbort = TRUE
SPECIFICATION Spec
INVARIANTS
  ReleasedAtTheEnd
CHECK_DEADLOCK FALSE
