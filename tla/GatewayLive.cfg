\* As Gateway.cfg, with at most one batch of tool calls for each run.
CONSTANTS
  Request = {r1, r2, r3}
  Session = {s1, s2}
  NoRequest = none
  Max = 1
  MaxSegments = 1
  EarlyAbort = FALSE
  TranslationThrows = FALSE
SPECIFICATION LiveSpec
PROPERTIES
  EveryRequestAnswered
  EverySlotReturns
CHECK_DEADLOCK FALSE
