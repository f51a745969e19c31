\* Two requests of one session, with a slot each.
CONSTANTS
  Request = {r1, r2}
  Session = {s1}
  NoRequest = none
  Max = 2
  MaxSegments = 1
  EarlyAbort = FALSE
  TranslationThrows = FALSE
SPECIFICATION Spec
PROPERTIES
  NoSendToBusyAgent
CHECK_DEADLOCK FALSE
