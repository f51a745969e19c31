\* One request whose messages or tools cannot be translated, and one more.
CONSTANTS
  Request = {r1, r2}
  Session = {s1}
  NoRequest = none
  Max = 1
  MaxSegments = 1
  EarlyAbort = FALSE
  TranslationThrows = TRUE
SPECIFICATION Spec
INVARIANTS
  SlotReleasedOnError
CHECK_DEADLOCK FALSE
