\* Three requests in one or two sessions compete for one slot and one or two
\* agents; a tool loop has up to three segments.
CONSTANTS
  Request = {r1, r2, r3}
  Session = {s1, s2}
  NoRequest = none
  Max = 1
  MaxSegments = 2
  EarlyAbort = FALSE
  TranslationThrows = FALSE
SPECIFICATION Spec
SYMMETRY Symmetric
INVARIANTS
  TypeOK
  SlotsAgree
  NoSlotLost
  NoMutexLost
  LiveRunOwns
  RegistriesAgree
  OneWorker
PROPERTIES
  SettledIsFinal
CHECK_DEADLOCK FALSE
