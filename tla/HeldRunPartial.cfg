\* Three calls: two of one batch, of which the client answers one, and a later
\* one.
CONSTANTS
  Call = {k1, k2, k3}
  MaxMessages = 1
  EarlyAbort = FALSE
SPECIFICATION Spec
INVARIANTS
  OwnedCallIsFound
CHECK_DEADLOCK FALSE
