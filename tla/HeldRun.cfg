\* Three tool calls: two in one batch and one that comes late, or three batches;
\* two stream messages: one before and one after a batch.
CONSTANTS
  Call = {k1, k2, k3}
  MaxMessages = 2
  EarlyAbort = FALSE
SPECIFICATION Spec
INVARIANTS
  TypeOK
  DeliveredInOrder
  FinalIsComplete
  RegistryAgrees
  OwnedWhileAlive
  ReleasedOnce
  GateSound
  CallsSurfacedOnce
PROPERTIES
  PendingCallResolved
  ImplementsToolLoop
CHECK_DEADLOCK FALSE
