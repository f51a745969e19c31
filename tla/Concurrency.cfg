\* Four mutex calls in every order of acquire and release; four clients for two
\* slots, so that two of them queue.
CONSTANTS
  MaxTickets = 4
  Client = {c1, c2, c3, c4}
  Max = 2
SPECIFICATION Primitives
INVARIANTS
  PrimitivesTypeOK
  MutualExclusion
  SemaphoreSound
PROPERTIES
  ImplementsFifoResource
  SemaphoreIsFifo
  SemaphoreServes
CHECK_DEADLOCK FALSE
