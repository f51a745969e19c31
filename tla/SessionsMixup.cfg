SPECIFICATION Spec
CONSTANTS
  c1 = c1
  c2 = c2
  Clients = {c1, c2}
  i1 = i1
  Images = {i1}
  Modes = {"auto", "explicit", "newOnly", "resume", "responses", "named"}
  MaxRequests = 2
  MaxEvictions = 1
  MaxCached = 2
\* Clients stop after MaxRequests requests.
CHECK_DEADLOCK FALSE
INVARIANT NothingIsWithheld
