SPECIFICATION SessionsSpec
CONSTANTS
  c1 = c1
  c2 = c2
  Clients = {c1, c2}
  i1 = i1
  i2 = i2
  Images = {i1, i2}
  Modes = {"auto", "explicit", "newOnly", "resume", "responses", "named"}
  MaxRequests = 2
  MaxEvictions = 1
  MaxCached = 2
SYMMETRY Symmetry
\* Clients stop after MaxRequests requests.
CHECK_DEADLOCK FALSE
INVARIANTS TypeOK SerialTurns OnlyMixupsWithhold
