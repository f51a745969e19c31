SPECIFICATION ControlSpec
CONSTANTS
  Slots = {page1, page2, cli}
  PageSlots = {page1, page2}
  k1 = k1
  k2 = k2
  a = a
  Keys = {k1, k2}
  Models = {1, 2}
  ApiKey = a
  MaxPort = 2
  NoKey = NoKey
  MaxEvents = 4
  Envs <- MCEnvs
  File <- MCFile
INVARIANTS ListenerMatchesConfig Recoverable PageKeyAgrees PageFindsGateway
CHECK_DEADLOCK FALSE
