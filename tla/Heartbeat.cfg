CONSTANTS
  Conn = {c1, c2, c3}
  SessionId = {s1}
  Screen = {}
  ClientScreen = {}
  Undefined = Undefined
  MaxMs = 1
  Agents = {c1, c2}
  None = None
SPECIFICATION SilentSpec
CHECK_DEADLOCK FALSE
INVARIANTS
  HTypeOK
  VanishedPeerDropped
PROPERTIES
  OnlySilentPeersDropped
  AbandonedSessionRemoved
  VanishedAgentAnnounced
