CONSTANTS
  AgentConn = {a1, a2}
  Viewer = {v1}
  SessionId = {s1}
  Screen = {desk}
  Undefined = Undefined
  Window = {}
  None = None
  Request = {None}
  MaxPolls = 0
  MaxDelay = 1
  MaxMs = 0
  MaxInFlight = 1
SPECIFICATION FairSpec
CHECK_DEADLOCK FALSE
PROPERTIES
  ConnectedAgentServed
