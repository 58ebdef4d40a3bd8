CONSTANTS
  AgentConn = {a1, a2}
  Viewer = {v1, v2}
  SessionId = {s1}
  Screen = {desk}
  Undefined = Undefined
  Window = {}
  None = None
  Request = {None, s1}
  MaxPolls = 0
  MaxDelay = 1
  MaxMs = 1
  MaxInFlight = 1
SPECIFICATION Spec
CHECK_DEADLOCK FALSE
INVARIANTS
  FramesHaveSize
PROPERTIES
  ViewersLearnOfExit
