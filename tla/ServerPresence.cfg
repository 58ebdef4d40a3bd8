CONSTANTS
  Conn = {c1, c2, c3}
  SessionId = {s1, s2}
  Screen = {}
  ClientScreen = {}
  Undefined = Undefined
  MaxMs = 1
  None = None
SPECIFICATION OrderlySpec
CHECK_DEADLOCK FALSE
PROPERTIES
  PresenceImplemented
