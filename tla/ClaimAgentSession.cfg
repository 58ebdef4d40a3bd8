CONSTANTS
  Conn = {c1, c2, c3}
  SessionId = {s1}
  Screen = {}
  ClientScreen = {}
  Undefined = Undefined
  MaxMs = 1
  None = None
SPECIFICATION Spec
SYMMETRY Symmetry
CHECK_DEADLOCK FALSE
INVARIANTS
  SessionOfAgentKept
