CONSTANTS
  Conn = {c1, c2, c3}
  SessionId = {s1, s2}
  Screen <- MCScreens
  ClientScreen <- MCScreens
  Undefined = Undefined
  MaxMs = 1
  None = None
SPECIFICATION Spec
SYMMETRY Symmetry
CHECK_DEADLOCK FALSE
INVARIANTS
  TypeOK
  RelayToSameSession
  ScaleCurrent
  ScaleFitsWindow
