CONSTANTS
  Buttons = {"left", "right", "X1"}
  Keys = {"ShiftLeft", "Soft1", "ArrowUp", "Numpad8"}
  Points <- MCPoints
  Boxes <- MCBoxes
  Picture <- MCPicture
  Primary <- MCPrimary
  MaxHeld = 2
  MaxQueue = 2
  None = None
SPECIFICATION MCSpec
CHECK_DEADLOCK FALSE
INVARIANTS
  TypeOK
  ButtonsTracked
  KeysTracked
  PointerFollows
PROPERTIES
  PressesLand
