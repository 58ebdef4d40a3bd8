CONSTANTS
  Sizes <- MCSizes
  Jpegs <- MCJpegs
  Window = Window
  NULL = NULL
SPECIFICATION Spec
CHECK_DEADLOCK FALSE
INVARIANTS
  TypeOK
  NothingHeld
  BufferLayout
  OnlyWhatIsSelected
  EncodedCorrectly
