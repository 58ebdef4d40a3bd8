CONSTANTS
  Window = {w1, w2}
  None = None
  MaxPolls = 3
  MaxDelay = 3
SPECIFICATION FairSpec
CHECK_DEADLOCK FALSE
INVARIANTS
  TypeOK
  HdlRaceFree
  FramesAnnounced
PROPERTIES
  DecidesOrExits
