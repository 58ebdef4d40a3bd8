CONSTANTS
  Window = {w1, w2}
  None = None
  MaxPolls = 3
  MaxDelay = 5
SPECIFICATION FairSpec
CHECK_DEADLOCK FALSE
PROPERTIES
  ReconnectsAfterLoss
