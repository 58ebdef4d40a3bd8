CONSTANTS
  MaxSockets = 2
  MaxImages = 1
  MaxAsked = 2
SPECIFICATION FairSpec
CHECK_DEADLOCK FALSE
INVARIANTS
  TypeOK
  StatusTruthful
  OneLiveSocket
  DisconnectSticks
  PictureOfLiveSession
  InputOverPicture
  FullScreenAgrees
PROPERTIES
  OverlayEnds
