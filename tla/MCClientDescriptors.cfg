SPECIFICATION Spec
CONSTANTS
  Call = {c1}
  Fd = {f1}
  PingTimeout = FALSE
  FrameTimeout = TRUE
  Connected = TRUE
  MaxConnects = 1
PROPERTY
  StepsOfRemoteCall
INVARIANTS
  FramesAccounted
  DescriptorsTracked
  LinkWatched
