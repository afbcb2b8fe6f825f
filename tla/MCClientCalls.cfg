SPECIFICATION Spec
CONSTANTS
  Call = {c1}
  Fd = {}
  PingTimeout = TRUE
  FrameTimeout = FALSE
  Connected = FALSE
  MaxConnects = 1
PROPERTY
  ImplementsRemoteCall
