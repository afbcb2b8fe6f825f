SPECIFICATION Spec
CONSTANTS
  FopTable <- AllAfrFops
  h1 = h1
  h2 = h2
  f1 = f1
  f2 = f2
  d1 = d1
  NoFd = NoFd
  NoXattr = NoXattr
INVARIANTS
  HealKeepsLatest
  FopsAccounted
  EveryoneReleased
PROPERTIES
  RemovesOnlyDead
SYMMETRY Alike
CHECK_DEADLOCK FALSE
