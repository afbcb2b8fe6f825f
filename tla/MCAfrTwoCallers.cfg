SPECIFICATION FairSpec
CONSTANTS
  d1 = d1 d2 = d2 f1 = f1 f2 = f2
  NoFd = NoFd
  NoXattr = NoXattr
  FavoriteChild <- NoFavorite
  ChildCount = 2
  Fd = {d1}
  Frame = {f1, f2}
  BlockCount = 1
  LockServerCount = 2
  Op = {"WRITE"}
  NoLocks = {}
  NoXattrop = {}
  FailAt = {"fop"}
  MayCrash = TRUE
  MaxOps = 2
  MaxDown = 2
  MaxUp = 1
  UpWhileOpen = FALSE
  MaxFaulty = 1
INVARIANTS DivergenceRecorded CopiesAccounted NoConcurrentFops
PROPERTY EveryCallEnds
CHECK_DEADLOCK FALSE
