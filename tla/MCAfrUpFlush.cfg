SPECIFICATION Spec
CONSTANTS
  d1 = d1 d2 = d2 f1 = f1 f2 = f2
  NoFd = NoFd
  NoXattr = NoXattr
  FavoriteChild <- NoFavorite
  ChildCount = 2
  Fd = {d1}
  Frame = {f1}
  BlockCount = 1
  LockServerCount = 1
  Op = {"WRITE"}
  NoLocks = {}
  NoXattrop = {}
  FailAt = {}
  MayCrash = FALSE
  MaxOps = 2
  MaxDown = 1
  MaxUp = 1
  UpWhileOpen = TRUE
  MaxFaulty = 1
INVARIANT DivergenceRecorded
CHECK_DEADLOCK FALSE
