SPECIFICATION Spec
CONSTANTS
  d1 = d1 d2 = d2 f1 = f1 f2 = f2
  NoFd = NoFd
  NoXattr = NoXattr
  FavoriteChild <- NoFavorite
  ChildCount = 2
  Fd = {d1}
  Frame = {f1}
  BlockCount = 2
  LockServerCount = 1
  Op = {"WRITE", "FTRUNCATE", "TRUNCATE"}
  NoLocks = {}
  NoXattrop = {}
  FailAt = {"fop", "trim"}
  MayCrash = FALSE
  MaxOps = 3
  MaxDown = 1
  MaxUp = 1
  UpWhileOpen = TRUE
  MaxFaulty = 1
INVARIANTS HealSourceIsCurrent NoFalseAccusation
CHECK_DEADLOCK FALSE
