SPECIFICATION Spec
CONSTANTS
  c1 = c1 c2 = c2 t1 = t1 t2 = t2 t3 = t3 n1 = n1 n2 = n2
  w1 = w1 w2 = w2 f1 = f1 f2 = f2 f3 = f3
  Client = {c1, c2}
  Txn = {t1, t2, t3}
  Home <- HomeTwoOne
  Frame = {f1, f2, f3}
  Worker = {w1, w2}
  Region <- Neighbours
  Name = {n1}
  AllNames = AllNames
  NoWorker = NoWorker
  NoTxn = NoTxn
  Remote = FALSE
  Dir = {FALSE, TRUE}
  PathOutcome = {TRUE}
  MayDisconnect = FALSE
INVARIANTS InodelkTxnExclusion HeldIsListed
PROPERTIES EntrylkNoOvertaking EveryRequestAnswered
CHECK_DEADLOCK FALSE
