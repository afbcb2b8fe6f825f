SPECIFICATION Spec
CONSTANTS
  ServerFopsAll <- AllServerFops
  ServerFopsTwo <- TwoServerFops
  ServerFopsThree <- ThreeServerFops
  r1 = r1
  r2 = r2
  i1 = i1
  NoInode = NoInode
  t1 = t1
  t2 = t2
  c1 = c1
  c2 = c2
  q1 = q1
  q2 = q2
  f1 = f1
  f2 = f2
INVARIANTS
  NothingLeaks
  ServedTruly
PROPERTIES
  StepsTakeBack
  EverythingSettles
CHECK_DEADLOCK FALSE
