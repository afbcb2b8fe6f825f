SPECIFICATION Spec
CONSTANTS
  SpFops <- AllSpFops
  q1 = q1
  q2 = q2
  f1 = f1
  f2 = f2
  p1 = p1
  p2 = p2
INVARIANTS
  NamesResolved
  RacesHarmless
  RangesHeld
  CacheHonest
SYMMETRY Alike
CHECK_DEADLOCK FALSE
