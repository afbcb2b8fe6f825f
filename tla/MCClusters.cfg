SPECIFICATION Spec
CONSTANTS
  HaKinds <- AllHaKinds
  StripeFops <- AllStripeFops
  FileFops <- AllFileFops
  r1 = r1
  r2 = r2
  c1 = c1
  c2 = c2
INVARIANTS
  FanOutSound
  LayoutsPartition
  FilesKept
PROPERTIES
  FanOutAnswered
CHECK_DEADLOCK FALSE
