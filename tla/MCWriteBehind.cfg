\* One file, one thread with calls and one with replies. Calls stop after
\* MaxCalls, so a behaviour may end.
CONSTANTS
  CallThread = {c1}
  ReplyThread = {r1}
  window_size = 1
  page_size = 2
  disable_for_first_nbytes = 1
  enable_trickling_writes = TRUE
  MAX_VECTOR_COUNT = 8
  WriteOffset = {0, 1}
  WriteSize = {1}
  Settings <- GatheredOrNot
  MaxCalls = 3
  MaxFailures = 1
SPECIFICATION Spec
CHECK_DEADLOCK FALSE
INVARIANTS
  CountersMatchQueue
  OthersSeeEarlierWrites
  AnsweredOnce
PROPERTIES
  SyncCoversWrites
  EveryCallAnswered
