SPECIFICATION Spec
CONSTANTS
  MAX_TASKS = 3
  TASK_MAX_FDS = 2
  FirstFd = 0
  MaxDescriptions = 2
  MaxPipes = 1
  PIPE_BUFFER_SIZE = 2
  Byte = {0, 1}
  MaxWrite = 2
  AllocFails = TRUE
INVARIANTS RefCountsExact PipeLivesWithItsEnds SleepersHaveCause
PROPERTIES LastCloseFreesPipe ImplementsFifo
CHECK_DEADLOCK FALSE
