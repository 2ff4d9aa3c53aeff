SPECIFICATION Spec
CONSTANTS
  MAX_TASKS = 2
  TASK_MAX_FDS = 3
  FirstFd = 1
  MaxDescriptions = 3
  MaxPipes = 1
  PIPE_BUFFER_SIZE = 1
  Byte = {0}
  MaxWrite = 1
  AllocFails = FALSE
INVARIANTS NeverHangs

