\* One directory and one file, two processes with two descriptors each.
CONSTANTS
  Names = {"a", "d"}
  MaxNodes = 5
  MaxDescs = 3
  Procs = {1, 2}
  TASK_MAX_FDS = 2
  MAX_COMPONENTS = 3
  RawPaths <- SomePaths
  Trees <- BootTree
  MaxCalls = 5
SPECIFICATION Spec
INVARIANTS RefsCountOpens EntriesLive ExclusiveIsExclusive ResolveAgrees
CHECK_DEADLOCK FALSE
