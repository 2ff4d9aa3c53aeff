SPECIFICATION FairSpec
CONSTANTS
  MAX_TASKS = 3
  MaxPid = 5
  Signal <- LifecycleSignals
  Kills <- Kill
  WaitCalls = {"wait", "waitpid"}
  Dispositions = {}
  Masks = {}
  ExitCodes = {}
  Network = FALSE
INVARIANTS PidsUnique ParentsLive WaitersHaveLiveChild
PROPERTIES ZombieReapedByParent ReadyTasksRun WaitersReturn
