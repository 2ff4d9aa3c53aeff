CONSTANTS
  SeqSpace = 16
  TCP_DEFAULT_MSS = 2
  MAX_WINDOW = 7
  TCP_MAX_SYN_RETRIES = 1
  TCP_MAX_DATA_RETRIES = 1
  TCP_MAX_PERSIST_PROBES = 1
  ClientIss = 13
  ServerIss = 5
  Plans <- StreamPlans
SPECIFICATION Spec
INVARIANTS ReadsAreTheStream EofAfterAllData QueuesTileTheStream DrainedPcbLives SleeperHasReason
CHECK_DEADLOCK FALSE
