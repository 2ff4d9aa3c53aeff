SPECIFICATION Spec
CONSTANTS
  MAX_TASKS = 3
  MaxPid = 3
  Signal <- JobSignals
  Kills <- JobKills
  WaitCalls = {"waitpid"}
  Dispositions <- ContinueCaught
  Masks <- MaskInt
  ExitCodes = {}
  Network = FALSE
INVARIANTS StoppedHoldsNoContinue
PROPERTIES BlockedSignalsDoNotKill
