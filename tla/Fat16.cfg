SPECIFICATION Spec
CONSTANTS
  nameA = nameA
  nameB = nameB
  Names = {nameA, nameB}
  Zero = Zero
  MaxCluster = 4
  CLUSTER_SIZE = 2
  DIR_ENTRIES = 4
  MaxLen = 3
  Writes <- SomeWrites
  Lengths = {0, 1, 3}
  Nodes <- ThreeNodes
  BinNodes <- TwoMore
  MaxCalls = 4
  Volumes <- SomeVolumes
INVARIANTS ChainsDisjoint TreeIsOnDisk
PROPERTIES ImplementsFileStore OnlyUnrecordedIsLost
CHECK_DEADLOCK FALSE
