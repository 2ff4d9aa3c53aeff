SPECIFICATION FairSpec
CONSTANTS
  N = 3
  Threads = {1}
  Preemptible = {3}
  Plain = {2}
  Signalled = {1, 3}
  Killed = {3}
INVARIANTS NoNullDereference MutualExclusion
PROPERTIES ImplementsLock Released
