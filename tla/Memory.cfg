SPECIFICATION Spec
CONSTANTS
  Tasks = {1, 2}
  Frames = {1, 2, 3, 4, 5, 6, 7, 8, 9}
  Totals = {6, 9}
  HeapPages <- OnePage
  Region <- TwoTables
  TASK_MAX_USER_PAGES = 4
  MaxCalls = 5
INVARIANTS MappedIsHeld
PROPERTIES StoresArePrivate ForkCopies
CHECK_DEADLOCK FALSE
