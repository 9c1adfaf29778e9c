\* The entry function yields in tail position.
SPECIFICATION Spec
CONSTANTS
  Threads = {t1, t2}
  Main = Main
  NoThread = NoThread
  MaxBoundaries = 1
  MaxDepth = 3
  Shapes = {"entryTail"}
PROPERTY EntryStartsOnce
CHECK_DEADLOCK FALSE
