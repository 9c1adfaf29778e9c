\* A coroutine resumed by another one yields inside pcall, or pcall calls yield.
SPECIFICATION Spec
CONSTANTS
  Threads = {t1, t2}
  Main = Main
  NoThread = NoThread
  MaxBoundaries = 1
  MaxDepth = 3
  Shapes = {"nested", "direct"}
PROPERTY ProtectedCallKept
CHECK_DEADLOCK FALSE
