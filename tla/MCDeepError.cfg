\* A function called below pcall fails after a resume.
SPECIFICATION Spec
CONSTANTS
  Threads = {t1, t2}
  Main = Main
  NoThread = NoThread
  MaxBoundaries = 1
  MaxDepth = 4
  Shapes = {"deepError"}
PROPERTY ErrorReachesProtected
CHECK_DEADLOCK FALSE
