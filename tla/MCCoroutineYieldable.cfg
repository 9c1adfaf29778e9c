\* Two coroutines and one Go callback: enough for a body resumed from inside
\* a callback.  The State-wide depth denies it the yield.
SPECIFICATION Spec
CONSTANTS
  Threads = {t1, t2}
  Main = Main
  NoThread = NoThread
  MaxBoundaries = 1
SYMMETRY Symmetry
INVARIANT OwnBodyYieldable
CHECK_DEADLOCK FALSE
