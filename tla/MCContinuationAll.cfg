\* Every program shape: what holds even when a continuation was lost or saved
\* for the wrong coroutine.
SPECIFICATION Spec
CONSTANTS
  Threads = {t1, t2}
  Main = Main
  NoThread = NoThread
  MaxBoundaries = 1
  MaxDepth = 3
  Shapes = {"nested", "direct", "entryTail", "deepError"}
SYMMETRY Symmetry
CONSTRAINT ShortChains
INVARIANTS
  MapsAgree
PROPERTY ImplementsCoroutine
CHECK_DEADLOCK FALSE
