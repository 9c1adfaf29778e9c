\* Plain programs: two coroutines, so that one resumes the other, four
\* activations each, so that a pcall has a caller and two callees.
SPECIFICATION Spec
CONSTANTS
  Threads = {t1, t2}
  Main = Main
  NoThread = NoThread
  MaxBoundaries = 1
  MaxDepth = 4
  Shapes = {}
SYMMETRY Symmetry
INVARIANTS
  TypeOK
PROPERTIES
  ImplementsStackful
CHECK_DEADLOCK FALSE
