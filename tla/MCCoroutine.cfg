\* Three coroutines, so that a chain main -> A -> B -> C exists, and two
\* library callbacks open at once beside the Go coroutines' own boundaries.
SPECIFICATION FairSpec
CONSTANTS
  Threads = {t1, t2, t3}
  Main = Main
  NoThread = NoThread
  MaxBoundaries = 2
INVARIANTS
  TypeOK
  ResumeChain
  RunningIsCurrent
  BoundaryBalanced
  StatusReported
PROPERTIES
  YieldStaysInside
  DeadForever
  ClosedUnwinds
CHECK_DEADLOCK FALSE
