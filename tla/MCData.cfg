\* A table of three keys and a name under four writes; or four tables with
\* finalizers and four operations of the program: enough for a finalizer that
\* registers a table in the collection after a failed one.  A collection may run
\* inside a finalizer of another.  Or a loop of one super-instruction in four-bit
\* integers.
SPECIFICATION DataSpec
CONSTANTS
  MaxArray = 2
  MaxWrites = 4
  MaxKey = 3
  OtherKeys = {name, object}
  Name = name
  Integer = integer
  Object = object
  Nil = nil
  ConstNames = {1}
  Unknown = unknown
  MaxObjects = 4
  None = none
  Plain = plain
  MaxWork = 4
  MaxDepth = 2
  Half = 8
  Interval = 16
  Countdowns = {0, 6}
  Checks = {0, 1, 2, 9}
  Captured = {5}
  Bodies <- TheBodies
  Ranges <- TheRanges
  Frames <- TheFrames
INVARIANTS
  TableTypeOK
  SearchFindsBorder
  CachesCurrent
  TypeOK
  CalledOnce
  PanicsOnlyNested
  BatchIsInstructions
  CancelledBetweenInstructions
  WindowKept
  RangeKept
PROPERTIES
  LengthDrift
  ConstKept
  KeepsPromise
  FinalizesTheDead
  ReverseOrder
  SecondCollection
  WeakBeforeFinalizer
  SweepsTheDead
