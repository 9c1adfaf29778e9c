------------------------------- MODULE MCData -------------------------------
(***************************************************************************)
(* A table, the collector, and a numeric loop that runs as super-          *)
(* instructions.  They share no state, and a behaviour is of one of them;  *)
(* the other two stay as they begin.                                       *)
(***************************************************************************)
EXTENDS Table, Collector, Loops

VARIABLE part  \* what the behaviour is of: "table", "collector" or "loop"

ASSUME CollectorBounds == CollectorAssumption
ASSUME LoopBounds == LoopsAssumption

NoTable     == table = NewTable(TRUE) /\ walk = NoWalk /\ writes = 0
NoCollector == Init /\ debugLibrary /\ heap.weak
NoLoop ==
  /\ status = "none" /\ loopCode = <<>> /\ countdown = 0 /\ since = 0
  /\ range = [start |-> MinInteger, limit |-> 0, step |-> 1]
  /\ fast = <<>> /\ plain = <<>>

DataInit ==
  \/ part = "table" /\ TableInit /\ NoCollector /\ NoLoop
  \/ part = "collector" /\ NoTable /\ Init /\ NoLoop
  \/ part = "loop" /\ NoTable /\ NoCollector /\ LoopInit

TableStep     == part = "table" /\ TableNext /\ UNCHANGED <<vars, loopVars, part>>
CollectorStep == part = "collector" /\ Next /\ UNCHANGED <<tableVars, loopVars, part>>
LoopStep      == part = "loop" /\ LoopNext /\ UNCHANGED <<tableVars, vars, part>>

\* Nothing else may stop a collector, or a loop.
Rest ==
  /\ \/ part = "collector" /\ (panicked \/ work = MaxWork)
     \/ part = "loop" /\ ~Running
  /\ UNCHANGED <<tableVars, vars, loopVars, part>>

DataSpec ==
  DataInit /\ [][TableStep \/ CollectorStep \/ LoopStep \/ Rest]_<<tableVars, vars, loopVars, part>>

-----------------------------------------------------------------------------
(* The loops: bodies of every shape, with the operands that make it match  *)
(* and others; ranges that end at a limit, between two values, before the  *)
(* first, and at either end of the integers.                               *)

Const(i) == K(IntegerValue(i))
Unused   == R(0)

TheBodies ==
  {<<I("SETTABLE", 4, x, y)>> : x, y \in {R(Visible), R(5)}}
    \cup {<<I("GETTABLE", g, R(4), R(Visible)), I("ADD", 5, x, y)>> :
            g \in {5, 6}, x, y \in {R(5), R(6)}}
    \cup {<<I("ADD", a, x, y)>> :
            a \in {Visible, 4}, x \in {R(Visible), R(4), R(5)},
            y \in {R(Visible), R(4), Const(1)}}
    \cup {<<I("MUL", a, x, Const(2)), I("ADD", b, y, z), I("SUB", c, w, Const(1))>> :
            a \in {4, 6}, x \in {R(Visible), R(5)}, b \in {Visible, 4, 6},
            y, z \in {R(4), R(6)}, c \in {4, Visible}, w \in {R(4), R(6)}}
    \cup {<<I("MUL", t, Const(3), R(Visible)), I("ADD", t, x, y), I("SUB", 4, R(t), Const(1)),
            I("IDIV", t, R(4), Const(k)), I("MOD", m, R(Visible), Const(-k)),
            I("ADD", 4, R(m), R(t))>> :
            t \in {4, 6}, m \in {4, 5, 6}, x, y \in {R(4), R(6)}, k \in {-1, 2, -3}}
    \cup {<<I("MOVE", 6, R(f), Unused), I("MOVE", 7, x, Unused), I("LOADK", 8, Const(2), Unused),
            I("CALL", 6, Unused, Unused), I("ADD", s, R(5), R(6))>> :
            f \in {4, 5}, x \in {R(Visible), R(5)}, s \in {4, 5}}
    \cup {<<I("MOVE", 6, R(f), Unused), I("MOVE", 7, x, Unused), I("MOVE", 8, y, Unused),
            I("CALL", 6, Unused, Unused), I("MOVE", s, R(6), Unused)>> :
            f, s \in {4, 5}, x, y \in {R(Visible), R(5)}}
    \cup {<<I("MOVE", 6, R(4), Unused), I("LOADK", 7, Const(2), Unused), I("CALL", 6, Unused, Unused),
            I("MOVE", r, R(6), Unused)>> : r \in {4, 5}}
    \cup {<<I("MOVE", 6, R(s), Unused), I("LOADK", 7, K(Str(1)), Unused),
            I("CONCAT", 5, R(6), R(7))>> : s \in {4, 5}}

TheRanges ==
  {[start |-> r[1], limit |-> r[2], step |-> r[3]] :
     r \in {<<0, 8, 1>>, <<-2, 5, 2>>, <<4, -7, -2>>, <<1, 0, 1>>,
            <<MinInteger + 2, 2 * MinInteger + 2, -1>>,
            <<MaxInteger - 2, 2 * MaxInteger + 5, 1>>,
            <<MaxInteger - 4, 2 * MaxInteger - 2, 3>>}}

Filled(n, size) ==
  [at |-> [k \in Integers64 |-> IF k \in 1 .. n THEN IntegerValue(2 - k) ELSE NoValue],
   size |-> size]
Contents ==
     {Filled(0, 0), Filled(3, 3), Filled(4, NotCompact),
      RawSet(Filled(3, NotCompact), 2, Str(1))}

TheFrames(c) ==
  LET Frame(l) == [regs |-> [i \in FrameRegisters |->
                     CASE i = 4 -> l[1] [] i = 5 -> l[2]
                       [] i = 6 /\ c[1].op \in Calculations -> IntegerValue(1)
                       [] OTHER -> NoValue],
                   table |-> l[3], upvalue |-> IntegerValue(1)]
      Locals ==
        CASE c[1].op = "SETTABLE" -> {TableValue(0), TableValue(1)} \X {IntegerValue(2)} \X Contents
          [] c[1].op = "GETTABLE" -> {TableValue(0)} \X {IntegerValue(1), NoValue} \X Contents
          [] c[1].op \in Calculations ->
               {IntegerValue(-2), IntegerValue(3), NoValue} \X {IntegerValue(3)} \X {Filled(0, 0)}
          [] c[3].op = "CONCAT" -> {Str(2)} \X {Str(0), IntegerValue(1)} \X {Filled(0, 0)}
          [] OTHER -> {Adder, Counter(0), Counter(5)} \X {IntegerValue(1), NoValue}
                        \X {Filled(0, 0)}
  IN {Frame(l) : l \in Locals}
=============================================================================
