------------------------------- MODULE Loops -------------------------------
(***************************************************************************)
(* Numeric loops in the VM.  A small loop body is recognised when its      *)
(* function is first run, and the driver (lua/api.go) then executes many   *)
(* iterations of it in one call (runtime/vm.go, TryExecute...ForLoop...),  *)
(* counting down to the next cancellation check as the instructions would  *)
(* have.  There is one such "super-instruction" per shape of body; nine of *)
(* the eleven are here.                                                    *)
(*                                                                         *)
(* Two machines run the same loop side by side.  fast is the driver's;     *)
(* plain executes, one at a time, as many instructions as the driver says  *)
(* it has done.  They must agree, wherever a cancellation stops the first. *)
(*                                                                         *)
(* Abstracted: FORLOOP's base register is 0, so the controls are 0..2 and  *)
(* the visible variable is 3; integers have any width; a string is a power *)
(* of one suffix; there is one table, with or without a metatable; a       *)
(* function is one of the two leaf shapes that have a fast path.  What an  *)
(* instruction does with other operands (floats, metamethods, errors) is   *)
(* left to the full path: the machine's pc is then Left.                   *)
(***************************************************************************)
EXTENDS Integers, Sequences

CONSTANTS Half,       \* 2^63 in the code: integers are from -Half to Half - 1
          Interval,   \* luaContextCheckInstructionInterval, 128 in the code
          Countdowns, \* bound: where the countdown may stand when a loop starts
          Checks,     \* bound: how many checks of a step succeed before one fails
          Bodies,     \* bound: the loop bodies
          Ranges,     \* bound: what loops are written with
          Frames(_),  \* bound: the rest of a body's frame, and its table
          Captured    \* the registers that closures of the frame have captured

VARIABLES
  loopCode,   \* the body and its FORLOOP
  range,      \* what the loop was written with: start, limit, step
  fast,       \* the machine the driver runs
  plain,      \* the machine that runs the instructions
  countdown,  \* contextCheckCountdown
  since,      \* instructions since the last check
  status      \* "running" or "cancelled"

loopVars == <<loopCode, range, fast, plain, countdown, since, status>>

MaxInteger == Half - 1
MinInteger == -Half
Integers64 == MinInteger .. MaxInteger
Wrap(x)    == ((x + Half) % (2 * Half)) - Half

Left == 0   \* pc of a machine that needs the full path

-----------------------------------------------------------------------------
(* Values, operands, instructions. *)

IntegerValue(i) == [kind |-> "integer", n |-> i]
Str(i) == [kind |-> "string",  n |-> i]     \* the suffix, i times
TableValue(i) == [kind |-> "table",   n |-> i]     \* 1: it has a metatable
Adder == [kind |-> "adder",   n |-> 0]     \* function(a, b) return a + b end
Counter(r) == [kind |-> "counter", n |-> r]     \* function(a) u = u + a return u end
NoValue        == [kind |-> "nil",     n |-> 0]

R(r) == [constant |-> FALSE, index |-> r, value |-> NoValue]
K(v) == [constant |-> TRUE, index |-> -1, value |-> v]
I(op, a, b, c) == [op |-> op, a |-> a, b |-> b, c |-> c]
ForLoop == I("FORLOOP", 0, R(0), R(0))
Ops(c)  == [i \in DOMAIN c |-> c[i].op]

FrameRegisters == 0 .. 8
Visible   == 3
Control   == 0 .. Visible
NoRegister == -1
NotCompact == -1

\* What a register, a table or an upvalue may hold, and what an instruction
\* of a loop body may be: the compiler does not write to the controls of a
\* loop, and gives a call registers above all locals.
LoopValues ==
  [kind : {"integer"}, n : Integers64] \cup [kind : {"string"}, n : Nat] \cup
  [kind : {"table"}, n : {0, 1}] \cup [kind : {"counter"}, n : {0} \cup Captured] \cup
  [kind : {"adder", "nil"}, n : {0}]

LoopTables == [at : [Integers64 -> LoopValues], size : {NotCompact} \cup Nat]

Operands ==
  [constant : {FALSE}, index : FrameRegisters, value : {NoValue}] \cup
  [constant : {TRUE}, index : {NoRegister}, value : LoopValues]

Calculations == {"ADD", "SUB", "MUL", "IDIV", "MOD"}
Divisions    == {"IDIV", "MOD"}
BodyOps == Calculations \cup {"MOVE", "LOADK", "GETTABLE", "SETTABLE", "CONCAT", "CALL"}

BodyInstructions ==
  {i \in [op : BodyOps, a : FrameRegisters, b : Operands, c : Operands] :
     /\ i.op # "SETTABLE" => i.a >= Visible
     /\ i.op \in {"MOVE", "GETTABLE"} => ~i.b.constant
     /\ i.op = "LOADK" => i.b.constant
     /\ i.op = "CALL" => i.a > Visible /\ i.a .. i.a + 2 \subseteq FrameRegisters \ Captured}

\* Assumed where the constants get their values (MCData).
LoopsAssumption ==
  /\ Half \in Nat /\ Half > 0
  /\ Interval \in Nat /\ Interval > 0
  /\ Countdowns \subseteq 0 .. Interval
  /\ Checks \subseteq Nat
  /\ Captured \subseteq FrameRegisters \ Control
  /\ \A body \in Bodies : body \in Seq(BodyInstructions)
  /\ \A r \in Ranges : r \in [start : Integers64, limit : Int, step : Integers64]
  /\ \A body \in Bodies : \A frame \in Frames(body \o <<ForLoop>>) :
       /\ frame.regs \in [FrameRegisters -> LoopValues]
       /\ frame.table \in LoopTables
       /\ frame.upvalue \in LoopValues

IsInteger(v) == v.kind = "integer"
Holds(m, rs) == \A r \in rs : IsInteger(m.regs[r])
Value(m, o)  == IF o.constant THEN o.value ELSE m.regs[o.index]
Put(m, r, v) == [m EXCEPT !.regs[r] = v]

\* A counter's upvalue is a register of this frame, or (0) its own cell.
Upvalue(m, f) == IF f.n = 0 THEN m.upvalue ELSE m.regs[f.n]
SetUpvalue(m, f, v) == IF f.n = 0 THEN [m EXCEPT !.upvalue = v] ELSE Put(m, f.n, v)

RawSet(t, k, v) ==
  [at |-> [t.at EXCEPT ![k] = v],
   size |-> IF t.size # NotCompact /\ IsInteger(v) /\ k \in 1 .. t.size + 1
            THEN IF k > t.size THEN k ELSE t.size
            ELSE NotCompact]

-----------------------------------------------------------------------------
(* Integers, and the numeric for. *)

Magnitude(x)    == IF x < 0 THEN -x ELSE x
Quotient(x, y)  == \* Go's: towards zero
  LET q == Magnitude(x) \div Magnitude(y) IN IF (x < 0) = (y < 0) THEN q ELSE -q
Remainder(x, y) == x - y * Quotient(x, y)
Opposite(x, y)  == (x < 0) # (y < 0)

integerModulo(x, y) ==
  IF y = -1 THEN 0
  ELSE LET r == Remainder(x, y) IN IF r # 0 /\ Opposite(r, y) THEN r + y ELSE r

integerFloorDiv(x, y) ==
  IF y = -1 THEN Wrap(-x)
  ELSE LET r == Remainder(x, y)
       IN IF r # 0 /\ Opposite(r, y) THEN Quotient(x, y) - 1 ELSE Quotient(x, y)

Calculate(op, x, y) ==
  CASE op = "ADD"  -> Wrap(x + y)
    [] op = "SUB"  -> Wrap(x - y)
    [] op = "MUL"  -> Wrap(x * y)
    [] op = "IDIV" -> integerFloorDiv(x, y)
    [] op = "MOD"  -> integerModulo(x, y)

forIntegerLoopContinues(next, limit, step) ==
  IF step >= 0 THEN next <= limit ELSE next >= limit

\* A limit is twice its value, so that halves are integers; beyond the
\* integers it stands for any large float or an infinity.
NoLimit == MaxInteger + 1
\* Mutant: a limit that is not an integer is rounded down for every step.
forIntegerLimitFloor(limit, step) ==
  IF limit >= 2 * MaxInteger THEN MaxInteger
  ELSE IF limit < 2 * MinInteger THEN NoLimit ELSE limit \div 2

forIntegerLimitValue(limit, step) ==
  IF step >= 0
  THEN IF limit >= 2 * MaxInteger THEN MaxInteger
       ELSE IF limit < 2 * MinInteger THEN NoLimit ELSE limit \div 2
  ELSE IF limit <= 2 * MinInteger THEN MinInteger
       ELSE IF limit >= 2 * Half THEN NoLimit ELSE -((-limit) \div 2)

\* FORPREP writes the controls and jumps to FORLOOP.
ForPrep(r) ==
  [i \in 0 .. 2 |-> IntegerValue(CASE i = 0 -> Wrap(r.start - r.step)
                          [] i = 1 -> forIntegerLimitValue(r.limit, r.step)
                          [] i = 2 -> r.step)]

-----------------------------------------------------------------------------
(* One instruction. *)

Then(m) == [m EXCEPT !.pc = @ + 1]
LeftToFullPath(m) == [m EXCEPT !.pc = Left]

ExecuteForLoop(m) ==
  LET next == Wrap(m.regs[0].n + m.regs[2].n)
  IN IF forIntegerLoopContinues(next, m.regs[1].n, m.regs[2].n)
     THEN [m EXCEPT !.regs[0] = IntegerValue(next), !.regs[Visible] = IntegerValue(next), !.pc = 1]
     ELSE Then(m)

ExecuteCall(m, slot) ==
  LET f == m.regs[slot]
  IN CASE f.kind = "adder" /\ Holds(m, {slot + 1, slot + 2}) ->
            Then(Put(m, slot, IntegerValue(Wrap(m.regs[slot + 1].n + m.regs[slot + 2].n))))
       [] f.kind = "counter" /\ IsInteger(Upvalue(m, f)) /\ Holds(m, {slot + 1}) ->
            LET result == IntegerValue(Wrap(Upvalue(m, f).n + m.regs[slot + 1].n))
            IN Then(Put(SetUpvalue(m, f, result), slot, result))
       [] OTHER -> LeftToFullPath(m)

ExecuteInstruction(c, m) ==
  LET i == c[m.pc]
      x == Value(m, i.b)
      y == Value(m, i.c)
  IN CASE i.op \in {"MOVE", "LOADK"} -> Then(Put(m, i.a, x))
       [] i.op \in Calculations ->
            IF IsInteger(x) /\ IsInteger(y) /\ ~(i.op \in Divisions /\ y.n = 0)
            THEN Then(Put(m, i.a, IntegerValue(Calculate(i.op, x.n, y.n))))
            ELSE LeftToFullPath(m)
       [] i.op = "GETTABLE" ->
            IF x = TableValue(0) /\ IsInteger(y) THEN Then(Put(m, i.a, m.table.at[y.n]))
            ELSE LeftToFullPath(m)
       [] i.op = "SETTABLE" ->
            IF m.regs[i.a] = TableValue(0) /\ IsInteger(x)
            THEN Then([m EXCEPT !.table = RawSet(@, x.n, y)])
            ELSE LeftToFullPath(m)
       [] i.op = "CONCAT" ->
            IF x.kind = "string" /\ y.kind = "string"
            THEN Then(Put(m, i.a, Str(x.n + y.n))) ELSE LeftToFullPath(m)
       [] i.op = "CALL" -> ExecuteCall(m, i.a)
       [] i.op = "FORLOOP" -> ExecuteForLoop(m)

Instructions(c, m, n) ==
  LET after[i \in 0 .. n] == IF i = 0 THEN m ELSE ExecuteInstruction(c, after[i - 1])
  IN  after[n]

-----------------------------------------------------------------------------
(* What the super-instructions share: a batch b holds the machine and the  *)
(* Go locals of the method; on is its loop condition, cancelled the error. *)

Batch(m, ok) ==
  [m |-> m, index |-> m.regs[0].n, visible |-> m.regs[Visible].n, sum |-> 0,
   temp |-> NoValue, mod |-> NoValue, callee |-> NoValue,
   n |-> 0, on |-> TRUE, ok |-> ok, cancelled |-> FALSE]

Advance(c, b) ==
  LET step == b.m.regs[2].n
      next == Wrap(b.index + step)
  IN IF forIntegerLoopContinues(next, b.m.regs[1].n, step)
     THEN [b EXCEPT !.index = next, !.visible = next, !.n = @ + 1, !.m.pc = 1]
     ELSE [b EXCEPT !.n = @ + 1, !.on = FALSE, !.m.pc = Len(c) + 1]

\* The batch's index goes to its two registers.
Publish(b) ==
  [b EXCEPT !.m.regs[0] = IntegerValue(b.index), !.m.regs[Visible] = IntegerValue(b.visible)]

\* Every round of a batch of calls begins with a check.
Checked(b, next) ==
  IF b.ok = 0 THEN [b EXCEPT !.on = FALSE, !.cancelled = TRUE] ELSE [next EXCEPT !.ok = @ - 1]

Refused(m, ok) == Batch(m, ok)   \* no round done: handled = false

IntegerConstant(o) == o.constant /\ IsInteger(o.value)
RegisterPlus(x, y, target) ==     \* decodedRegisterPlusTarget
  IF x.constant \/ y.constant THEN NoRegister
  ELSE IF x.index = target THEN y.index
  ELSE IF y.index = target THEN x.index ELSE NoRegister
RegisterTimes(x, y) ==            \* decodedRegisterIntegerConstantPair
  IF ~x.constant /\ IntegerConstant(y) THEN <<x.index, y.value.n>>
  ELSE IF ~y.constant /\ IntegerConstant(x) THEN <<y.index, x.value.n>>
  ELSE <<NoRegister, 0>>
MatchPair(x, y, a, b) ==          \* decodedRegistersMatchPair
  /\ ~x.constant /\ ~y.constant
  /\ <<x.index, y.index>> \in {<<a, b>>, <<b, a>>}

-----------------------------------------------------------------------------
(* One round of each batch.  Most write the registers of their instructions *)
(* as they go; some keep what they compute in locals and commit it later.  *)

\* t[i] = i; a compact table takes it up to the first key that leaves a hole
\* or is not positive.
WriteRound(c, b) ==
  Publish(Advance(c, [b EXCEPT !.m.table = RawSet(@, b.visible, IntegerValue(b.visible))]))

DenseWriteRound(c, b) ==
  IF b.visible \in 1 .. b.m.table.size + 1 THEN WriteRound(c, b) ELSE [b EXCEPT !.on = FALSE]

\* sum = sum + t[i]
ReadAddRound(c, b) ==
  LET entry == b.m.table.at[b.visible]
      total == Wrap(b.sum + entry.n)
      read  == Put(Put(b.m, c[1].a, entry), c[2].a, IntegerValue(total))
  IN IF IsInteger(entry) THEN Publish(Advance(c, [b EXCEPT !.sum = total, !.m = read]))
     ELSE [b EXCEPT !.on = FALSE]

\* sum = sum + i
AddRound(c, b) ==
  LET total == Wrap(b.sum + b.visible)
  IN Publish(Advance(c, [b EXCEPT !.sum = total, !.m = Put(@, c[1].a, IntegerValue(total))]))

\* temp = i * K1; temp = sum + temp; sum = temp - K2
MulAddSubRound(c, b) ==
  LET added == Wrap(b.sum + Wrap(b.visible * RegisterTimes(c[1].b, c[1].c)[2]))
  IN Advance(c, [b EXCEPT !.sum = Wrap(added - c[3].c.value.n), !.temp = IntegerValue(added)])

\* temp = i * K1; temp = sum + temp; sum = temp - K2; temp = sum // K3;
\* mod = i % K4; sum = temp + mod
MixValues(c, sum, visible) ==
  LET product == Wrap(visible * RegisterTimes(c[1].b, c[1].c)[2])
      added   == Wrap(sum + product)
      less    == Wrap(added - c[3].c.value.n)
      divided == integerFloorDiv(less, c[4].c.value.n)
      modulo  == integerModulo(visible, c[5].c.value.n)
  IN <<product, added, less, divided, modulo, Wrap(divided + modulo)>>

MixRound(c, b) ==
  LET values == MixValues(c, b.sum, b.visible)
  IN Advance(c, [b EXCEPT !.sum = values[6], !.temp = IntegerValue(values[4]),
                          !.mod = IntegerValue(values[5])])

\* sum = sum + f(i, K2)
CallAddRound(c, b) ==
  LET slot   == c[4].a
      K2     == c[3].b.value
      result == Wrap(b.visible + K2.n)
      total  == Wrap(b.sum + result)
      called == Put(Put(Put(b.m, slot + 1, IntegerValue(b.visible)), slot + 2, K2),
                    slot, IntegerValue(result))
  IN Publish(Advance(c, [b EXCEPT !.sum = total, !.m = Put(called, c[5].a, IntegerValue(total))]))

\* sum = f(sum, i)
CallAssignRound(c, b) ==
  Advance(c, [b EXCEPT !.sum = Wrap(b.sum + b.visible), !.temp = IntegerValue(b.sum),
                       !.mod = IntegerValue(b.visible)])

\* x = f(K1)
UpvalueRound(c, b) ==
  LET slot   == c[3].a
      K1     == c[2].b.value
      result == IntegerValue(Wrap(b.sum + K1.n))
      called == Put(Put(SetUpvalue(b.m, b.callee, result), slot, result), slot + 1, K1)
  IN Publish(Advance(c, [b EXCEPT !.sum = result.n, !.m = Put(called, c[4].a, result)]))

Round(batch, c, b) ==
  CASE batch = "TableWrite"         -> WriteRound(c, b)
    [] batch = "DenseTableWrite"    -> DenseWriteRound(c, b)
    [] batch = "TableReadAdd"       -> ReadAddRound(c, b)
    [] batch = "Add"                -> AddRound(c, b)
    [] batch = "MulAddSub"          -> MulAddSubRound(c, b)
    [] batch = "MixArithmetic"      -> MixRound(c, b)
    [] batch = "FunctionCallAdd"    -> Checked(b, CallAddRound(c, b))
    [] batch = "FunctionCallAssign" -> Checked(b, CallAssignRound(c, b))
    [] batch = "ClosureUpvalue"     -> Checked(b, UpvalueRound(c, b))
    [] batch = "StringAppend"       -> Advance(c, b)

NextRound(batch, c, b) == IF b.on THEN Round(batch, c, b) ELSE b

\* As many rounds as the loop has, and no more than max.
Iterate(batch, c, b, max) ==
  LET after[i \in 0 .. max] == IF i = 0 THEN b ELSE NextRound(batch, c, after[i - 1])
  IN  after[max]

-----------------------------------------------------------------------------
(* t[i] = i *)

MatchTableWrite(c) ==
  /\ Ops(c) = <<"SETTABLE", "FORLOOP">>
  /\ c[1].a \notin Control
  /\ c[1].b = R(Visible) /\ c[1].c = R(Visible)

\* A compact table takes the whole batch; any other takes one RawSet at a time.
TryExecuteTableWriteForLoopBatch(c, m, max, ok) ==
  LET dense == Iterate("DenseTableWrite", c, Batch(m, ok), max)
  IN IF m.regs[c[1].a] # TableValue(0) \/ ~Holds(m, Control) THEN Refused(m, ok)
     ELSE IF m.table.size # NotCompact /\ m.regs[2].n = 1 /\ dense.n > 0 THEN dense
     ELSE Iterate("TableWrite", c, Batch(m, ok), max)

-----------------------------------------------------------------------------
(* sum = sum + t[i] *)

MatchTableReadAdd(c) ==
  /\ Ops(c) = <<"GETTABLE", "ADD", "FORLOOP">>
  /\ LET table == c[1].b.index
         get   == c[1].a
         sum   == c[2].a
     IN /\ c[1].c = R(Visible)
        /\ MatchPair(c[2].b, c[2].c, sum, get)
        /\ {table, sum, get} \cap Control = {}
        /\ table # sum /\ table # get /\ sum # get

TryExecuteTableReadAddForLoopBatch(c, m, max, ok) ==
  LET sum == c[2].a
  IN IF m.regs[c[1].b.index] # TableValue(0) \/ ~Holds(m, Control \cup {sum})
     THEN Refused(m, ok)
     ELSE Iterate("TableReadAdd", c, [Batch(m, ok) EXCEPT !.sum = m.regs[sum].n], max)

-----------------------------------------------------------------------------
(* sum = sum + i, and any other addition *)

MatchAdd(c) == Ops(c) = <<"ADD", "FORLOOP">>

PrepareAddForLoopBatch(c) ==
  /\ c[1].a \notin Control
  /\ MatchPair(c[1].b, c[1].c, c[1].a, Visible)

\* A step of one, from an index that is not negative, is summed in one go.
addForLoopStepOneBatchIterations(index, limit, max) ==
  IF limit < index THEN [n |-> 1, exits |-> TRUE]
  ELSE IF limit - index < max THEN [n |-> limit - index + 1, exits |-> TRUE]
  ELSE [n |-> max, exits |-> FALSE]

\* Mutant: the sum of one term more.
addForLoopStepOneTermSumNext(start, n) == start * n + (n * (n + 1)) \div 2

addForLoopStepOneTermSum(start, n) == start * n + (n * (n - 1)) \div 2

tryExecuteAddForLoopStepOneBatch(c, m, max, ok) ==
  LET index == m.regs[0].n
      count == addForLoopStepOneBatchIterations(index, m.regs[1].n, max)
      last  == IntegerValue(index + count.n - (IF count.exits THEN 1 ELSE 0))
      sum   == m.regs[c[1].a].n + addForLoopStepOneTermSum(index, count.n)
      summed == Put(Put(Put(m, c[1].a, IntegerValue(Wrap(sum))), 0, last), Visible, last)
  IN [Batch(m, ok) EXCEPT !.n = count.n,
        !.m = [summed EXCEPT !.pc = IF count.exits THEN Len(c) + 1 ELSE 1]]

TryExecuteAddForLoopBatch(c, m, max, ok) ==
  IF ~PrepareAddForLoopBatch(c) \/ ~Holds(m, Control \cup {c[1].a})
  THEN Refused(m, ok)
  ELSE IF m.regs[2].n = 1 /\ m.regs[Visible] = m.regs[0] /\ m.regs[0].n >= 0
  THEN tryExecuteAddForLoopStepOneBatch(c, m, max, ok)
  ELSE Iterate("Add", c, [Batch(m, ok) EXCEPT !.sum = m.regs[c[1].a].n], max)

\* One round, any operands: both operands and the controls are read first.
TryExecuteAddForLoop(c, m, ok) ==
  LET x == Value(m, c[1].b)
      y == Value(m, c[1].c)
      b == Batch(m, ok)
      next == Advance(c, [b EXCEPT !.m = Put(m, c[1].a, IntegerValue(Wrap(x.n + y.n)))])
  IN IF ~IsInteger(x) \/ ~IsInteger(y) \/ ~Holds(m, 0 .. 2) THEN b
     ELSE IF next.on THEN Publish(next) ELSE next

-----------------------------------------------------------------------------
(* temp = i * K1; temp = sum + temp; sum = temp - K2, and any other operands *)

MatchMulAddSub(c) == Ops(c) = <<"MUL", "ADD", "SUB", "FORLOOP">>

PrepareMulAddSubForLoopBatch(c) ==
  LET temp == c[1].a
      sum  == RegisterPlus(c[2].b, c[2].c, temp)
  IN /\ c[2].a = temp
     /\ RegisterTimes(c[1].b, c[1].c)[1] = Visible
     /\ sum # NoRegister
     /\ c[3].b = R(temp) /\ c[3].a = sum /\ IntegerConstant(c[3].c)
     /\ temp # sum /\ {temp, sum} \cap Control = {}

\* The rounds are computed in locals; the registers are written at the end.
CommitMulAddSub(c, done) ==
  Publish([done EXCEPT !.m.regs[c[1].a] = done.temp,
                       !.m.regs[c[3].a] = IntegerValue(done.sum)])

TryExecuteMulAddSubForLoopBatch(c, m, max, ok) ==
  LET sum == c[3].a
  IN IF ~PrepareMulAddSubForLoopBatch(c) \/ ~Holds(m, Control \cup {sum})
     THEN Refused(m, ok)
     ELSE CommitMulAddSub(c,
            Iterate("MulAddSub", c, [Batch(m, ok) EXCEPT !.sum = m.regs[sum].n], max))

\* The last of the values computed so far for the register, else its own.
Writing(o, computed) ==
  {k \in DOMAIN computed : ~o.constant /\ computed[k].register = o.index}
Latest(ks) == CHOOSE k \in ks : \A j \in ks : j <= k
Override(m, o, computed) ==
  LET written == Writing(o, computed)
  IN IF written = {} THEN Value(m, o) ELSE computed[Latest(written)].value

\* One round, any operands; each sees what the ones before it have computed.
TryExecuteMulAddSubForLoop(c, m, ok) ==
  LET Computed(w, k) ==
        LET x == Override(m, c[k].b, w)
            y == Override(m, c[k].c, w)
        IN Append(w, [register |-> c[k].a,
                      value |-> IF IsInteger(x) /\ IsInteger(y)
                                THEN IntegerValue(Calculate(c[k].op, x.n, y.n)) ELSE NoValue])
      writes == Computed(Computed(Computed(<<>>, 1), 2), 3)
      written == Put(Put(Put(m, c[1].a, writes[1].value), c[2].a, writes[2].value),
                     c[3].a, writes[3].value)
      next == Advance(c, [Batch(m, ok) EXCEPT !.m = written,
                            !.index = Override(m, R(0), writes).n])
  IN IF \/ \E k \in 1 .. 3 : ~IsInteger(writes[k].value)
        \/ \E r \in 0 .. 2 : ~IsInteger(Override(m, R(r), writes))
     THEN Refused(m, ok)
     ELSE IF next.on THEN Publish(next) ELSE next

-----------------------------------------------------------------------------
(* temp = i * K1; temp = sum + temp; sum = temp - K2; temp = sum // K3;     *)
(* mod = i % K4; sum = temp + mod                                           *)

MatchMix(c) ==
  /\ Ops(c) = <<"MUL", "ADD", "SUB", "IDIV", "MOD", "ADD", "FORLOOP">>
  /\ LET temp == c[1].a
         sum  == RegisterPlus(c[2].b, c[2].c, temp)
         mod  == c[5].a
     IN /\ RegisterTimes(c[1].b, c[1].c)[1] = Visible
        /\ sum # NoRegister /\ c[2].a = temp
        /\ c[3].a = sum /\ c[3].b = R(temp) /\ IntegerConstant(c[3].c)
        /\ c[4].a = temp /\ c[4].b = R(sum)
        /\ c[5].b = R(Visible)
        /\ \A k \in {4, 5} : IntegerConstant(c[k].c) /\ c[k].c.value.n # 0
        /\ c[6].a = sum /\ MatchPair(c[6].b, c[6].c, temp, mod)
        /\ {sum, temp, mod} \cap Control = {}

\* BatchValid: the three registers differ.
MixRegistersDiffer(c) ==
  c[1].a # c[3].a /\ c[1].a # c[5].a /\ c[3].a # c[5].a

CommitMix(c, done) ==
  Publish([done EXCEPT !.m.regs[c[1].a] = done.temp, !.m.regs[c[5].a] = done.mod,
                       !.m.regs[c[3].a] = IntegerValue(done.sum)])

TryExecuteMixArithmeticForLoopBatch(c, m, max, ok) ==
  LET sum == c[3].a
  IN IF ~MixRegistersDiffer(c) \/ ~Holds(m, Control \cup {sum}) THEN Refused(m, ok)
     ELSE CommitMix(c,
            Iterate("MixArithmetic", c, [Batch(m, ok) EXCEPT !.sum = m.regs[sum].n], max))

\* One round, the registers aliased or not: the sum is read before any write.
TryExecuteMixArithmeticForLoop(c, m, ok) ==
  LET values == MixValues(c, m.regs[c[3].a].n, m.regs[Visible].n)
      Written(s, k) == Put(s, c[k].a, IntegerValue(values[k]))
      next == Advance(c, [Batch(m, ok) EXCEPT
                !.m = Written(Written(Written(Written(Written(Written(m, 1), 2), 3), 4), 5), 6)])
  IN IF ~Holds(m, Control \cup {c[3].a}) THEN Refused(m, ok)
     ELSE IF next.on THEN Publish(next) ELSE next

-----------------------------------------------------------------------------
(* Calls of a leaf function: sum = sum + f(i, K), sum = f(sum, i), x = f(K) *)

\* The function's register survives the round.
FunctionKept(source, slots, result) ==
  /\ {source, result} \cap (Control \cup slots) = {}
  /\ source # result

MatchFunctionCallAdd(c) ==
  /\ Ops(c) = <<"MOVE", "MOVE", "LOADK", "CALL", "ADD", "FORLOOP">>
  /\ LET slot == c[4].a
     IN /\ <<c[1].a, c[2].a, c[3].a>> = <<slot, slot + 1, slot + 2>>
        /\ RegisterPlus(c[5].b, c[5].c, slot) = c[5].a
        /\ c[2].b = R(Visible) /\ IntegerConstant(c[3].b)
        /\ FunctionKept(c[1].b.index, slot .. slot + 2, c[5].a)

TryExecuteFunctionCallAddForLoopBatch(c, m, max, ok) ==
  LET sum == c[5].a
  IN IF ~Holds(m, Control \cup {sum}) THEN Refused(m, ok)
     ELSE Iterate("FunctionCallAdd", c, [Batch(m, ok) EXCEPT !.sum = m.regs[sum].n], max)

MatchFunctionCallAssign(c) ==
  /\ Ops(c) = <<"MOVE", "MOVE", "MOVE", "CALL", "MOVE", "FORLOOP">>
  /\ LET slot == c[4].a
     IN /\ <<c[1].a, c[2].a, c[3].a>> = <<slot, slot + 1, slot + 2>>
        /\ c[5].b = R(slot) /\ c[2].b = R(c[5].a) /\ c[3].b = R(Visible)
        /\ FunctionKept(c[1].b.index, slot .. slot + 2, c[5].a)

\* Computed in locals; committed at the end and when a check fails.
commitFunctionCallAssignForLoopBatchRegisters(c, done) ==
  LET slot == c[4].a
  IN IF done.n = 0 THEN done
     ELSE Publish([done EXCEPT !.m.regs[slot] = IntegerValue(done.sum),
                               !.m.regs[slot + 1] = done.temp,
                               !.m.regs[slot + 2] = done.mod,
                               !.m.regs[c[5].a] = IntegerValue(done.sum)])

TryExecuteFunctionCallAssignForLoopBatch(c, m, max, ok) ==
  LET sum == c[5].a
  IN IF ~Holds(m, Control \cup {sum}) THEN Refused(m, ok)
     ELSE commitFunctionCallAssignForLoopBatchRegisters(c,
            Iterate("FunctionCallAssign", c, [Batch(m, ok) EXCEPT !.sum = m.regs[sum].n], max))

MatchClosureUpvalue(c) ==
  /\ Ops(c) = <<"MOVE", "LOADK", "CALL", "MOVE", "FORLOOP">>
  /\ LET slot == c[3].a
     IN /\ <<c[1].a, c[2].a>> = <<slot, slot + 1>>
        /\ c[4].b = R(slot) /\ IntegerConstant(c[2].b)
        /\ FunctionKept(c[1].b.index, slot .. slot + 1, c[4].a)

TryExecuteClosureUpvalueForLoopBatch(c, m, max, ok) ==
  LET f == m.regs[c[1].b.index]
  IN IF ~IsInteger(Upvalue(m, f)) \/ ~Holds(m, 0 .. 2) THEN Refused(m, ok)
     ELSE Iterate("ClosureUpvalue", c,
                  [Batch(m, ok) EXCEPT !.callee = f, !.sum = Upvalue(m, f).n], max)

-----------------------------------------------------------------------------
(* text = text .. "suffix" *)

MatchStringAppend(c) ==
  /\ Ops(c) = <<"MOVE", "LOADK", "CONCAT", "FORLOOP">>
  /\ LET text == c[3].a
         move == c[1].a
         suffix == c[2].a
     IN /\ c[1].b = R(text) /\ c[3].b = R(move) /\ c[3].c = R(suffix)
        /\ text # move /\ text # suffix /\ move # suffix
        /\ c[2].b.constant /\ c[2].b.value.kind = "string"
        /\ {text, move, suffix} \cap Control = {}

positiveIntegerForLoopRemainingIterations(index, limit, step) ==
  IF step <= 0 \/ index > limit THEN 0 ELSE (limit - index) \div step + 1

Phases == <<"AfterMove", "AfterLoadK", "AfterConcat", "AfterCompleted">>

\* What the registers are after n rounds and, for the phase a check failed
\* before, the instructions of the next round that were done.
commitStringAppendForLoopState(c, m, n, index, phase, total) ==
  LET text   == c[3].a
      base   == m.regs[text].n
      inside == phase # "AfterCompleted"
      target == IF phase = "AfterConcat" THEN n + 1 ELSE n
      moved  == IF inside THEN n ELSE n - 1
      loaded == n > 0 \/ phase \in {"AfterLoadK", "AfterConcat"}
      suffix == c[2].b.value
      Text(i) == Str(base + i * suffix.n)
  IN [m EXCEPT !.regs[text] = Text(target),
               !.regs[c[1].a] = IF moved >= 0 THEN Text(moved) ELSE @,
               !.regs[c[2].a] = IF loaded THEN suffix ELSE @,
               !.regs[0] = IntegerValue(index), !.regs[Visible] = IntegerValue(index),
               !.pc = CASE phase = "AfterMove"   -> 2
                        [] phase = "AfterLoadK"  -> 3
                        [] phase = "AfterConcat" -> 4
                        [] OTHER -> IF n >= total THEN Len(c) + 1 ELSE 1]

\* The boundary before an instruction of the rest of the loop, the first
\* instruction's excepted, which the driver has passed: the check is made here
\* wherever it would have been made.  n rounds have been completed.
consumeContext(c, m, s, phase, total) ==
  IF s.countdown > 0
  THEN [s EXCEPT !.countdown = @ - 1, !.since = @ + 1, !.done = @ + 1]
  ELSE IF s.ok = 0
  THEN [s EXCEPT !.cancelled = TRUE, !.since = 0, !.done = @ + 1,
                 !.m = commitStringAppendForLoopState(c, m, s.n, s.index, phase, total)]
  ELSE [s EXCEPT !.countdown = Interval, !.ok = @ - 1, !.since = 0, !.done = @ + 1]

\* To boundary i, if no check has failed before it.
NextBoundary(c, m, total, i, s) ==
  LET phase == Phases[((i - 1) % 4) + 1]
      completed == [s EXCEPT !.n = @ + 1, !.index = @ + m.regs[2].n]
  IN IF s.cancelled THEN s
     ELSE consumeContext(c, m, IF phase = "AfterCompleted" THEN completed ELSE s, phase, total)

Boundaries(c, m, total, s, n) ==
  LET after[i \in 0 .. n] == IF i = 0 THEN s ELSE NextBoundary(c, m, total, i, after[i - 1])
  IN  after[n]

\* The rest of the loop in one call, whatever the countdown.
TryExecuteStringAppendForLoopWholeBatch(c, m, window, ok) ==
  LET total == positiveIntegerForLoopRemainingIterations(
                 m.regs[0].n, m.regs[1].n, m.regs[2].n)
      first == [m |-> m, n |-> 0, index |-> m.regs[0].n, done |-> 0, ok |-> ok,
                countdown |-> window.countdown, since |-> window.since, cancelled |-> FALSE]
      last  == Boundaries(c, m, total, first, 4 * total - 1)
  IN IF last.cancelled THEN last
     ELSE [last EXCEPT !.n = total, !.done = @ + 1, !.since = @ + 1,
             !.m = commitStringAppendForLoopState(
                     c, m, total, last.index, "AfterCompleted", total)]

\* Steps that are not positive: as many rounds as the countdown allows.
CommitStringAppend(c, m, done) ==
  LET text == c[3].a
      suffix == c[2].b.value
      Text(i) == Str(m.regs[text].n + i * suffix.n)
  IN [done EXCEPT !.m.regs[c[1].a] = Text(done.n - 1), !.m.regs[c[2].a] = suffix,
                  !.m.regs[text] = Text(done.n), !.m.regs[0] = IntegerValue(done.index),
                  !.m.regs[Visible] = IntegerValue(done.index)]

TryExecuteStringAppendForLoopBatch(c, m, max, ok) ==
  IF m.regs[c[3].a].kind # "string" \/ ~Holds(m, 0 .. 2) THEN Refused(m, ok)
  ELSE CommitStringAppend(c, m, Iterate("StringAppend", c, Batch(m, ok), max))

-----------------------------------------------------------------------------
(* The driver.  A step d starts after the instruction at pc has been       *)
(* counted: d.done instructions have been executed, since the last check   *)
(* d.since, and d.ok more checks will succeed.  next is "handled" when a   *)
(* super-instruction has taken the step.                                   *)

Handled(d, b, executed, deducted, sinceCheck) ==
  [d EXCEPT !.m = b.m, !.next = "handled", !.done = executed, !.since = sinceCheck,
            !.countdown = @ - deducted]

\* Mutant: the first round is not taken from the countdown.
WindowBatchShort(d, b, size) ==
  IF b.n = 0 THEN d
  ELSE Handled(d, b, b.n * size, (b.n - 1) * size, d.since + b.n * size)

\* n rounds of size instructions, the first of which has been counted.
WindowBatch(d, b, size) ==
  IF b.n = 0 THEN d
  ELSE Handled(d, b, b.n * size, b.n * size - 1, d.since + b.n * size)

\* Mutant: a batch that is cancelled returns before its commit.
CallBatchUncommitted(d, b, size) ==
  IF b.cancelled THEN [d EXCEPT !.next = "cancelled", !.done = b.n * size]
  ELSE IF b.n = 0 THEN [d EXCEPT !.since = 0]
  ELSE [Handled(d, b, b.n * size, b.n * (size - 1), size) EXCEPT !.ok = b.ok]

\* A round of calls is checked at its start, and costs one less.
CallBatch(d, b, size) ==
  IF b.cancelled THEN [d EXCEPT !.m = b.m, !.next = "cancelled", !.done = b.n * size]
  ELSE IF b.n = 0 THEN [d EXCEPT !.since = 0]
  ELSE [Handled(d, b, b.n * size, b.n * (size - 1), size) EXCEPT !.ok = b.ok]

\* The check of a batch, or of one that could not be prepared.
CheckCall(d, prepared, batch, size) ==
  IF d.ok = 0 THEN [d EXCEPT !.next = "cancelled"]
  ELSE IF prepared THEN CallBatch(d, batch, size)
  ELSE [d EXCEPT !.since = 0, !.ok = @ - 1]

FunctionKind(c, d) == d.m.regs[c[1].b.index].kind

StringAppend(c, d) ==
  LET text  == d.m.regs[c[3].a]
      total == positiveIntegerForLoopRemainingIterations(
                 d.m.regs[0].n, d.m.regs[1].n, d.m.regs[2].n)
      whole == TryExecuteStringAppendForLoopWholeBatch(c, d.m, d, d.ok)
  IN IF text.kind = "string" /\ Holds(d.m, 0 .. 2) /\ total > 0
     THEN [d EXCEPT !.m = whole.m, !.done = whole.done, !.since = whole.since,
                    !.countdown = whole.countdown,
                    !.next = IF whole.cancelled THEN "cancelled" ELSE "handled"]
     ELSE WindowBatch(d, TryExecuteStringAppendForLoopBatch(
                           c, d.m, (d.countdown + 1) \div 4, d.ok), 4)

\* A batch if there is one, and otherwise one round.
BatchOrRound(d, batch, round, size) ==
  IF batch.n > 0 THEN WindowBatch(d, batch, size) ELSE WindowBatch(d, round, size)

Families == {"TableWrite", "TableReadAdd", "StringAppend", "FunctionCallAssign",
             "ClosureUpvalue", "FunctionCallAdd", "MixArithmetic", "MulAddSub", "Add"}

\* The body is recognised, and the countdown has room for a round of it.
Matches(family, c, left) ==
  CASE family = "TableWrite"         -> left > 0  /\ MatchTableWrite(c)
    [] family = "TableReadAdd"       -> left >= 2 /\ MatchTableReadAdd(c)
    [] family = "StringAppend"       -> left >= 3 /\ MatchStringAppend(c)
    [] family = "FunctionCallAssign" -> left >= 5 /\ MatchFunctionCallAssign(c)
    [] family = "ClosureUpvalue"     -> left >= 4 /\ MatchClosureUpvalue(c)
    [] family = "FunctionCallAdd"    -> left >= 5 /\ MatchFunctionCallAdd(c)
    [] family = "MixArithmetic"      -> left >= 6 /\ MatchMix(c)
    [] family = "MulAddSub"          -> left >= 3 /\ MatchMulAddSub(c)
    [] family = "Add"                -> left > 0  /\ MatchAdd(c)

TrySuperInstruction(family, c, d) ==
  LET m == d.m
      Rounds(size) == (d.countdown + 1) \div size
  IN CASE family = "TableWrite" ->
            WindowBatch(d, TryExecuteTableWriteForLoopBatch(c, m, Rounds(2), d.ok), 2)
       [] family = "TableReadAdd" ->
            WindowBatch(d, TryExecuteTableReadAddForLoopBatch(c, m, Rounds(3), d.ok), 3)
       [] family = "StringAppend" -> StringAppend(c, d)
       [] family = "FunctionCallAssign" ->
            CheckCall(d, FunctionKind(c, d) = "adder",
              TryExecuteFunctionCallAssignForLoopBatch(c, m, d.countdown \div 5, d.ok), 6)
       [] family = "ClosureUpvalue" ->
            CheckCall(d, FunctionKind(c, d) = "counter",
              TryExecuteClosureUpvalueForLoopBatch(c, m, d.countdown \div 4, d.ok), 5)
       [] family = "FunctionCallAdd" ->
            CheckCall(d, FunctionKind(c, d) = "adder",
              TryExecuteFunctionCallAddForLoopBatch(c, m, d.countdown \div 5, d.ok), 6)
       [] family = "MixArithmetic" ->
            BatchOrRound(d, TryExecuteMixArithmeticForLoopBatch(c, m, Rounds(7), d.ok),
                         TryExecuteMixArithmeticForLoop(c, m, d.ok), 7)
       [] family = "MulAddSub" ->
            BatchOrRound(d, TryExecuteMulAddSubForLoopBatch(c, m, Rounds(4), d.ok),
                         TryExecuteMulAddSubForLoop(c, m, d.ok), 4)
       [] family = "Add" ->
            BatchOrRound(d, TryExecuteAddForLoopBatch(c, m, Rounds(2), d.ok),
                         TryExecuteAddForLoop(c, m, d.ok), 2)

\* An instruction is counted, or checked when the countdown is over.
Count(ok) ==
  LET d == [m |-> fast, countdown |-> countdown, since |-> since, done |-> 0,
            ok |-> ok, next |-> "instruction"]
  IN IF countdown > 0 THEN [d EXCEPT !.countdown = @ - 1]
     ELSE IF ok = 0 THEN [d EXCEPT !.next = "cancelled"]
     ELSE [d EXCEPT !.countdown = Interval, !.since = 0, !.ok = @ - 1]

Effect(d) ==
  /\ fast' = d.m
  /\ plain' = Instructions(loopCode, plain, d.done)
  /\ countdown' = d.countdown
  /\ since' = d.since
  /\ status' = IF d.next = "cancelled" THEN "cancelled" ELSE "running"
  /\ UNCHANGED <<loopCode, range>>

\* Bound: a loop that wraps is followed to the end of the step that wraps it.
Wrapped(m) == (m.regs[0].n - (range.start - range.step)) * range.step < 0

Running == status = "running" /\ fast.pc \in DOMAIN loopCode /\ ~Wrapped(fast)

\* A super-instruction has taken the step, or it is left to the instruction.
Takes(d) == d.next # "instruction" /\ Effect(d)
Declines(d) ==
  /\ d.next = "instruction"
  /\ Effect([d EXCEPT !.m = ExecuteInstruction(loopCode, fast), !.done = 1, !.since = @ + 1])

SuperInstruction(family) ==
  /\ Running /\ fast.pc = 1
  /\ \E ok \in Checks :
       LET d == Count(ok) IN
         /\ d.next = "instruction"
         /\ Matches(family, loopCode, d.countdown)
         /\ Takes(TrySuperInstruction(family, loopCode, d))

\* No super-instruction has taken it.
Instruction ==
  /\ Running
  /\ \E ok \in Checks :
       LET d     == Count(ok)
           taken == IF fast.pc # 1 THEN {}
                    ELSE {f \in Families : Matches(f, loopCode, d.countdown)}
       IN /\ d.next = "instruction"
          /\ Declines(IF taken = {} THEN d
                      ELSE TrySuperInstruction(CHOOSE f \in taken : TRUE, loopCode, d))

CheckFails ==
  /\ Running
  /\ \E ok \in Checks :
       Count(ok).next = "cancelled" /\ Effect(Count(ok))

LoopNext == Instruction \/ CheckFails \/ \E f \in Families : SuperInstruction(f)

-----------------------------------------------------------------------------
(* The loops that are run.  The locals of the frame and the temporaries     *)
(* above them are the registers from 4 on.                                 *)

\* FORPREP has jumped to FORLOOP.
Enter(c, r, frame) ==
  [regs |-> [i \in FrameRegisters |->
               CASE i \in 0 .. 2 -> ForPrep(r)[i]
                 [] i = Visible -> NoValue
                 [] OTHER -> frame.regs[i]],
   pc |-> Len(c), table |-> frame.table, upvalue |-> frame.upvalue]

LoopInit ==
  /\ loopCode \in {body \o <<ForLoop>> : body \in Bodies}
  /\ range \in {r \in Ranges : forIntegerLimitValue(r.limit, r.step) # NoLimit}
  /\ \E frame \in Frames(loopCode) : fast = Enter(loopCode, range, frame)
  /\ plain = fast
  /\ countdown \in Countdowns
  /\ since = Interval + 1 - countdown
  /\ status = "running"

LoopSpec == LoopInit /\ [][LoopNext]_loopVars

-----------------------------------------------------------------------------
(* Properties. *)

\* The one round of a Mix body (vm.go, TryExecuteMixArithmeticForLoop) reads
\* the sum before any write and adds the quotient to the remainder, so it is
\* wrong when temp is the sum or the remainder, although vm.go:4036 promises
\* such a body the overwriting of its instructions.
MixAliased(c) == MatchMix(c) /\ c[1].a \in {c[3].a, c[5].a}

\* A loop whose limit is less than a step from the last integer: FORLOOP wraps
\* and goes on; two super-instructions count the rounds, and leave.
StopsAtEnd(c, m) ==
  /\ MatchAdd(c) \/ MatchStringAppend(c)
  /\ m.regs[2].n > 0 /\ m.regs[1].n > MaxInteger - m.regs[2].n
  /\ m.pc = Len(c) + 1

\* A super-instruction leaves the registers, the upvalue, the table and the pc
\* as the instructions it stands for would have (vm.go: "batch commits the
\* state of the last round"), for every aliasing of its operands but one, and
\* every limit but those at the end of the integers.
BatchIsInstructions ==
  status = "running" => fast = plain \/ MixAliased(loopCode) \/ StopsAtEnd(loopCode, fast)

\* A batch that a cancellation stops leaves the state of an instruction
\* boundary, that of the check that failed: commitStringAppendForLoopState,
\* commitFunctionCallAssignForLoopBatchRegisters.
CancelledBetweenInstructions ==
  status = "cancelled" => fast = plain \/ MixAliased(loopCode)

\* No more than Interval + 1 instructions run between two checks, however many
\* of them a super-instruction takes at once (api.go, contextCheckCountdown).
WindowKept == countdown >= 0 /\ since + countdown <= Interval + 1

\* What a range says: its first value and those after it, up to its limit.
Positions(r) ==
  {r.start + j * r.step : j \in 0 .. 2 * Half} \cap
  {x \in Integers64 : IF r.step >= 0 THEN 2 * x <= r.limit ELSE 2 * x >= r.limit}

Before(r) == r.start - r.step
Final(r) ==
  IF Positions(r) = {} THEN Before(r)
  ELSE CHOOSE x \in Positions(r) : \A y \in Positions(r) : x * r.step >= y * r.step

Wraps(r) == Before(r) \notin Integers64 \/ Final(r) + r.step \notin Integers64

\* A loop that does not wrap visits, from its first value on, what its range
\* says, also with a limit that is not an integer, and ends on the last
\* (FORPREP, FORLOOP, forIntegerLimitValue).
RangeKept ==
  ~Wraps(range) =>
    /\ plain.pc \in 1 .. Len(loopCode) - 1 => plain.regs[0].n \in Positions(range)
    /\ plain.pc = Len(loopCode) + 1 => plain.regs[0].n = Final(range)
=============================================================================
