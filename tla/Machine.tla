------------------------------ MODULE Machine ------------------------------
(***************************************************************************)
(* The virtual machine (runtime/vm.go) and its driver (lua/api.go): one    *)
(* action per family of instructions, over the code the code generator     *)
(* makes of a program.                                                     *)
(*                                                                         *)
(* A frame is a call of a Lua function with its VM: registers, varargs,    *)
(* the top an open call or ... leaves, and the cells that are open on its  *)
(* registers.  A cell is open on a register of the frame at its level, or  *)
(* closed (level 0) on a value of its own.                                 *)
(*                                                                         *)
(* Abstracted: super-instructions and batches (Loops models them), hooks,  *)
(* events, coroutines (Coroutine, Continuation), metamethods, the pool of  *)
(* VMs (a cell of a VM in the pool is closed before the VM is used again). *)
(***************************************************************************)
EXTENDS Numbers
LOCAL INSTANCE SequencesExt
LOCAL INSTANCE FiniteSetsExt

CONSTANT Chunks  \* the main functions of the programs, as CompileChunk leaves them

VARIABLES
  program,   \* which of them
  frames,    \* the calls, innermost last
  cells, closures, tables, globals,
  output,    \* what emit has been given, and what the program returned
  failed

vars == <<program, frames, cells, closures, tables, globals, output, failed>>

Protos == Chunks \o <<>>  \* a definition without parameters is evaluated once

\* The function a path of child numbers leads to.
RECURSIVE ProtoAt(_, _)
ProtoAt(proto, path) ==
  IF path = <<>> THEN proto ELSE ProtoAt(proto.protos[Head(path)], Tail(path))

ProtoOf(c)  == ProtoAt(Protos[program], closures[c].path)
InstrOf(f)  == ProtoOf(f.closure).code[f.pc + 1]
Frame       == Last(frames)
Instr       == InstrOf(Frame)
Running     == frames # <<>> /\ ~failed
AtEnd       == Frame.pc >= Len(ProtoOf(Frame.closure).code)

(* Registers are numbered from 0. *)
Reg(r)      == Frame.registers[r + 1]
RK(o)       == IF o.constant THEN o.value ELSE Reg(o.register)
Window(f)   == Len(f.registers)
Set(f, r, v) == [f EXCEPT !.registers[r + 1] = v]
Advance(f, n) == [f EXCEPT !.pc = @ + 1 + n]
WithTop(f, t) == [f EXCEPT !.top = t]

CellValue(c) ==
  IF cells[c].level = 0 THEN cells[c].value ELSE frames[cells[c].level].registers[cells[c].register + 1]
Upvalue(u) == closures[Frame.closure].cells[u]

CloseCells(cs) == [c \in DOMAIN cells |-> IF c \in cs THEN [level |-> 0, value |-> CellValue(c)] ELSE cells[c]]

\* CloseUpvaluesFrom: a tracked cell's register decides.
TrackedFrom(f, r) == {o \in f.open : o.register >= r}

FrameBecomes(f) == frames' = [frames EXCEPT ![Len(frames)] = f]

-----------------------------------------------------------------------------
(* Registers an instruction needs, and the operands it cannot work on:     *)
(* either ends the program with an error.                                  *)

RKRegisters(os) == {os[i].register : i \in {j \in DOMAIN os : ~os[j].constant}}
Count(b, open)  == IF b = 0 THEN open ELSE b - 1
OpenFrom(f, r)  == IF f.top >= r THEN f.top - r ELSE -1

Arguments(f, i) == Count(i.b, OpenFrom(f, i.a + 1))
Returns(f, i)   == Count(i.b, IF OpenFrom(f, i.a) >= 0 THEN OpenFrom(f, i.a) ELSE Window(f) - i.a)
Varargs(f, i)   == Count(i.b, Len(f.varargs))
Listed(f, i)    == IF OpenFrom(f, i.a + 1) >= 0 THEN OpenFrom(f, i.a + 1) ELSE Window(f) - i.a - 1

Needs(f, i) ==
  CASE i.op \in {"MOVE", "UNM", "BNOT", "NOT", "LEN", "TESTSET"} -> {i.a, i.b}
    [] i.op \in Arithmetics \cup Bitwises   -> {i.a} \cup RKRegisters(<<i.b, i.c>>)
    [] i.op \in {"EQ", "LT", "LE"}          -> RKRegisters(<<i.b, i.c>>)
    [] i.op = "GETTABLE"                    -> {i.a, i.b} \cup RKRegisters(<<i.c>>)
    [] i.op = "SETTABLE"                    -> {i.a} \cup RKRegisters(<<i.b, i.c>>)
    [] i.op = "SETTABUP"                    -> RKRegisters(<<i.c>>)
    [] i.op = "SELF"                        -> {i.a, i.a + 1, i.b}
    [] i.op = "CONCAT"                      -> {i.a} \cup i.b .. i.c
    [] i.op \in {"CALL", "TAILCALL"}        -> i.a .. i.a + Arguments(f, i)
    [] i.op = "RETURN"                      -> {i.a} \cup i.a .. i.a + Returns(f, i) - 1
    [] i.op = "FORPREP"                     -> i.a .. i.a + 2
    [] i.op = "FORLOOP"                     -> i.a .. i.a + 3
    [] i.op = "TFORCALL"                    -> i.a .. i.a + 2 + i.c
    [] i.op = "TFORLOOP"                    -> {i.a, i.a + 1}
    [] i.op = "SETLIST"                     -> i.a .. i.a + Listed(f, i)
    [] i.op = "VARARG"                      -> i.a .. i.a + Varargs(f, i) - 1
    [] i.op = "JMP"                         -> {}
    [] OTHER                                -> {i.a}

EntryOf(f) == IF f.pc \in DOMAIN f.cache THEN f.cache[f.pc] ELSE NoEntry

NumberOps == Arithmetics \cup Bitwises \cup {"BNOT", "UNM"}

\* What an instruction computes and the entry it leaves, if it can.
Calculated(i) ==
  CASE i.op \in Arithmetics -> arithmetic(i.op, i.b, i.c, Frame.registers, EntryOf(Frame))
    [] i.op \in Bitwises    -> WithoutEntry(executeBinaryBitwise(i.op, RK(i.b), RK(i.c)))
    [] i.op = "BNOT"        -> WithoutEntry(executeBitwiseNot(Reg(i.b)))
    [] i.op = "UNM"         -> WithoutEntry(unaryMinus(Reg(i.b)))

Ordered(i) == (IF i.op = "LT" THEN compareLessThan(RK(i.b), RK(i.c)) ELSE compareLessEqual(RK(i.b), RK(i.c)))
Prepared(i) == forPrep(Reg(i.a), Reg(i.a + 1), Reg(i.a + 2))

\* The operands are numbers, or strings that are one, or in order.
Calculates(i) ==
  CASE i.op \in NumberOps  -> \E c \in ToSet(Calculated(i)) : c.value # ErrDivisionByZero
    [] i.op \in {"LT", "LE"}  -> Ordered(i) # <<>>
    [] i.op = "FORPREP"       -> Prepared(i) # <<>>
    [] OTHER                  -> TRUE

Accepts(i) ==
  CASE i.op = "LEN"                         -> IsTable(Reg(i.b)) \/ IsString(Reg(i.b))
    [] i.op = "GETTABLE"                    -> IsTable(Reg(i.b))
    [] i.op = "SETTABLE"                    -> IsTable(Reg(i.a)) /\ RK(i.b) \notin {NilValue, Float(<<0, 0>>)}
    [] i.op = "SELF"                        -> IsTable(Reg(i.b))
    [] i.op = "SETLIST"                     -> IsTable(Reg(i.a))
    [] i.op = "CONCAT"                      -> \A r \in i.b .. i.c : valueToLuaString(Reg(r)) # <<>>
    [] i.op \in {"CALL", "TAILCALL"}        -> Callable(Reg(i.a)) /\ Arguments(Frame, i) >= 0
    [] i.op = "TFORCALL"                    -> Callable(Reg(i.a))
    [] OTHER                                -> TRUE

Works(i) == (\A r \in Needs(Frame, i) : r < Window(Frame)) /\ Accepts(i)

Fail ==
  /\ Running /\ ~AtEnd /\ ~(Works(Instr) /\ Calculates(Instr))
  /\ failed' = TRUE
  /\ UNCHANGED <<program, frames, cells, closures, tables, globals, output>>

\* The next instruction is i, one of ops.
Executes(ops, i) ==
  /\ Running /\ ~AtEnd
  /\ i.op \in ops /\ Works(i)
  /\ UNCHANGED <<program, failed>>

-----------------------------------------------------------------------------
(* Instructions that compute the value of a register. *)

GetUpval(i)         == CellValue(Upvalue(i.b))
GetTabUp(i)         == At(globals, RK(i.c))
GetTable(i)         == At(tables[Reg(i.b)[2]], makeTableKey(RK(i.c)))
LogicalNot(i)       == Boolean(~Truthy(Reg(i.b)))
LengthOf(i)         == Number(IF IsString(Reg(i.b)) THEN Len(Reg(i.b)[2]) ELSE Border(tables[Reg(i.b)[2]]))
Concat(i)           == String(Written([n \in 1 .. i.c - i.b + 1 |-> valueToLuaString(Reg(i.b + n - 1))[1]]))

Value(i) ==
  CASE i.op = "MOVE"      -> Reg(i.b)
    [] i.op = "LOADK"     -> RK(i.b)
    [] i.op = "LOADNIL"   -> NilValue
    [] i.op = "LOADBOOL"  -> Boolean(i.b = 1)
    [] i.op = "GETUPVAL"  -> GetUpval(i)
    [] i.op = "GETTABUP"  -> GetTabUp(i)
    [] i.op = "GETTABLE"  -> GetTable(i)
    [] i.op = "NOT"       -> LogicalNot(i)
    [] i.op = "LEN"       -> LengthOf(i)
    [] i.op = "CONCAT"    -> Concat(i)

Loads == {"MOVE", "LOADK", "LOADNIL", "LOADBOOL", "GETUPVAL", "GETTABUP", "GETTABLE"}
Operations == {"NOT", "LEN", "CONCAT"}

Compute ==
  LET i == Instr IN
  /\ Executes(Loads \cup Operations, i)
  /\ FrameBecomes(Advance(Set(Frame, i.a, Value(i)), IF i.op = "LOADBOOL" THEN i.c ELSE 0))
  /\ UNCHANGED <<cells, closures, tables, globals, output>>

\* Arithmetic leaves an entry for the next time.
Calculate ==
  LET i == Instr
      Remembering(entry) ==
        IF i.op \in Arithmetics THEN [Frame EXCEPT !.cache = (Frame.pc :> entry) @@ @] ELSE Frame
  IN /\ Executes(NumberOps, i)
     /\ \E c \in ToSet(Calculated(i)) :
          /\ c.value # ErrDivisionByZero
          /\ FrameBecomes(Advance(Set(Remembering(c.entry), i.a, c.value), 0))
     /\ UNCHANGED <<cells, closures, tables, globals, output>>

\* The method is read before the receiver overwrites what may hold it.
Self ==
  LET i == Instr
      t == Reg(i.b)
  IN /\ Executes({"SELF"}, i)
     /\ FrameBecomes(Advance(Set(Set(Frame, i.a + 1, t), i.a, At(tables[t[2]], makeTableKey(RK(i.c)))), 0))
     /\ UNCHANGED <<cells, closures, tables, globals, output>>

-----------------------------------------------------------------------------
(* Instructions that write elsewhere. *)

SetUpvalue ==
  LET i == Instr
      c == Upvalue(i.b)
      closed == cells[c].level = 0
      here == [frames EXCEPT ![Len(frames)] = Advance(Frame, 0)]
  IN /\ Executes({"SETUPVAL"}, i)
     /\ cells' = IF closed THEN [cells EXCEPT ![c].value = Reg(i.a)] ELSE cells
     /\ frames' = IF closed THEN here
                  ELSE [here EXCEPT ![cells[c].level].registers[cells[c].register + 1] = Reg(i.a)]
     /\ UNCHANGED <<closures, tables, globals, output>>

SetGlobal ==
  LET i == Instr IN
  /\ Executes({"SETTABUP"}, i)
  /\ globals' = Put(globals, RK(i.b), RK(i.c))
  /\ FrameBecomes(Advance(Frame, 0))
  /\ UNCHANGED <<cells, closures, tables, output>>

SetTable ==
  LET i == Instr IN
  /\ Executes({"SETTABLE"}, i)
  /\ tables' = [tables EXCEPT ![Reg(i.a)[2]] = Put(@, makeTableKey(RK(i.b)), RK(i.c))]
  /\ FrameBecomes(Advance(Frame, 0))
  /\ UNCHANGED <<cells, closures, globals, output>>

NewTable ==
  LET i == Instr IN
  /\ Executes({"NEWTABLE"}, i)
  /\ tables' = Append(tables, <<>>)
  /\ FrameBecomes(Advance(Set(Frame, i.a, Table(Len(tables) + 1)), 0))
  /\ UNCHANGED <<cells, closures, globals, output>>

SetList ==
  LET i == Instr
      Element(t, n) == Put(t, Number(n), Reg(i.a + n))
  IN /\ Executes({"SETLIST"}, i)
     /\ tables' = [tables EXCEPT ![Reg(i.a)[2]] =
                     FoldLeft(Element, @, [n \in 1 .. Listed(Frame, i) |-> n])]
     /\ FrameBecomes(Advance(Frame, 0))
     /\ UNCHANGED <<cells, closures, globals, output>>

LoadVarargs ==
  LET i == Instr
      n == Varargs(Frame, i)
      Copy(f, k) == Set(f, i.a + k - 1, ValueOr(f.varargs, k))
  IN /\ Executes({"VARARG"}, i)
     /\ FrameBecomes(Advance(WithTop(FoldLeft(Copy, Frame, [k \in 1 .. n |-> k]),
                                     IF i.b = 0 THEN i.a + n ELSE -1), 0))
     /\ UNCHANGED <<cells, closures, tables, globals, output>>

\* A mutant: every closure gets cells of its own.
CaptureAnew(g, u) ==
  LET new == Len(g.cells) + 1
  IN IF ~u.inStack THEN [g EXCEPT !.captured = Append(@, Upvalue(u.index))]
     ELSE [captured |-> Append(g.captured, new),
           cells    |-> Append(g.cells, [level |-> Len(frames), register |-> u.index]),
           open     |-> g.open \cup {[register |-> u.index, cell |-> new]}]

\* An upvalue in the stack shares the cell its register has, if any.
Capture(g, u) ==
  LET at == {o \in Frame.open : o.register = u.index}
      new == Len(g.cells) + 1
  IN CASE ~u.inStack -> [g EXCEPT !.captured = Append(@, Upvalue(u.index))]
       [] at # {}    -> [g EXCEPT !.captured = Append(@, (CHOOSE o \in at : TRUE).cell)]
       [] OTHER      -> [captured |-> Append(g.captured, new),
                         cells    |-> Append(g.cells, [level |-> Len(frames), register |-> u.index]),
                         open     |-> g.open \cup {[register |-> u.index, cell |-> new]}]

MakeClosure ==
  LET i == Instr
      f == Closure(Len(closures) + 1)
      path == Append(closures[Frame.closure].path, i.b)
      g == FoldLeft(Capture, [captured |-> <<>>, cells |-> cells, open |-> Frame.open],
                    ProtoAt(Protos[program], path).upvalues)
  IN /\ Executes({"CLOSURE"}, i)
     /\ cells' = g.cells
     /\ closures' = Append(closures, [path |-> path, cells |-> g.captured])
     /\ FrameBecomes(Advance(Set([Frame EXCEPT !.open = g.open], i.a, f), 0))
     /\ UNCHANGED <<tables, globals, output>>

-----------------------------------------------------------------------------
(* Tests, jumps and loops. *)

SkipIf(skip) == FrameBecomes(Advance(Frame, IF skip THEN 1 ELSE 0))

EqualityTest ==
  LET i == Instr IN
  /\ Executes({"EQ"}, i)
  /\ SkipIf(RawEqual(RK(i.b), RK(i.c)) # (i.a # 0))
  /\ UNCHANGED <<cells, closures, tables, globals, output>>

OrderTest ==
  LET i == Instr IN
  /\ Executes({"LT", "LE"}, i)
  /\ \E ordered \in ToSet(Ordered(i)) : SkipIf(ordered # (i.a # 0))
  /\ UNCHANGED <<cells, closures, tables, globals, output>>

Test ==
  LET i == Instr IN
  /\ Executes({"TEST"}, i)
  /\ SkipIf(Truthy(Reg(i.a)) # (i.c # 0))
  /\ UNCHANGED <<cells, closures, tables, globals, output>>

TestSet ==
  LET i == Instr IN
  /\ Executes({"TESTSET"}, i)
  /\ IF Truthy(Reg(i.b)) # (i.c # 0) THEN SkipIf(TRUE)
                                     ELSE FrameBecomes(Advance(Set(Frame, i.a, Reg(i.b)), 0))
  /\ UNCHANGED <<cells, closures, tables, globals, output>>

Jump ==
  LET i == Instr
      closing == IF i.a = 0 THEN {} ELSE TrackedFrom(Frame, i.a - 1)
  IN /\ Executes({"JMP"}, i)
     /\ cells' = CloseCells({o.cell : o \in closing})
     /\ FrameBecomes(Advance([Frame EXCEPT !.open = @ \ closing], i.b))
     /\ UNCHANGED <<closures, tables, globals, output>>

\* The index starts one step early.
ForPrep ==
  LET i == Instr
      Starts(start) == start # <<>> /\ FrameBecomes(Advance(Set(Set(Frame, i.a, start[1]), i.a + 1, start[2]), i.b))
  IN /\ Executes({"FORPREP"}, i)
     /\ Starts(Prepared(i))
     /\ UNCHANGED <<cells, closures, tables, globals, output>>

ForLoop ==
  LET i == Instr
      Continuing(next) == IF next = <<>> THEN Advance(Frame, 0)
                          ELSE Advance(Set(Set(Frame, i.a, next[1]), i.a + 3, next[1]), i.b)
  IN /\ Executes({"FORLOOP"}, i)
     /\ FrameBecomes(Continuing(forLoop(Reg(i.a), Reg(i.a + 1), Reg(i.a + 2))))
     /\ UNCHANGED <<cells, closures, tables, globals, output>>

TForLoop ==
  LET i == Instr
      control == Reg(i.a + 1)
  IN /\ Executes({"TFORLOOP"}, i)
     /\ FrameBecomes(IF control = NilValue THEN Advance(Frame, 0)
                     ELSE Advance(Set(Frame, i.a, control), i.b))
     /\ UNCHANGED <<cells, closures, tables, globals, output>>

-----------------------------------------------------------------------------
(* Calls.  The caller's instruction says where the results go. *)

ActiveAt(v, pc) == v.start <= pc /\ pc < v.end
ActiveLocals(f, pc) == {n \in DOMAIN ProtoOf(f.closure).localVars :
                          ActiveAt(ProtoOf(f.closure).localVars[n], pc)}

\* What is left of the arguments becomes nil, unless a local lives there.
ClearFixedCallArgumentTemporaries(f, i, given) ==
  LET live == {ProtoOf(f.closure).localVars[n].register : n \in ActiveLocals(f, f.pc + 1)}
  IN [f EXCEPT !.registers =
        [r \in DOMAIN @ |-> IF r - 1 \in (i.a + i.c - 1 .. i.a + given) \ live THEN NilValue ELSE @[r]]]

EnsureRegisterCount(f, n) ==
  [f EXCEPT !.registers = @ \o [r \in 1 .. Max({0, n - Window(f)}) |-> NilValue]]

WriteResults(f, first, n, results) ==
  FoldLeft(LAMBDA g, k : Set(g, first + k - 1, ValueOr(results, k)), f, [k \in 1 .. n |-> k])

writeLuaCallResults(f, i, given, results) ==
  LET n == Len(results)
  IN CASE i.op = "TFORCALL" -> WithTop(WriteResults(f, i.a + 3, i.c, results), -1)
       [] i.c = 0 -> WithTop(WriteResults(EnsureRegisterCount(f, i.a + n), i.a, n, results), i.a + n)
       [] OTHER   -> ClearFixedCallArgumentTemporaries(
                       WithTop(WriteResults(f, i.a, i.c - 1, results), -1), i, given)

\* The frame at level k goes on with the results; closing are the cells of
\* the frames above it.  Registers that no longer fit are moved, and their
\* cells keep the old ones: as many fit as the slice happens to have.
Deliver(k, given, results, closing) ==
  LET f == frames[k]
      i == InstrOf(f)
      g == writeLuaCallResults(f, i, given, results)
  IN \E moved \in BOOLEAN :
       /\ moved => Window(g) > Window(f)
       /\ cells' = CloseCells(closing \cup IF moved THEN {o.cell : o \in f.open} ELSE {})
       /\ frames' = Append(SubSeq(frames, 1, k - 1), Advance(g, 0))

CellsAbove(k) == {o.cell : o \in UNION {frames[j].open : j \in k + 1 .. Len(frames)}}

\* A tail call of another function is a call whose results are returned.
\* What the main function returns is seen as well.
ReturnFrom(results, seen) ==
  LET callers == {j \in 1 .. Len(frames) - 1 : InstrOf(frames[j]).op # "TAILCALL"}
      k == Max(callers \cup {0})
  IN IF k = 0
     THEN /\ frames' = <<>>
          /\ cells' = CloseCells(CellsAbove(0))
          /\ output' = seen \o results
     ELSE /\ Deliver(k, frames[k + 1].given, results, CellsAbove(k))
          /\ output' = seen

Return ==
  LET i == Instr IN
  /\ Executes({"RETURN"}, i)
  /\ ReturnFrom([n \in 1 .. Returns(Frame, i) |-> Reg(i.a + n - 1)], output)
  /\ UNCHANGED <<closures, tables, globals>>

\* A function without a RETURN at its end returns nothing.
FallOffTheEnd ==
  /\ Running /\ AtEnd
  /\ ReturnFrom(<<>>, output)
  /\ UNCHANGED <<program, closures, tables, globals, failed>>

(* Frames. *)

luaClosureRegisterCount(proto, varargs) ==
  LET open == {n \in DOMAIN proto.code : proto.code[n].op = "VARARG" /\ proto.code[n].b = 0}
  IN Max({1, proto.maxStackSize, proto.params} \cup
         IF proto.vararg THEN {proto.code[n].a + varargs : n \in open} ELSE {})

luaClosureVarargs(proto, args) ==
  IF proto.vararg THEN SubSeq(args, proto.params + 1, Len(args)) ELSE <<>>

Registers(proto, n, args) ==
  [r \in 1 .. n |-> IF r <= proto.params THEN ValueOr(args, r) ELSE NilValue]

NewFrame(c, args) ==
  LET proto == ProtoOf(c)
      varargs == luaClosureVarargs(proto, args)
  IN [closure |-> c, pc |-> 0, varargs |-> varargs, top |-> -1, open |-> {}, given |-> Len(args), cache |-> <<>>,
      registers |-> Registers(proto, luaClosureRegisterCount(proto, Len(varargs)), args)]

\* ResetForTailCall: the same VM, and the same window.
ResetForTailCall(f, args) ==
  LET proto == ProtoOf(f.closure)
  IN [f EXCEPT !.pc = 0, !.varargs = luaClosureVarargs(proto, args), !.top = -1, !.open = {},
               !.registers = Registers(proto, Window(f), args)]

ArgumentValues(i) ==
  [n \in 1 .. (IF i.op = "TFORCALL" THEN 2 ELSE Arguments(Frame, i)) |-> Reg(i.a + n)]

CallLua ==
  LET i == Instr
      v == Reg(i.a)
      args == ArgumentValues(i)
      caller == IF i.op = "TFORCALL" THEN Frame ELSE WithTop(Frame, -1)
  IN /\ Executes({"CALL", "TAILCALL", "TFORCALL"}, i)
     /\ v[1] = "function"
     /\ i.op = "TAILCALL" => v[2] # Frame.closure
     /\ frames' = Append(Front(frames), caller) \o <<NewFrame(v[2], args)>>
     /\ UNCHANGED <<cells, closures, tables, globals, output>>

TailCallSelf ==
  LET i == Instr IN
  /\ Executes({"TAILCALL"}, i)
  /\ Reg(i.a) = Closure(Frame.closure)
  /\ cells' = CloseCells({o.cell : o \in TrackedFrom(Frame, 0)})
  /\ FrameBecomes(ResetForTailCall(Frame, ArgumentValues(i)))
  /\ UNCHANGED <<closures, tables, globals, output>>

CallGo ==
  LET i == Instr
      v == Reg(i.a)
      args == ArgumentValues(i)
  IN /\ Executes({"CALL", "TAILCALL", "TFORCALL"}, i)
     /\ v[1] = "external"
     /\ IF i.op = "TAILCALL" THEN ReturnFrom(External(v[2], args), output \o Observed(v[2], args))
        ELSE /\ Deliver(Len(frames), Len(args), External(v[2], args), {})
             /\ output' = output \o Observed(v[2], args)
     /\ UNCHANGED <<closures, tables, globals>>

-----------------------------------------------------------------------------

Init ==
  /\ program \in DOMAIN Protos
  /\ closures = <<[path |-> <<>>, cells |-> <<>>]>>
  /\ frames = IF Protos[program].rejected THEN <<>> ELSE <<NewFrame(1, <<>>)>>
  /\ cells = <<>> /\ tables = <<>> /\ output = <<>>
  /\ globals = Globals
  /\ failed = Protos[program].rejected

Next ==
  \/ Compute \/ Calculate \/ Self \/ SetUpvalue \/ SetGlobal \/ SetTable \/ NewTable \/ SetList
  \/ LoadVarargs \/ MakeClosure \/ EqualityTest \/ OrderTest \/ Test \/ TestSet \/ Jump \/ ForPrep \/ ForLoop \/ TForLoop
  \/ CallLua \/ TailCallSelf \/ CallGo \/ Return \/ FallOffTheEnd \/ Fail

(* The VM runs on by itself: weak fairness of Next, which is enabled as    *)
(* long as the program runs.                                               *)
Fairness == <>[](~Running) \/ []<><<Next>>_vars

Spec == Init /\ [][Next]_vars /\ Fairness

-----------------------------------------------------------------------------

\* The registers a for loop keeps its state in while it runs.
LoopControl(f) ==
  LET code == ProtoOf(f.closure).code
      Inside(n) == CASE code[n].op = "FORPREP"  -> n <= f.pc /\ f.pc <= n + code[n].b
                     [] code[n].op = "TFORLOOP" -> n + code[n].b <= f.pc /\ f.pc < n
                     [] OTHER -> FALSE
  IN UNION {IF code[n].op = "FORPREP" THEN code[n].a .. code[n].a + 2 ELSE code[n].a - 2 .. code[n].a :
              n \in {m \in DOMAIN code : Inside(m)}}

\* A binary chunk does not say where a local lives: its reader guesses, so
\* that the two invariants are about the functions of a source.
FromChunk(f) == "source" \in DOMAIN ProtoOf(f.closure)

(* Locals in scope share no register with each other or with the control   *)
(* of a loop around them: what releaseCallArgumentsAfterFixedResult says   *)
(* it is careful about, and every other release of a register must be.     *)
RegistersApart ==
  \A k \in {n \in DOMAIN frames : ~FromChunk(frames[n])} :
    LET f == frames[k]
        Register(n) == ProtoOf(f.closure).localVars[n].register
    IN \A n \in ActiveLocals(f, f.pc) :
         /\ Register(n) \notin LoopControl(f)
         /\ \A m \in ActiveLocals(f, f.pc) \ {n} : Register(m) # Register(n)

(* A cell stays open only while the local it was made for is in scope: the *)
(* JMPs of endScope, break, continue and goto, RETURN and the calls close  *)
(* what they leave, and nothing that is still in scope stays unheard of.   *)
OpenCellsActive ==
  \A k \in {n \in DOMAIN frames : ~FromChunk(frames[n])} :
    LET f == frames[k]
        active == {ProtoOf(f.closure).localVars[n].register : n \in ActiveLocals(f, f.pc)}
        over   == f.pc >= Len(ProtoOf(f.closure).code)
    IN \A o \in f.open : cells[o.cell].level = 0 \/ over \/ o.register \in active

(* Every program comes to its end, or to the error it is to fail with: no  *)
(* jump of a loop, a goto or a short circuit is patched to a place from    *)
(* which the program goes round for ever.                                  *)
Ends == <>(frames = <<>> \/ failed)
=============================================================================
