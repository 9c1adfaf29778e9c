------------------------------ MODULE Codegen ------------------------------
(***************************************************************************)
(* The code generator (compiler/codegen): one pass over the syntax tree    *)
(* that gives every local and every intermediate result a register, emits  *)
(* the instructions, and decides which registers are closed where.  Every  *)
(* operator has the name of the Go function it stands for, takes what that *)
(* takes and the generators s, and returns the generators after it.        *)
(*                                                                         *)
(* s is a stack: the generator of a function above that of the function it *)
(* is nested in.  A register the Go function returns is read off the       *)
(* generators before it: allocateRegister's is Free(s).                    *)
(*                                                                         *)
(* Abstracted: _ENV (a global is accessed by name), const bindings, the    *)
(* limits of instruction fields and registers, constant tables (an operand *)
(* holds its constant), source lines.                                      *)
(***************************************************************************)
EXTENDS Syntax
LOCAL INSTANCE SequencesExt
LOCAL INSTANCE FiniteSetsExt

-----------------------------------------------------------------------------
(* Instructions.  A jump's offset is in b. *)

I(op, a, b, c) == [op |-> op, a |-> a, b |-> b, c |-> c]
R(r) == [constant |-> FALSE, register |-> r, value |-> NilValue]
K(v) == [constant |-> TRUE, register |-> -1, value |-> v]

ArithmeticOp ==
  "+" :> "ADD" @@ "-" :> "SUB" @@ "*" :> "MUL" @@ "%" :> "MOD" @@ "^" :> "POW" @@ "/" :> "DIV" @@ "//" :> "IDIV"
  @@ "&" :> "BAND" @@ "|" :> "BOR" @@ "~" :> "BXOR" @@ "<<" :> "SHL" @@ ">>" :> "SHR"
OrderOperators      == {"<", "<=", ">", ">="}
ComparisonOperators == {"==", "~="} \union OrderOperators
IsArithmetic(e) == e.kind = "binary" /\ e.operator \in DOMAIN ArithmeticOp

comparisonOpCode(o) ==
  [op      |-> CASE o \in {"==", "~="} -> "EQ" [] o \in {"<", ">"} -> "LT" [] OTHER -> "LE",
   onTrue  |-> IF o = "~=" THEN 0 ELSE 1,
   swapped |-> o \in {">", ">="}]

-----------------------------------------------------------------------------
(* Generators. *)

\* analyzed: the parser has numbered the blocks of the function.
newGenerator(params, vararg, analyzed) ==
  [params |-> params, vararg |-> vararg, analyzed |-> analyzed, code |-> <<>>, protos |-> <<>>,
   upvalues |-> <<>>, localVars |-> <<>>, locals |-> <<>>,
   next |-> 0, max |-> 0,                    \* nextRegister, maxRegister
   loops |-> <<>>,                           \* break, continue jumps; close register
   labels |-> <<>>, gotos |-> <<>>,
   scope |-> <<>>,                           \* the blocks around, by number
   blocks |-> 0, returned |-> FALSE, failed |-> FALSE]

Proto(g) ==
  [params |-> g.params, vararg |-> g.vararg, code |-> g.code, upvalues |-> g.upvalues,
   localVars |-> g.localVars, protos |-> g.protos, maxStackSize |-> g.max, rejected |-> g.failed]

Cur(s)      == Last(s)
Free(s)     == Cur(s).next
PC(s)       == Len(Cur(s).code)
emit(i, s)  == [s EXCEPT ![Len(s)].code = Append(@, i)]
emitABC(op, a, b, c, s) == emit(I(op, a, b, c), s)
emitJump(a, s) == emit(I("JMP", a, 0, 0), s)

patchJump(pc, target, s) == [s EXCEPT ![Len(s)].code[pc + 1].b = target - pc - 1]
patchJumps(pcs, target, s) ==
  FoldLeft(LAMBDA t, pc : patchJump(pc, target, t), s, pcs)

(* Registers. *)

allocateRegister(s) ==
  [s EXCEPT ![Len(s)].next = @ + 1, ![Len(s)].max = Max({@, Free(s) + 1})]
allocateRegisters(n, s) ==
  [s EXCEPT ![Len(s)].next = @ + n, ![Len(s)].max = Max({@, Free(s) + n})]
ensureRegister(r, s) ==
  [s EXCEPT ![Len(s)].next = Max({@, r + 1}), ![Len(s)].max = Max({@, r + 1})]
releaseRegister(r, s) == IF r = Free(s) - 1 THEN [s EXCEPT ![Len(s)].next = @ - 1] ELSE s
releaseRegistersFrom(r, s) == [s EXCEPT ![Len(s)].next = Min({@, r})]
\* Two temporaries, the later one first.
releaseBoth(r, s) == releaseRegister(r, releaseRegister(r + 1, s))

(* Locals. *)

HasLocal(n, s)    == n \in DOMAIN Cur(s).locals
lookupLocal(n, s) == Cur(s).locals[n]
Bindings(s)       == {Cur(s).locals[n] : n \in DOMAIN Cur(s).locals}
registerHasActiveLocal(r, s) == \E b \in Bindings(s) : b.register = r

releaseCallArgumentsAfterFixedResult(r, n, s) ==
  releaseRegistersFrom(Max({r + n} \cup {b.register + 1 : b \in Bindings(s)}), s)

defineLocal(n, r, s) ==
  LET g      == Cur(s)
      hidden == HasLocal(n, s) /\ g.locals[n].scope = g.scope
      vars   == IF hidden THEN [g.localVars EXCEPT ![g.locals[n].var].end = PC(s)] ELSE g.localVars
  IN [s EXCEPT
        ![Len(s)].localVars =
            Append(vars, [name |-> n, register |-> r, start |-> PC(s), end |-> PC(s)]),
        ![Len(s)].locals =
            (n :> [register |-> r, var |-> Len(vars) + 1, scope |-> g.scope,
                   captured |-> FALSE]) @@ @]

defineLocals(names, first, s) ==
  FoldLeft(LAMBDA t, i : defineLocal(names[i], first + i - 1, t), s, [i \in DOMAIN names |-> i])

pushScope(s) ==
  IF Cur(s).analyzed
  THEN [s EXCEPT ![Len(s)].scope = Append(@, Cur(s).blocks + 1), ![Len(s)].blocks = @ + 1]
  ELSE s
popScope(s)  == IF Cur(s).analyzed THEN [s EXCEPT ![Len(s)].scope = Front(@)] ELSE s

beginScope(s) ==
  [locals |-> Cur(s).locals, count |-> Len(Cur(s).localVars), next |-> Free(s)]

\* A mutant: a scope closes nothing.
CapturedNowhere(count, s) == FALSE
hasCapturedLocalSince(count, s) == \E b \in Bindings(s) : b.var > count /\ b.captured

mergeCapturedLocalsIntoSnapshot(locals, s) ==
  LET captured == {n \in DOMAIN locals : /\ lookupLocal(n, s).var = locals[n].var
                                         /\ lookupLocal(n, s).captured}
  IN [n \in captured |-> [locals[n] EXCEPT !.captured = TRUE]] @@ locals

\* Closing is a JMP to the next instruction.
endScope(scope, end, s) ==
  LET closes == hasCapturedLocalSince(scope.count, s)
      t      == IF closes THEN emitJump(scope.next + 1, s) ELSE s
      last   == IF closes THEN PC(t) ELSE end
  IN [t EXCEPT
        ![Len(t)].localVars =
            SubSeq(@, 1, scope.count) \o
            [i \in 1 .. Len(@) - scope.count |-> [@[scope.count + i] EXCEPT !.end = last]],
        ![Len(t)].locals = mergeCapturedLocalsIntoSnapshot(scope.locals, t),
        ![Len(t)].next = scope.next]

closeLocals(s) ==
  [s EXCEPT ![Len(s)].localVars =
     [i \in DOMAIN @ |-> IF \E b \in Bindings(s) : b.var = i
                         THEN [@[i] EXCEPT !.end = PC(s)] ELSE @[i]]]

(* Upvalues.  resolveUpvalue fails, changing nothing, unless Captured. *)

UpvalueIndex(n, g) == SelectInSeq(g.upvalues, LAMBDA u : u.name = n)

RECURSIVE Captured(_, _)
Captured(n, s) ==
  \/ UpvalueIndex(n, Cur(s)) # 0
  \/ Len(s) > 1 /\ (HasLocal(n, Front(s)) \/ Captured(n, Front(s)))

NewUpvalue(n, inStack, index, s, g) ==
  Append(s, [g EXCEPT !.upvalues =
                Append(@, [name |-> n, inStack |-> inStack, index |-> index])])

MarkCaptured(n, s) == [s EXCEPT ![Len(s)].locals[n].captured = TRUE]

RECURSIVE resolveUpvalue(_, _)
resolveUpvalue(n, s) ==
  IF UpvalueIndex(n, Cur(s)) # 0 THEN s
  ELSE IF HasLocal(n, Front(s))
  THEN NewUpvalue(n, TRUE, lookupLocal(n, Front(s)).register, MarkCaptured(n, Front(s)), Cur(s))
  ELSE LET parents == resolveUpvalue(n, Front(s))
       IN NewUpvalue(n, FALSE, UpvalueIndex(n, Cur(parents)), parents, Cur(s))

-----------------------------------------------------------------------------
(* Expressions, each into a given register. *)

RECURSIVE compileExpressionTo(_, _, _), compileCallTo(_, _, _, _), compileChildProto(_, _, _)

isOpenListExpression(e) == e.kind \in {"vararg", "call", "method"}
IsCall(e) == e.kind \in {"call", "method"}
HasOpenEnd(es) == es # <<>> /\ isOpenListExpression(Last(es))

isSafeRKCandidate(e, s) == e.kind = "literal" \/ (e.kind = "name" /\ HasLocal(e.name, s))
safeRKOperand(e, s) ==
  IF e.kind = "literal" THEN K(e.value) ELSE R(lookupLocal(e.name, s).register)

\* Each of es into a register of its own, from first on.
compileAll(es, first, s) ==
  FoldLeft(LAMBDA t, i : compileExpressionTo(es[i], first + i - 1, t), s, [i \in DOMAIN es |-> i])

\* The value alone is kept: what a call's arguments needed is given back.
compileOperandTo(e, r, s) ==
  LET t == compileExpressionTo(e, r, s)
  IN IF IsCall(e) THEN releaseCallArgumentsAfterFixedResult(r, 1, t) ELSE t

(* Calls.  B is 0 where the arguments are open, C where the results are. *)

compileOpenListExpressionTo(e, r, s) ==
  IF e.kind = "vararg" THEN emitABC("VARARG", r, 0, 0, s) ELSE compileCallTo(e, r, -1, s)

callArguments(es, first, s) ==
  IF HasOpenEnd(es)
  THEN compileOpenListExpressionTo(Last(es), first + Len(es) - 1, compileAll(Front(es), first, s))
  ELSE compileAll(es, first, s)

\* The values of a constructor or a return: the last register is reserved.
compileOpenList(es, first, s) ==
  LET last == first + Len(es) - 1
  IN compileOpenListExpressionTo(Last(es), last, ensureRegister(last, compileAll(Front(es), first, s)))

prepareCall(e, base, s) ==
  IF e.kind = "call"
  THEN callArguments(e.arguments, base + 1, compileExpressionTo(e.function, base, s))
  ELSE LET t == ensureRegister(base + 1, compileExpressionTo(e.receiver, base, s))
       IN callArguments(e.arguments, base + 2,
                        emitABC("SELF", base, base, K(Key(e.method)), t))

argumentField(e) ==
  IF HasOpenEnd(e.arguments) THEN 0
  ELSE Len(e.arguments) + (IF e.kind = "call" THEN 1 ELSE 2)

compileCallTo(e, r, results, s) ==
  emitABC("CALL", r, argumentField(e), results + 1, prepareCall(e, r, s))

(* Names. *)

compileNameTo(n, r, s) ==
  IF HasLocal(n, s)
  THEN LET source == lookupLocal(n, s).register
       IN IF source = r THEN s ELSE emitABC("MOVE", r, source, 0, s)
  ELSE IF Captured(n, s)
  THEN LET t == resolveUpvalue(n, s) IN emitABC("GETUPVAL", r, UpvalueIndex(n, Cur(t)), 0, t)
  ELSE emitABC("GETTABUP", r, 0, K(Key(n)), s)

compileLiteralTo(v, r, s) ==
  CASE v = NilValue -> emitABC("LOADNIL", r, 0, 0, s)
    [] v = Boolean(TRUE) -> emitABC("LOADBOOL", r, 1, 0, s)
    [] v = Boolean(FALSE) -> emitABC("LOADBOOL", r, 0, 0, s)
    [] OTHER -> emitABC("LOADK", r, K(v), 0, s)

compileFieldAccessTo(e, r, s) ==
  emitABC("GETTABLE", r, r, K(Key(e.field)), compileExpressionTo(e.receiver, r, s))

compileIndexAccessTo(e, r, s) ==
  LET table == Free(s)
      t == compileAll(<<e.receiver, e.index>>, table, allocateRegisters(2, s))
  IN releaseBoth(table, emitABC("GETTABLE", r, table, R(table + 1), t))

(* Operators. *)

UnaryOp(o) == CASE o = "-" -> "UNM" [] o = "not" -> "NOT" [] o = "#" -> "LEN" [] o = "~" -> "BNOT"

compileUnaryTo(e, r, s) ==
  LET op == UnaryOp(e.operator)
  IN IF e.operand.kind = "name" /\ HasLocal(e.operand.name, s)
     THEN emitABC(op, r, lookupLocal(e.operand.name, s).register, 0, s)
     ELSE IF registerHasActiveLocal(r, s)
     THEN LET operand == Free(s)
              t == compileExpressionTo(e.operand, operand, allocateRegister(s))
          IN releaseRegister(operand, emitABC(op, r, operand, 0, t))
     ELSE emitABC(op, r, r, 0, compileExpressionTo(e.operand, r, s))

\* binaryRightOperand around the instruction that uses it.
emitWithRightOperand(op, r, left, right, s) ==
  IF isSafeRKCandidate(right, s) THEN emitABC(op, r, left, safeRKOperand(right, s), s)
  ELSE LET operand == Free(s)
           t == compileOperandTo(right, operand, allocateRegister(s))
       IN releaseRegister(operand, emitABC(op, r, left, R(operand), t))

compileBinaryWithTemps(e, r, s) ==
  LET left == Free(s)
      t == compileAll(<<e.left, e.right>>, left, allocateRegisters(2, s))
  IN releaseBoth(left, emitABC(ArithmeticOp[e.operator], r, R(left), R(left + 1), t))

compileBinaryLeftRKRightToTargetTo(e, r, s) ==
  emitABC(ArithmeticOp[e.operator], r, safeRKOperand(e.left, s), R(r),
          compileOperandTo(e.right, r, s))

compileBinaryWithReusableTargetTo(e, r, s) ==
  emitWithRightOperand(ArithmeticOp[e.operator], r, R(r), e.right,
                       compileOperandTo(e.left, r, s))

compileArithmeticTo(e, r, s) ==
  CASE isSafeRKCandidate(e.left, s) /\ isSafeRKCandidate(e.right, s) ->
         emitABC(ArithmeticOp[e.operator], r, safeRKOperand(e.left, s), safeRKOperand(e.right, s), s)
    [] registerHasActiveLocal(r, s) -> compileBinaryWithTemps(e, r, s)
    [] isSafeRKCandidate(e.left, s) -> compileBinaryLeftRKRightToTargetTo(e, r, s)
    [] OTHER -> compileBinaryWithReusableTargetTo(e, r, s)

RECURSIVE flattenConcatOperands(_)
flattenConcatOperands(e) ==
  IF e.kind = "binary" /\ e.operator = ".."
  THEN flattenConcatOperands(e.left) \o flattenConcatOperands(e.right) ELSE <<e>>

compileConcatTo(e, r, s) ==
  LET operands == flattenConcatOperands(e)
      start == Free(s)
      t == compileAll(operands, start, allocateRegister(s))
  IN releaseRegistersFrom(start, emitABC("CONCAT", r, start, start + Len(operands) - 1, t))

\* A comparison skips the next instruction when it does not come out as A says.
emitComparison(o, onTrue, left, right, s) ==
  LET code == comparisonOpCode(o)
  IN IF code.swapped THEN emitABC(code.op, onTrue, right, left, s)
                     ELSE emitABC(code.op, onTrue, left, right, s)

compileComparisonTo(e, r, s) ==
  LET left == Free(s)
      t == compileAll(<<e.left, e.right>>, left, allocateRegisters(2, s))
      u == emitComparison(e.operator, comparisonOpCode(e.operator).onTrue,
                          R(left), R(left + 1), t)
  IN releaseBoth(left, emitABC("LOADBOOL", r, 0, 0, emitABC("LOADBOOL", r, 1, 1, u)))

\* and keeps a false value, or a true one, and jumps over the other operand.
compileShortCircuitTo(e, r, s) ==
  LET keeps == IF e.operator = "and" THEN 0 ELSE 1
      t == IF /\ e.left.kind = "name" /\ HasLocal(e.left.name, s)
              /\ lookupLocal(e.left.name, s).register # r
           THEN emitABC("TESTSET", r, lookupLocal(e.left.name, s).register, keeps, s)
           ELSE emitABC("TEST", r, 0, keeps, compileExpressionTo(e.left, r, s))
      u == compileExpressionTo(e.right, r, emitJump(0, t))
  IN patchJump(PC(t), PC(u), u)

compileBinaryTo(e, r, s) ==
  CASE e.operator \in {"and", "or"} -> compileShortCircuitTo(e, r, s)
    [] e.operator \in ComparisonOperators -> compileComparisonTo(e, r, s)
    [] e.operator = ".." -> compileConcatTo(e, r, s)
    [] OTHER -> compileArithmeticTo(e, r, s)

(* Tables: the fields of the list, then the named, then the indexed ones. *)

emitTableItem(table, key, e, s) ==
  LET value == Free(s)
      t == compileExpressionTo(e, value, allocateRegister(s))
  IN releaseRegister(value, emitABC("SETTABLE", table, key, R(value), t))

emitIndexField(table, field, s) ==
  LET key == Free(s)
      t == allocateRegister(compileExpressionTo(field.key, key, allocateRegister(s)))
      value == Free(t) - 1
      u == emitABC("SETTABLE", table, R(key), R(value), compileExpressionTo(field.value, value, t))
  IN releaseRegister(key, releaseRegister(value, u))

compileTableConstructorTo(e, r, s) ==
  LET new == emitABC("NEWTABLE", r, 0, 0, s)
      listed ==
        IF HasOpenEnd(e.fields)
        THEN emitABC("SETLIST", r, 0, 1, compileOpenList(e.fields, r + 1, new))
        ELSE FoldLeft(LAMBDA t, i : emitTableItem(r, K(Number(i)), e.fields[i], t),
                      new, [i \in DOMAIN e.fields |-> i])
      named == FoldLeft(LAMBDA t, f : emitTableItem(r, K(Key(f.name)), f.value, t), listed, e.records)
  IN FoldLeft(LAMBDA t, f : emitIndexField(r, f, t), named, e.indexed)

compileExpressionTo(e, r, s) ==
  LET t == ensureRegister(r, s)
  IN CASE e.kind = "literal"  -> compileLiteralTo(e.value, r, t)
       [] e.kind = "name"     -> compileNameTo(e.name, r, t)
       [] e.kind = "unary"    -> compileUnaryTo(e, r, t)
       [] e.kind = "binary"   -> compileBinaryTo(e, r, t)
       [] e.kind = "prefix"   -> compileExpressionTo(e.inner, r, t)
       [] e.kind = "table"    -> compileTableConstructorTo(e, r, t)
       [] e.kind = "function" ->
            LET u == compileChildProto(e, FALSE, t) IN emitABC("CLOSURE", r, Len(Cur(u).protos), 0, u)
       [] IsCall(e)           -> compileCallTo(e, r, 1, t)
       [] e.kind = "field"    -> compileFieldAccessTo(e, r, t)
       [] e.kind = "index"    -> compileIndexAccessTo(e, r, t)
       [] e.kind = "vararg"   -> emitABC("VARARG", r, 2, 0, t)

-----------------------------------------------------------------------------
(* Lists of values. *)

\* A call or ... at the end fills all the registers that are left.
compileTrailingAssignmentValue(e, r, remaining, s) ==
  IF IsCall(e) THEN compileCallTo(e, r, remaining, s) ELSE emitABC("VARARG", r, remaining + 1, 0, s)

LoadNils(first, n, s) ==
  FoldLeft(LAMBDA t, i : emitABC("LOADNIL", first + i - 1, 0, 0, t), s, [i \in 1 .. n |-> i])

\* The values of es into n registers.
compileValues(es, first, n, s) ==
  LET given == Min({Len(es), n})
  IN IF Len(es) <= n /\ HasOpenEnd(es)
     THEN compileTrailingAssignmentValue(Last(es), first + given - 1, n - given + 1,
                                         compileAll(Front(es), first, s))
     ELSE LoadNils(first + given, n - given, compileAll(SubSeq(es, 1, given), first, s))

\* Values nobody takes are evaluated all the same.
compileExtraValues(es, n, s) ==
  FoldLeft(LAMBDA t, e : releaseRegister(Free(t), compileExpressionTo(e, Free(t), allocateRegister(t))),
           s, SubSeq(es, n + 1, Len(es)))

\* A mutant: the registers that got no value of their own are released.
ReleaseValueless(st, s) ==
  LET first == Free(s)
      n == Len(st.names)
      t == compileExtraValues(st.values, n, compileValues(st.values, first, n, allocateRegisters(n, s)))
  IN defineLocals(st.names, first, releaseRegistersFrom(first + Len(st.values), t))

compileLocalAssignment(st, s) ==
  LET first == Free(s)
      n == Len(st.names)
      t == compileExtraValues(st.values, n, compileValues(st.values, first, n, allocateRegisters(n, s)))
  IN defineLocals(st.names, first, releaseRegistersFrom(first + n, t))

-----------------------------------------------------------------------------
(* Assignments: seven forms of a single one that need fewer registers, and *)
(* the general form, which evaluates everything before it assigns.         *)

LocalRegister(e, s) == lookupLocal(e.name, s).register
IsLocalName(e, s)   == e.kind = "name" /\ HasLocal(e.name, s)

compileSingleLocalFieldSelfBinaryAssignment(l, e, s) ==
  LET value == Free(s)
      table == LocalRegister(l.receiver, s)
      t == emitABC("GETTABLE", value, table, K(Key(l.field)), allocateRegister(s))
      u == emitABC(ArithmeticOp[e.operator], value, R(value), safeRKOperand(e.right, s), t)
  IN releaseRegistersFrom(value, emitABC("SETTABLE", table, K(Key(l.field)), R(value), u))

sameLocalFieldAccess(l, e) ==
  e.kind = "field" /\ e.field = l.field /\ e.receiver.kind = "name" /\ e.receiver.name = l.receiver.name

RECURSIVE isSelfBinaryChainRoot(_, _), selfBinaryChainContainsCall(_), isSafePureBinaryExpression(_, _)
isSelfBinaryChainRoot(n, e) ==
  IsArithmetic(e) /\ IF e.left.kind = "name" THEN e.left.name = n ELSE isSelfBinaryChainRoot(n, e.left)

selfBinaryChainContainsCall(e) ==
  CASE IsCall(e)           -> TRUE
    [] e.kind = "binary"   -> \/ selfBinaryChainContainsCall(e.left)
                              \/ selfBinaryChainContainsCall(e.right)
    [] e.kind = "unary"    -> selfBinaryChainContainsCall(e.operand)
    [] e.kind = "prefix"   -> selfBinaryChainContainsCall(e.inner)
    [] e.kind = "field"    -> selfBinaryChainContainsCall(e.receiver)
    [] e.kind = "index"    -> \/ selfBinaryChainContainsCall(e.receiver)
                              \/ selfBinaryChainContainsCall(e.index)
    [] OTHER               -> FALSE

isSafePureBinaryExpression(e, s) ==
  CASE e.kind = "prefix" -> isSafePureBinaryExpression(e.inner, s)
    [] e.kind = "binary" -> /\ e.operator \in DOMAIN ArithmeticOp \cup {".."}
                            /\ isSafePureBinaryExpression(e.left, s)
                            /\ isSafePureBinaryExpression(e.right, s)
    [] OTHER -> isSafeRKCandidate(e, s)

\* x = x op e1 op e2 ...: all but the last step in an accumulator.
RECURSIVE compileSelfBinaryChainAccumulatorNode(_, _, _, _, _)
compileSelfBinaryChainAccumulatorNode(target, e, accumulator, final, s) ==
  LET chained == e.left.kind = "binary"
      t == IF chained
           THEN compileSelfBinaryChainAccumulatorNode(target, e.left, accumulator, accumulator, s)
           ELSE s
      left == IF chained THEN accumulator ELSE target
      op == ArithmeticOp[e.operator]
  IN IF isSafeRKCandidate(e.right, t) \/ final = left \/ registerHasActiveLocal(final, t)
     THEN emitWithRightOperand(op, final, R(left), e.right, t)
     ELSE emitABC(op, final, R(left), R(final), compileOperandTo(e.right, final, t))

compileSelfBinaryChainViaAccumulator(target, e, s) ==
  LET accumulator == Free(s)
  IN IF e.left.kind = "binary"
     THEN releaseRegister(accumulator,
            compileSelfBinaryChainAccumulatorNode(target, e, accumulator, target, allocateRegister(s)))
     ELSE compileSelfBinaryChainAccumulatorNode(target, e, -1, target, s)

\* x = x op e without a call in e.
isSelfBinarySafeRightExpression(e) == e.kind \in {"literal", "name"}
IsLocalAccess(e, s) ==
  /\ e.kind \in {"field", "index"} /\ IsLocalName(e.receiver, s)
  /\ e.kind = "index" => isSafeRKCandidate(e.index, s)
SafeRight(e, s) ==
  isSelfBinarySafeRightExpression(e) \/ isSafePureBinaryExpression(e, s) \/ IsLocalAccess(e, s)

compileSelfBinaryRightExpressionTo(e, r, s) ==
  IF isSelfBinarySafeRightExpression(e) \/ isSafePureBinaryExpression(e, s)
  THEN compileExpressionTo(e, r, s)
  ELSE emitABC("GETTABLE", r, LocalRegister(e.receiver, s),
               IF e.kind = "field" THEN K(Key(e.field)) ELSE safeRKOperand(e.index, s), s)

compileSelfBinaryToTarget(target, e, s) ==
  LET op == ArithmeticOp[e.operator]
      right == Free(s)
      t == compileSelfBinaryRightExpressionTo(e.right, right, allocateRegister(s))
  IN IF isSafeRKCandidate(e.right, s)
     THEN emitABC(op, target, R(target), safeRKOperand(e.right, s), s)
     ELSE releaseRegister(right, emitABC(op, target, R(target), R(right), t))

compileSingleLocalSelfConcatAssignment(target, e, s) ==
  LET next == Free(s)
  IN IF next = target + 1
     THEN LET t == compileExpressionTo(e.right, next, allocateRegister(s))
          IN releaseRegister(next, emitABC("CONCAT", target, target, next, t))
     ELSE LET t == emitABC("MOVE", next, target, 0, allocateRegisters(2, s))
              u == compileExpressionTo(e.right, next + 1, t)
          IN releaseRegistersFrom(next, emitABC("CONCAT", target, next, next + 1, u))

(* A name that is neither a local nor an upvalue is a global. *)
IsUpvalueName(e, s) == e.kind = "name" /\ ~HasLocal(e.name, s) /\ Captured(e.name, s)

\* The receiver and the key of a target; a name needs no register.
compileAssignmentTarget(l, s) ==
  CASE IsUpvalueName(l, s) -> resolveUpvalue(l.name, s)
    [] l.kind = "field"    -> compileExpressionTo(l.receiver, Free(s), allocateRegister(s))
    [] l.kind = "index"    -> compileAll(<<l.receiver, l.index>>, Free(s), allocateRegisters(2, s))
    [] OTHER               -> s

emitAssignmentTarget(l, table, value, s) ==
  CASE IsLocalName(l, s)   -> emitABC("MOVE", LocalRegister(l, s), value, 0, s)
    [] IsUpvalueName(l, s) -> emitABC("SETUPVAL", value, UpvalueIndex(l.name, Cur(s)), 0, s)
    [] l.kind = "name"     -> emitABC("SETTABUP", 0, K(Key(l.name)), R(value), s)
    [] l.kind = "field"    -> emitABC("SETTABLE", table, K(Key(l.field)), R(value), s)
    [] l.kind = "index"    -> emitABC("SETTABLE", table, R(table + 1), R(value), s)

compileGeneralAssignment(st, s) ==
  LET first  == Free(s)
      n      == Len(st.left)
      \* targets[i]: the generators before target i, so Free is its register.
      targets[i \in 1 .. n + 1] ==
        IF i = 1 THEN s ELSE compileAssignmentTarget(st.left[i - 1], targets[i - 1])
      values == Free(targets[n + 1])
      t      == compileValues(st.right, values, n, allocateRegisters(n, targets[n + 1]))
      u      == FoldLeft(LAMBDA v, i :
                           emitAssignmentTarget(st.left[i], Free(targets[i]), values + i - 1, v),
                         compileExtraValues(st.right, n, t), [i \in 1 .. n |-> i])
  IN releaseRegistersFrom(first, u)

\* x = e for a local x.
IsViaAccumulator(l, e) ==
  /\ isSelfBinaryChainRoot(l.name, e)
  /\ e.left.kind = "binary" \/ selfBinaryChainContainsCall(e)
IsSelfBinary(l, e, s) == e.left.kind = "name" /\ e.left.name = l.name /\ SafeRight(e.right, s)
IsSelfConcat(l, e) ==
  e.operator = ".." /\ e.left.kind = "name" /\ e.left.name = l.name /\ e.right.kind = "literal"

compileSingleLocalAssignment(l, e, s) ==
  LET target == LocalRegister(l, s)
  IN CASE e.kind # "binary" -> compileExpressionTo(e, target, s)
       [] IsArithmetic(e) /\ IsViaAccumulator(l, e) -> compileSelfBinaryChainViaAccumulator(target, e, s)
       [] IsArithmetic(e) /\ IsSelfBinary(l, e, s) -> compileSelfBinaryToTarget(target, e, s)
       [] IsSelfConcat(l, e) -> compileSingleLocalSelfConcatAssignment(target, e, s)
       [] OTHER -> compileBinaryTo(e, target, s)

\* These are assigned to the register of the local itself.
IsDirect(e, s) ==
  \/ e.kind = "literal" \/ IsLocalName(e, s)
  \/ e.kind = "binary" /\ e.operator \notin {"and", "or"}

IsSingleFieldSelfBinary(l, e, s) ==
  /\ l.kind = "field" /\ IsLocalName(l.receiver, s)
  /\ IsArithmetic(e) /\ sameLocalFieldAccess(l, e.left) /\ isSafeRKCandidate(e.right, s)
IsSingleSafeTable(l, e, s) ==
  /\ l.kind = "index" /\ IsLocalName(l.receiver, s)
  /\ isSafeRKCandidate(l.index, s) /\ isSafeRKCandidate(e, s)

compileAssignment(st, s) ==
  LET l == st.left[1]
      e == st.right[1]
  IN CASE Len(st.left) # 1 \/ Len(st.right) # 1 -> compileGeneralAssignment(st, s)
       [] IsSingleFieldSelfBinary(l, e, s) -> compileSingleLocalFieldSelfBinaryAssignment(l, e, s)
       [] IsSingleSafeTable(l, e, s) ->
            emitABC("SETTABLE", LocalRegister(l.receiver, s),
                    safeRKOperand(l.index, s), safeRKOperand(e, s), s)
       [] l.kind = "name" /\ ~HasLocal(l.name, s) /\ ~Captured(l.name, s) /\ isSafeRKCandidate(e, s) ->
            emitABC("SETTABUP", 0, K(Key(l.name)), safeRKOperand(e, s), s)
       [] IsLocalName(l, s) /\ IsDirect(e, s) -> compileSingleLocalAssignment(l, e, s)
       [] OTHER -> compileGeneralAssignment(st, s)

-----------------------------------------------------------------------------
(* Functions and return. *)

emitClosure(r, f, s) ==
  LET t == compileChildProto(f, Cur(s).analyzed, s) IN emitABC("CLOSURE", r, Len(Cur(t).protos), 0, t)

compileLocalFunction(st, s) ==
  emitClosure(Free(s), st.function, defineLocal(st.name, Free(s), allocateRegister(s)))

\* A name that is not a local is taken for a global, an upvalue or not: s has
\* the child already.
storeFunction(name, s) ==
  LET child == Len(Cur(s).protos)
      t     == emitABC("CLOSURE", Free(s), child, 0, allocateRegister(s))
  IN IF HasLocal(name, s) THEN emitABC("CLOSURE", lookupLocal(name, s).register, child, 0, s)
     ELSE releaseRegister(Free(s), emitABC("SETTABUP", 0, K(Key(name)), R(Free(s)), t))

compileFunctionStatement(st, s) == storeFunction(st.name, compileChildProto(st.function, Cur(s).analyzed, s))

\* The function a parser took out is put together by hand.
compileCompactFunctionChildProto(st, s) ==
  LET f    == newGenerator(1, FALSE, TRUE)
      code == <<I("ADD", 1, R(0), K(st.value)), I("RETURN", 1, 2, 0)>>
      x    == [name |-> st.param, register |-> 0, start |-> 0, end |-> 2]
  IN [s EXCEPT ![Len(s)].protos = Append(@, Proto([f EXCEPT !.code = code, !.localVars = <<x>>, !.max = 2]))]

compileCompactFunctionStatement(st, s) == storeFunction(st.name, compileCompactFunctionChildProto(st, s))

SetReturned(s) == [s EXCEPT ![Len(s)].returned = TRUE]

compileTailCallReturn(e, s) ==
  LET base == Free(s)
      t == emitABC("TAILCALL", base, argumentField(e), 0, prepareCall(e, base, allocateRegister(s)))
  IN releaseRegister(base, emitABC("RETURN", base, 0, 0, t))

isSafeBinaryReturnOperand(e, s) == isSafeRKCandidate(e, s) \/ IsUpvalueName(e, s)

compileOperandIf(loaded, e, r, s) == IF loaded THEN compileExpressionTo(e, r, s) ELSE s

\* Both operands are read where they are; an upvalue is loaded first, and
\* into the result's own register if it is the only one.
compileSingleSafeBinaryReturn(e, s) ==
  LET result == Free(s)
      leftLoaded == ~isSafeRKCandidate(e.left, s)
      t == compileOperandIf(leftLoaded, e.left, result, allocateRegister(s))
      rightLoaded == ~isSafeRKCandidate(e.right, s)
      second == IF leftLoaded THEN result + 1 ELSE result
      u == compileOperandIf(rightLoaded, e.right, second, t)
      left == IF leftLoaded THEN R(result) ELSE safeRKOperand(e.left, s)
      right == IF rightLoaded THEN R(second) ELSE safeRKOperand(e.right, s)
      v == emitABC(ArithmeticOp[e.operator], result, left, right, u)
  IN releaseRegistersFrom(result, emitABC("RETURN", result, 2, 0, v))

compileReturnValues(es, s) ==
  LET first == Free(s)
      t == compileAll(es, first, allocateRegisters(Len(es), s))
  IN releaseRegistersFrom(first, emitABC("RETURN", first, Len(es) + 1, 0, t))

compileReturn(es, s) ==
  SetReturned(
    CASE Len(es) = 1 /\ IsCall(es[1]) -> compileTailCallReturn(es[1], s)
      [] HasOpenEnd(es) ->
           releaseRegistersFrom(Free(s), emitABC("RETURN", Free(s), 0, 0, compileOpenList(es, Free(s), s)))
      [] es = <<>> -> emitABC("RETURN", 0, 1, 0, s)
      [] Len(es) = 1 /\ IsLocalName(es[1], s) -> emitABC("RETURN", LocalRegister(es[1], s), 2, 0, s)
      [] /\ Len(es) = 1 /\ IsArithmetic(es[1])
         /\ isSafeBinaryReturnOperand(es[1].left, s) /\ isSafeBinaryReturnOperand(es[1].right, s) ->
           compileSingleSafeBinaryReturn(es[1], s)
      [] OTHER -> compileReturnValues(es, s))

-----------------------------------------------------------------------------
(* Blocks and control structures. *)

RECURSIVE compileStatement(_, _)

\* There is always a generator: TLC has it evaluated before the statement.
compileBlock(block, s) ==
  LET t == FoldLeft(LAMBDA u, st : IF u # <<>> THEN compileStatement(st, u) ELSE u,
                    pushScope(s), block.statements)
  IN popScope(IF block.last = <<>> THEN t ELSE compileReturn(block.last[1], t))

compileScopedBlock(block, s) ==
  LET t == compileBlock(block, s) IN endScope(beginScope(s), PC(t), t)

compileOptionalBlock(default, s) ==
  IF default = <<>> THEN s ELSE compileScopedBlock(default[1], s)

compileLabelStatement(n, s) ==
  [s EXCEPT ![Len(s)].labels =
     Append(@, [name |-> n, pc |-> PC(s), next |-> Free(s), scope |-> Cur(s).scope])]

compileGotoStatement(n, s) ==
  [emitJump(0, s) EXCEPT ![Len(s)].gotos =
     Append(@, [label |-> n, pc |-> PC(s), next |-> Free(s), scope |-> Cur(s).scope])]

SetFailed(s) == [s EXCEPT ![Len(s)].failed = TRUE]

\* Without scopes the only label of the name.
LabelsInScope(pending, g) ==
  LET named == SelectSeq(g.labels, LAMBDA l : l.name = pending.label)
  IN CASE g.analyzed       -> {l \in ToSet(named) : IsPrefix(l.scope, pending.scope)}
       [] Len(named) = 1   -> ToSet(named)
       [] OTHER            -> {}

\* The label of the innermost block around the goto that has one.
resolveGotoLabel(pending, g) ==
  CHOOSE l \in LabelsInScope(pending, g) :
    \A m \in LabelsInScope(pending, g) : Len(m.scope) <= Len(l.scope)

patchGotoJump(pending, s) ==
  LET label == resolveGotoLabel(pending, Cur(s))
      close == IF pending.next > label.next THEN label.next + 1 ELSE 0
  IN IF LabelsInScope(pending, Cur(s)) = {} THEN SetFailed(s)
     ELSE patchJump(pending.pc, label.pc, [s EXCEPT ![Len(s)].code[pending.pc + 1].a = close])

patchPendingGotos(s) == FoldLeft(LAMBDA t, g : patchGotoJump(g, t), s, Cur(s).gotos)

(* Loops. *)

beginLoop(s) ==
  [s EXCEPT ![Len(s)].loops = Append(@, [breaks |-> <<>>, continues |-> <<>>, close |-> Free(s) + 1])]

compileBreakStatement(s) ==
  LET l == Len(Cur(s).loops)
  IN IF l = 0 THEN SetFailed(s)
     ELSE [emitJump(Cur(s).loops[l].close, s) EXCEPT ![Len(s)].loops[l].breaks = Append(@, PC(s))]

compileContinueStatement(s) ==
  LET l == Len(Cur(s).loops)
  IN IF l = 0 THEN SetFailed(s)
     ELSE [emitJump(Cur(s).loops[l].close, s) EXCEPT ![Len(s)].loops[l].continues = Append(@, PC(s))]

patchLoopContinues(target, s) == patchJumps(Last(Cur(s).loops).continues, target, s)
\* A mutant: a break lands one instruction early.
PatchBreaksEarly(target, s) ==
  [patchJumps(Last(Cur(s).loops).breaks, target - 1, s) EXCEPT ![Len(s)].loops = Front(@)]
patchLoopBreaks(target, s) ==
  [patchJumps(Last(Cur(s).loops).breaks, target, s) EXCEPT ![Len(s)].loops = Front(@)]

\* An empty jump ends an else and a for: a break out of a for lands on it.
emitEndMarker(s) == emitJump(0, s)

(* Conditions: the instruction before the jump that is taken if it fails.  *)

IsSafeComparison(c, operators, s) ==
  /\ c.kind = "binary" /\ c.operator \in operators
  /\ isSafeRKCandidate(c.left, s) /\ isSafeRKCandidate(c.right, s)

compileComparisonConditionTest(c, s) ==
  emitComparison(c.operator, 1 - comparisonOpCode(c.operator).onTrue,
                 safeRKOperand(c.left, s), safeRKOperand(c.right, s), s)

\* The jump is the instruction before what comes next.
compileConditionJump(c, operators, s) ==
  LET r == Free(s)
      t == compileExpressionTo(c, r, allocateRegister(s))
  IN IF IsSafeComparison(c, operators, s)
     THEN emitJump(0, compileComparisonConditionTest(c, s))
     ELSE releaseRegister(r, emitJump(0, emitABC("TEST", r, 0, 0, t)))

\* An equality is made a boolean first, for the sake of the debug hooks.
compileIfCondition(c, s) ==
  IF IsLocalName(c, s) THEN emitJump(0, emitABC("TEST", LocalRegister(c, s), 0, 0, s))
  ELSE compileConditionJump(c, OrderOperators, s)

compileIfStatement(st, s) ==
  LET Compile(g, i) ==
        LET t == compileIfCondition(st.clauses[i].condition, g.s)
            u == compileScopedBlock(st.clauses[i].block, t)
            more == i < Len(st.clauses) \/ st.default # <<>>
            v == IF more THEN emitJump(0, u) ELSE u
        IN [s    |-> patchJump(PC(t) - 1, PC(v), v),
            ends |-> IF more THEN Append(g.ends, PC(u)) ELSE g.ends]
      all == FoldLeft(Compile, [s |-> s, ends |-> <<>>], [i \in DOMAIN st.clauses |-> i])
      t == IF st.default = <<>> THEN all.s
           ELSE emitEndMarker(compileScopedBlock(st.default[1], all.s))
  IN patchJumps(all.ends, PC(t), t)

compileWhileStatement(st, s) ==
  LET t == compileConditionJump(st.condition, ComparisonOperators, beginLoop(s))
      u == compileScopedBlock(st.body, t)
      v == patchJump(PC(u), PC(s), emitJump(0, u))
  IN patchLoopBreaks(PC(v), patchJump(PC(t) - 1, PC(v), patchLoopContinues(PC(s), v)))

\* The scope ends after a comparison, and before the test of another value.
compileRepeatUntilStatement(st, s) ==
  LET scope == beginScope(s)
      t == compileBlock(st.body, beginLoop(s))
      r == Free(t)
      value == compileExpressionTo(st.condition, r, allocateRegister(t))
      test == compileComparisonConditionTest(st.condition, t)
      u == IF IsSafeComparison(st.condition, ComparisonOperators, t)
           THEN endScope(scope, PC(test), test)
           ELSE emitABC("TEST", r, 0, 0, endScope(scope, PC(value), value))
      v == patchJump(PC(u), PC(s), emitJump(0, u))
  IN patchLoopBreaks(PC(v), patchLoopContinues(PC(t), v))

(* Whether a body holds a function: the loop variable of a numeric for then *)
(* gets a register of its own in every iteration.                           *)

RECURSIVE blockContainsFunction(_), statementContainsFunction(_), expressionContainsFunction(_)
AnyContainsFunction(es)    == \E i \in DOMAIN es : expressionContainsFunction(es[i])
AnyBlockContainsFunction(bs) == \E i \in DOMAIN bs : blockContainsFunction(bs[i])

blockContainsFunction(block) ==
  \/ \E i \in DOMAIN block.statements : statementContainsFunction(block.statements[i])
  \/ block.last # <<>> /\ AnyContainsFunction(block.last[1])

\* The body of a do is not looked into.
statementContainsFunction(st) ==
  CASE st.kind \in {"localfunction", "function", "compact"} -> TRUE
    [] st.kind = "assign" -> AnyContainsFunction(st.right)
    [] st.kind = "local"  -> AnyContainsFunction(st.values)
    [] st.kind = "if"     -> \/ \E i \in DOMAIN st.clauses :
                                  \/ expressionContainsFunction(st.clauses[i].condition)
                                  \/ blockContainsFunction(st.clauses[i].block)
                             \/ AnyBlockContainsFunction(st.default)
    [] st.kind \in {"while", "repeat"} ->
         expressionContainsFunction(st.condition) \/ blockContainsFunction(st.body)
    [] st.kind = "fornum" ->
         AnyContainsFunction(<<st.init, st.limit>> \o st.step) \/ blockContainsFunction(st.body)
    [] st.kind = "forin"  -> AnyContainsFunction(st.iterators) \/ blockContainsFunction(st.body)
    [] st.kind = "call"   -> expressionContainsFunction(st.call)
    [] st.kind = "switch" -> \/ expressionContainsFunction(st.expression)
                             \/ \E i \in DOMAIN st.cases :
                                  \/ AnyContainsFunction(st.cases[i].values)
                                  \/ blockContainsFunction(st.cases[i].block)
                             \/ AnyBlockContainsFunction(st.default)
    [] OTHER -> FALSE

expressionContainsFunction(e) ==
  CASE e.kind = "function" -> TRUE
    [] e.kind = "table"    -> \/ AnyContainsFunction(e.fields)
                              \/ \E i \in DOMAIN e.records : expressionContainsFunction(e.records[i].value)
                              \/ \E i \in DOMAIN e.indexed :
                                   AnyContainsFunction(<<e.indexed[i].key, e.indexed[i].value>>)
    [] e.kind = "prefix"   -> expressionContainsFunction(e.inner)
    [] e.kind = "field"    -> expressionContainsFunction(e.receiver)
    [] e.kind = "index"    -> AnyContainsFunction(<<e.receiver, e.index>>)
    [] e.kind = "call"     -> AnyContainsFunction(<<e.function>> \o e.arguments)
    [] e.kind = "method"   -> AnyContainsFunction(<<e.receiver>> \o e.arguments)
    [] e.kind = "unary"    -> expressionContainsFunction(e.operand)
    [] e.kind = "binary"   -> AnyContainsFunction(<<e.left, e.right>>)
    [] OTHER -> FALSE

(* Four registers: index, limit, step and the value the body sees. *)
compileNumericForControl(st, base, s) ==
  LET t == compileAll(<<st.init, st.limit>>, base, allocateRegisters(4, s))
  IN IF st.step = <<>> THEN emitABC("LOADK", base + 2, K(Number(1)), 0, t)
     ELSE compileExpressionTo(st.step[1], base + 2, t)

PerIterationControl(st, base, s) ==
  IF blockContainsFunction(st.body)
  THEN LET visible == Free(s)
           t == emitABC("MOVE", visible, base + 3, 0, allocateRegister(s))
       IN defineLocal(st.name, visible, t)
  ELSE s

compileNumericFor(st, s) ==
  LET base  == Free(s)
      begun == compileNumericForControl(st, base, beginLoop(s))
      t     == IF blockContainsFunction(st.body) THEN begun
               ELSE defineLocal(st.name, base + 3, begun)
      prep  == PC(t)
      u     == emitABC("FORPREP", base, 0, 0, t)
      body  == compileBlock(st.body, PerIterationControl(st, base, u))
      v     == endScope(beginScope(u), PC(body), body)
      loop  == PC(v)
      w     == patchJump(loop, prep + 1, patchJump(prep, loop,
                 patchLoopContinues(loop, emitABC("FORLOOP", base, 0, 0, v))))
      x     == patchLoopBreaks(loop + 1, emitEndMarker(w))
  IN endScope(beginScope(s), PC(x), x)

(* Iterator, state and control, then the names; no register of a name is   *)
(* closed before the loop ends.                                            *)
compileGenericFor(st, s) ==
  LET base   == Free(s)
      values == SubSeq(st.iterators, 1, Min({3, Len(st.iterators)}))
      begun  == compileValues(values, base, 3, allocateRegisters(3, beginLoop(s)))
      freed  == releaseRegistersFrom(base + 3, begun)
      named  == FoldLeft(LAMBDA t, n : defineLocal(n, Free(t), allocateRegister(t)), freed, st.names)
      entry  == PC(named)
      body   == compileBlock(st.body, emitJump(0, named))
      call   == PC(body)
      t      == patchLoopContinues(call, emitABC("TFORCALL", base, 0, Len(st.names), body))
      u      == emitABC("TFORLOOP", base + 2, 0, 0, t)
      v      == patchJump(call + 1, entry + 1, patchJump(entry, call, u))
      w      == patchLoopBreaks(call + 2, emitEndMarker(v))
  IN endScope(beginScope(s), PC(w), w)

(* switch: every value of a case is compared with the register in turn. *)
compileSwitchStatement(st, s) ==
  LET r == Free(s)
      CompareCase(g, value) ==
        LET caseRegister == Free(g.s)
            t == compileExpressionTo(value, caseRegister, allocateRegister(g.s))
            u == emitJump(0, emitABC("EQ", 1, R(r), R(caseRegister), t))
        IN [s |-> releaseRegister(caseRegister, u), matches |-> Append(g.matches, PC(u) - 1)]
      CompileCase(g, c) ==
        LET tests == FoldLeft(CompareCase, [s |-> g.s, matches |-> <<>>], c.values)
            next  == PC(tests.s)
            t     == patchJumps(tests.matches, next + 1, emitJump(0, tests.s))
            u     == compileScopedBlock(c.block, t)
        IN [s |-> patchJump(next, PC(u) + 1, emitJump(0, u)), ends |-> Append(g.ends, PC(u))]
      all == FoldLeft(CompileCase,
                      [s |-> compileExpressionTo(st.expression, r, allocateRegister(s)), ends |-> <<>>],
                      st.cases)
      t   == compileOptionalBlock(st.default, all.s)
  IN releaseRegister(r, patchJumps(all.ends, PC(t), t))

compileFunctionCallStatement(call, s) ==
  releaseRegistersFrom(Free(s), compileCallTo(call, Free(s), 0, allocateRegister(s)))

compileStatement(st, s) ==
  CASE st.kind = "do"            -> compileScopedBlock(st.body, s)
    [] st.kind = "local"         -> compileLocalAssignment(st, s)
    [] st.kind = "assign"        -> compileAssignment(st, s)
    [] st.kind = "localfunction" -> compileLocalFunction(st, s)
    [] st.kind = "function"      -> compileFunctionStatement(st, s)
    [] st.kind = "compact"       -> compileCompactFunctionStatement(st, s)
    [] st.kind = "if"            -> compileIfStatement(st, s)
    [] st.kind = "while"         -> compileWhileStatement(st, s)
    [] st.kind = "repeat"        -> compileRepeatUntilStatement(st, s)
    [] st.kind = "break"         -> compileBreakStatement(s)
    [] st.kind = "continue"      -> compileContinueStatement(s)
    [] st.kind = "call"          -> compileFunctionCallStatement(st.call, s)
    [] st.kind = "fornum"        -> compileNumericFor(st, s)
    [] st.kind = "forin"         -> compileGenericFor(st, s)
    [] st.kind = "label"         -> compileLabelStatement(st.name, s)
    [] st.kind = "goto"          -> compileGotoStatement(st.label, s)
    [] st.kind = "switch"        -> compileSwitchStatement(st, s)
    [] st.kind = "empty"         -> s

-----------------------------------------------------------------------------
(* Functions and chunks.  Any return sets returned: a function in which    *)
(* only a branch returns gets no final RETURN.                             *)

Finish(s) ==
  LET t == patchPendingGotos(s)
  IN closeLocals(IF Cur(t).returned THEN t ELSE emitABC("RETURN", 0, 1, 0, t))

compileChildProto(f, analyzed, s) ==
  LET child == FoldLeft(LAMBDA t, n : defineLocal(n, Free(t), allocateRegister(t)),
                        Append(s, newGenerator(Len(f.params), f.vararg, analyzed)), f.params)
      t == Finish(compileBlock(f.body, child))
  IN [Front(t) EXCEPT ![Len(s)].protos = Append(@, Proto(Cur(t))), ![Len(s)].failed = @ \/ Cur(t).failed]

CompileChunk(block) == Proto(Cur(Finish(compileBlock(block, <<newGenerator(0, TRUE, TRUE)>>))))
=============================================================================
