------------------------------- MODULE Source -------------------------------
(***************************************************************************)
(* What a program means, by the language's manual: every execution of a    *)
(* local declaration, of a call and of an iteration makes variables of its *)
(* own; expressions are evaluated from left to right; what emit is given   *)
(* is the program's output.  Nothing of the code generator or the virtual  *)
(* machine is in here.                                                     *)
(*                                                                         *)
(* An environment is [vars, varargs], vars giving each name in scope its   *)
(* cell; the store st is [cells, functions, tables, globals, out, raised], *)
(* raised holding the error there is, after which nothing is done.         *)
(* Evaluation returns [st, v] or, of a list, [st, vs]; execution [st, env, *)
(* signal], where the signal tells what is left by break, continue, return *)
(* or goto.                                                                *)
(***************************************************************************)
EXTENDS Syntax, LuaManual
LOCAL INSTANCE SequencesExt
LOCAL INSTANCE FiniteSetsExt

Store == [cells |-> <<>>, functions |-> <<>>, tables |-> <<>>, globals |-> Globals, out |-> <<>>,
          raised |-> <<>>]
Normal == <<"normal">>

Raised(st)    == st.raised # <<>>
Raise(err, st) == IF Raised(st) THEN st ELSE [st EXCEPT !.raised = <<err>>]

\* The value found, if any, or the error.
Found(vs, err, st) == IF vs = <<>> \/ Raised(st) THEN [st |-> Raise(err, st), v |-> NilValue] ELSE [st |-> st, v |-> vs[1]]

(* Variables. *)
Declare(n, v, env, st) ==
  [env |-> [env EXCEPT !.vars = (n :> Len(st.cells) + 1) @@ @],
   st  |-> [st EXCEPT !.cells = Append(@, v)]]

DeclareAll(names, vs, env, st) ==
  FoldLeft(LAMBDA g, i : Declare(names[i], ValueOr(vs, i), g.env, g.st),
           [env |-> env, st |-> st], [i \in DOMAIN names |-> i])

Get(n, env, st) == IF n \in DOMAIN env.vars THEN st.cells[env.vars[n]] ELSE At(st.globals, Key(n))
SetName(n, v, env, st) ==
  IF Raised(st) THEN st ELSE IF n \in DOMAIN env.vars THEN [st EXCEPT !.cells[env.vars[n]] = v]
  ELSE [st EXCEPT !.globals = Put(@, Key(n), v)]

SetField(t, k, v, st) ==
  CASE Raised(st) -> st
    [] ~IsTable(t) \/ k \in {NilValue, Float(<<0, 0>>)} -> Raise(NilValue, st)
    [] OTHER -> [st EXCEPT !.tables[t[2]] = Put(@, Normal1(k), v)]
GetField(t, k, st) == Found(IF IsTable(t) THEN <<At(st.tables[t[2]], Normal1(k))>> ELSE <<>>, NilValue, st)
NewFunction(f, env, st) ==
  [v |-> Closure(Len(st.functions) + 1),
   st |-> [st EXCEPT !.functions = Append(@, [code |-> f, env |-> env])]]

-----------------------------------------------------------------------------
RECURSIVE Eval(_, _, _), EvalAll(_, _, _), Execute(_, _, _), ExecuteBlock(_, _, _)

Apply(f, args, st) ==
  IF Raised(st) THEN [st |-> st, vs |-> <<>>]
  ELSE IF ~Callable(f) THEN [st |-> Raise(NilValue, st), vs |-> <<>>]
  ELSE IF f[1] = "external"
  THEN [st |-> [st EXCEPT !.out = @ \o Observed(f[2], args)], vs |-> External(f[2], args)]
  ELSE LET code == st.functions[f[2]].code
           extra == IF code.vararg THEN SubSeq(args, Len(code.params) + 1, Len(args)) ELSE <<>>
           env == [st.functions[f[2]].env EXCEPT !.varargs = extra]
           called == DeclareAll(code.params, args, env, st)
           r == ExecuteBlock(code.body, called.env, called.st)
       IN [st |-> r.st, vs |-> IF r.signal[1] = "return" THEN r.signal[2] ELSE <<>>]

\* All the values of an expression.
EvalOpen(e, env, st) ==
  CASE e.kind = "call" ->
         LET f == Eval(e.function, env, st)
             all == EvalAll(e.arguments, env, f.st)
         IN Apply(f.v, all.vs, all.st)
    [] e.kind = "method" ->
         LET r == Eval(e.receiver, env, st)
             f == GetField(r.v, Key(e.method), r.st)
             all == EvalAll(e.arguments, env, f.st)
         IN Apply(f.v, <<r.v>> \o all.vs, all.st)
    [] e.kind = "vararg" -> [st |-> st, vs |-> env.varargs]
    [] OTHER -> LET r == Eval(e, env, st) IN [st |-> r.st, vs |-> <<r.v>>]

\* The last expression of a list gives all its values, the others one.
EvalAll(es, env, st) ==
  LET EvalNext(g, i) ==
        IF i = Len(es)
        THEN LET r == EvalOpen(es[i], env, g.st) IN [st |-> r.st, vs |-> g.vs \o r.vs]
        ELSE LET r == Eval(es[i], env, g.st) IN [st |-> r.st, vs |-> Append(g.vs, r.v)]
  IN FoldLeft(EvalNext, [st |-> st, vs |-> <<>>], [i \in DOMAIN es |-> i])

Operate(o, v, w) ==
  LET Truth(bs) == IF bs = <<>> THEN <<>> ELSE <<Boolean(bs[1])>>
  IN CASE o \in ArithmeticOperators -> Calculate(o, v, w)
       [] o \in BitOperators        -> OperateBits(o, v, w)
       [] o = ".."                  -> Concatenated(v, w)
       [] o \in {"==", "~="}        -> <<Boolean(Same(v, w) = (o = "=="))>>
       [] o = "<"                   -> Truth(Smaller(v, w))
       [] o = "<="                  -> Truth(SmallerOrSame(v, w))
       [] o = ">"                   -> Truth(Smaller(w, v))
       [] o = ">="                  -> Truth(SmallerOrSame(w, v))

EvalBinary(e, env, st) ==
  LET l == Eval(e.left, env, st)
      r == Eval(e.right, env, l.st)
  IN CASE e.operator = "and" /\ ~Truthy(l.v) -> l
       [] e.operator = "or" /\ Truthy(l.v)   -> l
       [] e.operator \in {"and", "or"}       -> r
       [] OTHER -> Found(IF Raised(r.st) THEN <<>> ELSE Operate(e.operator, l.v, r.v), NilValue, r.st)

OperateOn(o, v, st) ==
  CASE o = "not" -> <<Boolean(~Truthy(v))>>
    [] o = "-"   -> IF IsInt(v) THEN <<Opposite(v)>>
                    ELSE IF ToFloat(v) = <<>> THEN <<>> ELSE <<Float(NegativeOf(ToFloat(v)[1]))>>
    [] o = "~"   -> IF ToInt(v) = <<>> THEN <<>> ELSE <<Number(-ToInt(v)[1] - 1)>>
    [] o = "#"   -> CASE IsString(v) -> <<Number(Len(v[2]))>>
                      [] IsTable(v)  -> <<Number(Border(st.tables[v[2]]))>>
                      [] OTHER       -> <<>>

EvalUnary(e, env, st) ==
  LET r == Eval(e.operand, env, st)
  IN Found(IF Raised(r.st) THEN <<>> ELSE OperateOn(e.operator, r.v, r.st), NilValue, r.st)

EvalTable(e, env, st) ==
  LET t == Table(Len(st.tables) + 1)
      all == EvalAll(e.fields, env, [st EXCEPT !.tables = Append(@, <<>>)])
      listed == FoldLeft(LAMBDA s, i : SetField(t, Number(i), all.vs[i], s), all.st,
                         [i \in DOMAIN all.vs |-> i])
      SetRecord(s, f) == LET r == Eval(f.value, env, s) IN SetField(t, Key(f.name), r.v, r.st)
      SetIndexed(s, f) ==
        LET k == Eval(f.key, env, s)
            r == Eval(f.value, env, k.st)
        IN SetField(t, k.v, r.v, r.st)
  IN [v |-> t, st |-> FoldLeft(SetIndexed, FoldLeft(SetRecord, listed, e.records), e.indexed)]

EvalIndex(receiver, key, env, st) ==
  LET r == Eval(receiver, env, st)
      k == Eval(key, env, r.st)
  IN IF Raised(k.st) THEN k ELSE GetField(r.v, k.v, k.st)

Eval(e, env, st) ==
  CASE Raised(st)          -> [st |-> st, v |-> NilValue]
    [] e.kind = "literal"  -> [st |-> st, v |-> e.value]
    [] e.kind = "name"     -> [st |-> st, v |-> Get(e.name, env, st)]
    [] e.kind = "prefix"   -> Eval(e.inner, env, st)
    [] e.kind = "unary"    -> EvalUnary(e, env, st)
    [] e.kind = "binary"   -> EvalBinary(e, env, st)
    [] e.kind = "field"    -> EvalIndex(e.receiver, Literal(Key(e.field)), env, st)
    [] e.kind = "index"    -> EvalIndex(e.receiver, e.index, env, st)
    [] e.kind = "table"    -> EvalTable(e, env, st)
    [] e.kind = "function" -> NewFunction(e, env, st)
    [] OTHER -> LET r == EvalOpen(e, env, st) IN [st |-> r.st, v |-> ValueOr(r.vs, 1)]

-----------------------------------------------------------------------------
(* Statements. *)

Done(env, st)   == [env |-> env, st |-> st, signal |-> Normal]
After(env, r)   == [r EXCEPT !.env = env]  \* a block's own names go out of scope

ExecuteLocal(s, env, st) ==
  LET r == EvalAll(s.values, env, st)
      d == DeclareAll(s.names, r.vs, env, r.st)
  IN Done(d.env, d.st)

\* Receivers and keys first, then the values, then the assignments.
ExecuteAssign(s, env, st) ==
  LET Target(g, l) ==
        CASE l.kind = "name"  -> [g EXCEPT !.places = Append(@, <<>>)]
          [] l.kind = "field" -> LET r == Eval(l.receiver, env, g.st)
                                 IN [st |-> r.st, places |-> Append(g.places, <<r.v, Key(l.field)>>)]
          [] l.kind = "index" -> LET r == Eval(l.receiver, env, g.st)
                                     k == Eval(l.index, env, r.st)
                                 IN [st |-> k.st, places |-> Append(g.places, <<r.v, k.v>>)]
      t == FoldLeft(Target, [st |-> st, places |-> <<>>], s.left)
      r == EvalAll(s.right, env, t.st)
      Store1(u, i) == IF s.left[i].kind = "name" THEN SetName(s.left[i].name, ValueOr(r.vs, i), env, u)
                      ELSE SetField(t.places[i][1], t.places[i][2], ValueOr(r.vs, i), u)
  IN Done(env, FoldLeft(Store1, r.st, [i \in DOMAIN s.left |-> i]))

ExecuteLocalFunction(s, env, st) ==
  LET d == Declare(s.name, NilValue, env, st)
      f == NewFunction(s.function, d.env, d.st)
  IN Done(d.env, SetName(s.name, f.v, d.env, f.st))

ExecuteFunction(s, env, st) ==
  LET f == NewFunction(s.function, env, st) IN Done(env, SetName(s.name, f.v, env, f.st))

RECURSIVE ExecuteIf(_, _, _, _)
ExecuteIf(clauses, default, env, st) ==
  IF clauses = <<>>
  THEN IF default = <<>> THEN Done(env, st) ELSE After(env, ExecuteBlock(default[1], env, st))
  ELSE LET c == Eval(clauses[1].condition, env, st)
       IN IF Truthy(c.v) THEN After(env, ExecuteBlock(clauses[1].block, env, c.st))
          ELSE ExecuteIf(Tail(clauses), default, env, c.st)

\* A loop goes on after a continue, and a break ends it.
Leaves(r)         == Raised(r.st) \/ r.signal[1] \notin {"normal", "continue"}
EndOfLoop(env, r) == [env |-> env, st |-> r.st,
                      signal |-> IF r.signal[1] = "break" THEN Normal ELSE r.signal]

RECURSIVE ExecuteWhile(_, _, _), ExecuteRepeat(_, _, _)
ExecuteWhile(s, env, st) ==
  LET c == Eval(s.condition, env, st)
      r == ExecuteBlock(s.body, env, c.st)
  IN CASE ~Truthy(c.v) \/ Raised(c.st) -> Done(env, c.st)
       [] Leaves(r)    -> EndOfLoop(env, r)
       [] OTHER        -> ExecuteWhile(s, env, r.st)

\* The condition sees the names of the body.
ExecuteRepeat(s, env, st) ==
  LET r == ExecuteBlock(s.body, env, st)
      c == Eval(s.condition, r.env, r.st)
  IN CASE Leaves(r)   -> EndOfLoop(env, r)
       [] Truthy(c.v) \/ Raised(c.st) -> Done(env, c.st)
       [] OTHER       -> ExecuteRepeat(s, env, c.st)

\* On integers if the first value and the step are, and on floats else.
RECURSIVE Count1(_, _, _, _, _, _), Iterate(_, _, _, _)
Count1(s, i, limit, step, env, st) ==
  LET d == Declare(s.name, i, env, st)
      r == ExecuteBlock(s.body, d.env, d.st)
      goes == IF Smaller(step, Number(0))[1] THEN SmallerOrSame(limit, i)[1] ELSE SmallerOrSame(i, limit)[1]
  IN CASE Raised(st) \/ ~goes -> Done(env, st)
       [] Leaves(r) -> EndOfLoop(env, r)
       [] OTHER     -> Count1(s, Calculate("+", i, step)[1], limit, step, env, r.st)

ExecuteNumericFor(s, env, st) ==
  LET a == Eval(s.init, env, st)
      b == Eval(s.limit, env, a.st)
      c == IF s.step = <<>> THEN [st |-> b.st, v |-> Number(1)] ELSE Eval(s.step[1], env, b.st)
      first == IF IsInt(a.v) /\ IsInt(c.v) THEN a.v ELSE Float(ToFloat(a.v)[1])
  IN IF Raised(c.st) THEN Done(env, c.st)
     ELSE IF IsNumber(a.v) /\ IsNumber(b.v) /\ IsNumber(c.v) THEN Count1(s, first, b.v, c.v, env, c.st)
     ELSE Done(env, Raise(NilValue, c.st))

Iterate(s, control, env, st) ==
  LET call == Apply(control[1], <<control[2], control[3]>>, st)
      d == DeclareAll(s.names, call.vs, env, call.st)
      r == ExecuteBlock(s.body, d.env, d.st)
  IN CASE Raised(call.st) \/ ValueOr(call.vs, 1) = NilValue -> Done(env, call.st)
       [] Leaves(r) -> EndOfLoop(env, r)
       [] OTHER     -> Iterate(s, [control EXCEPT ![3] = call.vs[1]], env, r.st)

ExecuteGenericFor(s, env, st) ==
  LET r == EvalAll(s.iterators, env, st)
  IN Iterate(s, [i \in 1 .. 3 |-> ValueOr(r.vs, i)], env, r.st)

RECURSIVE ExecuteSwitch(_, _, _, _, _), Matches(_, _, _, _)
Matches(values, v, env, st) ==
  IF values = <<>> THEN [st |-> st, found |-> FALSE]
  ELSE LET r == Eval(values[1], env, st)
       IN IF Same(r.v, v) \/ Raised(r.st) THEN [st |-> r.st, found |-> TRUE] ELSE Matches(Tail(values), v, env, r.st)

ExecuteSwitch(cases, default, v, env, st) ==
  IF cases = <<>>
  THEN IF default = <<>> THEN Done(env, st) ELSE After(env, ExecuteBlock(default[1], env, st))
  ELSE LET m == Matches(cases[1].values, v, env, st)
       IN IF m.found THEN After(env, ExecuteBlock(cases[1].block, env, m.st))
          ELSE ExecuteSwitch(Tail(cases), default, v, env, m.st)

Execute(s, env, st) ==
  CASE Raised(st) -> Done(env, st)
    [] s.kind = "do"            -> After(env, ExecuteBlock(s.body, env, st))
    [] s.kind = "local"         -> ExecuteLocal(s, env, st)
    [] s.kind = "assign"        -> ExecuteAssign(s, env, st)
    [] s.kind = "localfunction" -> ExecuteLocalFunction(s, env, st)
    [] s.kind = "function"      -> ExecuteFunction(s, env, st)
    [] s.kind = "if"            -> ExecuteIf(s.clauses, s.default, env, st)
    [] s.kind = "while"         -> ExecuteWhile(s, env, st)
    [] s.kind = "repeat"        -> ExecuteRepeat(s, env, st)
    [] s.kind = "break"         -> [Done(env, st) EXCEPT !.signal = <<"break">>]
    [] s.kind = "continue"      -> [Done(env, st) EXCEPT !.signal = <<"continue">>]
    [] s.kind = "goto"          -> [Done(env, st) EXCEPT !.signal = <<"goto", s.label>>]
    [] s.kind \in {"label", "empty"} -> Done(env, st)
    [] s.kind = "call"          -> Done(env, EvalOpen(s.call, env, st).st)
    [] s.kind = "fornum"        -> ExecuteNumericFor(s, env, st)
    [] s.kind = "forin"         -> ExecuteGenericFor(s, env, st)
    [] s.kind = "switch"        -> LET r == Eval(s.expression, env, st)
                                   IN ExecuteSwitch(s.cases, s.default, r.v, env, r.st)

(* From statement i on, envs being the environments before those done: a   *)
(* goto to a label of the block goes on there, with the names it then had. *)
RECURSIVE ExecuteFrom(_, _, _, _, _)
ExecuteFrom(block, i, envs, env, st) ==
  LET n == Len(block.statements)
      r == Execute(block.statements[i], env, st)
      seen == IF i > Len(envs) THEN Append(envs, env) ELSE envs
      labels == {j \in 1 .. n : /\ r.signal[1] = "goto"
                                /\ block.statements[j].kind = "label"
                                /\ block.statements[j].name = r.signal[2]}
      target == CHOOSE j \in labels : TRUE
      last == EvalAll(block.last[1], env, st)
  IN CASE Raised(st) \/ (i > n /\ block.last = <<>>) -> Done(env, st)
       [] i > n -> [env |-> env, st |-> last.st, signal |-> <<"return", last.vs>>]
       [] labels # {} /\ target > i -> ExecuteFrom(block, target, seen, r.env, r.st)
       [] labels # {} -> ExecuteFrom(block, target, SubSeq(seen, 1, target), seen[target], r.st)
       [] r.signal # Normal -> r
       [] OTHER -> ExecuteFrom(block, i + 1, seen, r.env, r.st)

ExecuteBlock(block, env, st) == ExecuteFrom(block, 1, <<>>, env, st)

\* What it emits, and what it returns, or whether it fails.
Meaning(block) ==
  LET r == ExecuteBlock(block, [vars |-> <<>>, varargs |-> <<>>], Store)
  IN [output |-> r.st.out \o IF r.signal[1] = "return" /\ ~Raised(r.st) THEN r.signal[2] ELSE <<>>,
      fails  |-> Raised(r.st)]

-----------------------------------------------------------------------------
(* Which programs have a meaning.  A goto needs a label of its name in a   *)
(* block around it, and may not jump into the scope of a local, except to  *)
(* the end of a block, where the condition of a repeat does not count; a   *)
(* block has one label of a name, a switch one case for a literal, and     *)
(* break and continue are in loops.                                        *)

Parts(e) ==
  CASE e.kind = "prefix" -> <<e.inner>>
    [] e.kind = "unary"  -> <<e.operand>>
    [] e.kind = "binary" -> <<e.left, e.right>>
    [] e.kind = "call"   -> <<e.function>> \o e.arguments
    [] e.kind = "method" -> <<e.receiver>> \o e.arguments
    [] e.kind = "field"  -> <<e.receiver>>
    [] e.kind = "index"  -> <<e.receiver, e.index>>
    [] e.kind = "table"  -> e.fields \o [i \in DOMAIN e.records |-> e.records[i].value]
                            \o [i \in DOMAIN e.indexed |-> e.indexed[i].key]
                            \o [i \in DOMAIN e.indexed |-> e.indexed[i].value]
    [] OTHER             -> <<>>

RECURSIVE LegalExpression(_), LegalBlock(_, _, _, _)

LegalFunction(f) == LegalBlock(f.body, FALSE, <<>>, FALSE)
LegalExpression(e) ==
  /\ e.kind = "function" => LegalFunction(e)
  /\ \A i \in DOMAIN Parts(e) : LegalExpression(Parts(e)[i])
LegalExpressions(es) == \A i \in DOMAIN es : LegalExpression(es[i])

\* The labels of the block and of those around, and whether statement i may
\* jump there.
Reaches(block, i, until, outer) ==
  LET ss == block.statements
      Labelled(n) == {j \in DOMAIN ss : ss[j] = Label(n)}
      names == {ss[j].name : j \in {k \in DOMAIN ss : ss[k].kind = "label"}}
      AtEnd(j) == ~until /\ block.last = <<>> /\ \A k \in j + 1 .. Len(ss) : ss[k].kind \in {"label", "empty"}
      EntersLocal(j) == \E k \in i + 1 .. j - 1 : ss[k].kind \in {"local", "localfunction"}
  IN [n \in names |-> \A j \in Labelled(n) : AtEnd(j) \/ ~EntersLocal(j)] @@ outer

LegalStatement(s, loop, reaches) ==
  LET Inner(b)   == LegalBlock(b, loop, reaches, FALSE)
      Looping(b) == LegalBlock(b, TRUE, reaches, s.kind = "repeat")
      Literals   == SelectSeq(FlattenSeq([i \in DOMAIN s.cases |-> s.cases[i].values]),
                              LAMBDA e : e.kind = "literal")
      Distinct   == \A i, j \in DOMAIN Literals : i # j => ~Same(Literals[i].value, Literals[j].value)
  IN CASE s.kind = "do"     -> Inner(s.body)
       [] s.kind = "local"  -> LegalExpressions(s.values)
       [] s.kind = "assign" -> LegalExpressions(s.left \o s.right)
       [] s.kind = "call"   -> LegalExpression(s.call)
       [] s.kind \in {"localfunction", "function"} -> LegalFunction(s.function)
       [] s.kind = "if"     -> /\ \A i \in DOMAIN s.clauses : /\ LegalExpression(s.clauses[i].condition)
                                                               /\ Inner(s.clauses[i].block)
                               /\ \A i \in DOMAIN s.default : Inner(s.default[i])
       [] s.kind \in {"while", "repeat"} -> LegalExpression(s.condition) /\ Looping(s.body)
       [] s.kind = "fornum" -> LegalExpressions(<<s.init, s.limit>> \o s.step) /\ Looping(s.body)
       [] s.kind = "forin"  -> LegalExpressions(s.iterators) /\ Looping(s.body)
       [] s.kind = "switch" -> /\ Distinct /\ LegalExpression(s.expression)
                               /\ \A i \in DOMAIN s.cases : /\ LegalExpressions(s.cases[i].values)
                                                             /\ Inner(s.cases[i].block)
                               /\ \A i \in DOMAIN s.default : Inner(s.default[i])
       [] s.kind = "goto"   -> s.label \in DOMAIN reaches /\ reaches[s.label]
       [] s.kind \in {"break", "continue"} -> loop
       [] OTHER             -> TRUE

LegalBlock(block, loop, outer, until) ==
  LET ss == block.statements
      labels == SelectSeq(ss, LAMBDA s : s.kind = "label")
  IN /\ IsInjective(labels)
     /\ \A i \in DOMAIN ss : LegalStatement(ss[i], loop, Reaches(block, i, until, outer))
     /\ block.last # <<>> => LegalExpressions(block.last[1])

Legal(block) == LegalFunction(Function(<<>>, TRUE, block))
=============================================================================
