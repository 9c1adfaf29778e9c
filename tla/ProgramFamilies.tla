------------------------- MODULE ProgramFamilies -------------------------
(***************************************************************************)
(* Programs, in families: each puts one construct together with what may   *)
(* go wrong around it, in every combination.  A case names its family and  *)
(* the choices.                                                            *)
(*                                                                         *)
(* What the code generator is known to get wrong is left out; the README   *)
(* lists it, and OverwrittenLoop is one of it.                             *)
(***************************************************************************)
EXTENDS Syntax

\* Every choice of one member of each of the lists.
RECURSIVE EveryChoice(_)
EveryChoice(lists) ==
  IF lists = <<>> THEN << <<>> >>
  ELSE LET first == Head(lists)
           rest  == EveryChoice(Tail(lists))
           n     == Len(rest)
       IN [i \in 1 .. Len(first) * n |-> <<first[(i - 1) \div n + 1]>> \o rest[((i - 1) % n) + 1]] \o <<>>

Num(k)           == Literal(Number(k))
Plus(l, r)       == Binary(l, "+", r)
CallOf(f, es)    == Call(Name(f), es)
Emit(es)         == CallStatement(CallOf("emit", es))
Let(x, e)        == Local(<<x>>, <<e>>)
Set1(l, e)       == Assign(<<l>>, <<e>>)
Body(ss)         == Block(ss, <<>>)
Giving(ss, es)   == Block(ss, <<es>>)
Fn(ps, ss, es)   == Function(ps, FALSE, Giving(ss, es))
When(c, ss)      == If(<<Clause(c, Body(ss))>>, <<>>)
NoFields         == Constructor(<<>>, <<>>, <<>>)

-----------------------------------------------------------------------------
(* Functions made in a loop, each of which counts in a variable: the       *)
(* loop's, one of the body or one around the loop.  The loop is left, or   *)
(* its body, before or after the function is made.                         *)

Counting(x) == Fn(<<"d">>, <<Set1(Name(x), Plus(Name(x), Name("d")))>>, <<Name(x)>>)

Makes(x, nest) ==
  CASE nest = "plain"    -> <<Set1(Index(Name("fs"), Name("i")), Counting(x))>>
    [] nest = "do"       -> <<Do(Body(<<Let("y", Name(x)),
                                        Set1(Index(Name("fs"), Name("i")), Counting("y"))>>))>>
    [] nest = "function" -> <<Let("g", Fn(<<>>, <<>>, <<Counting(x)>>)),
                              Set1(Index(Name("fs"), Name("i")), CallOf("g", <<>>))>>

Leaving(exit) ==
  CASE exit = "none"     -> <<>>
    [] exit = "break"    -> <<When(Binary(Name("i"), "==", Num(2)), <<Break>>)>>
    [] exit = "continue" -> <<When(Binary(Name("i"), "==", Num(2)), <<Continue>>)>>
    [] exit = "goto"     -> <<When(Binary(Name("i"), "==", Num(2)), <<Goto("next")>>)>>

LoopBody(x, nest, exit, first) ==
  <<Let("x", Binary(Name("i"), "*", Num(10)))>>
  \o (IF first THEN Leaving(exit) ELSE <<>>)
  \o Makes(x, nest)
  \o <<Set1(Name("x"), Plus(Name("x"), Num(1)))>>
  \o (IF first THEN <<>> ELSE Leaving(exit))
  \o (IF exit = "goto" THEN <<Label("next")>> ELSE <<>>)

Counted(ss) == <<Set1(Name("i"), Plus(Name("i"), Num(1)))>> \o ss

\* A comparison would not see the scope of the body end: see the README.
Until(x) == IF x = "x" THEN Unary("not", Prefix(Binary(Name("i"), "<", Num(3))))
                       ELSE Binary(Name("i"), ">=", Num(3))

Loop(kind, x, ss) ==
  CASE kind = "while"  -> <<Let("i", Num(0)), While(Binary(Name("i"), "<", Num(3)), Body(Counted(ss)))>>
    [] kind = "repeat" -> <<Let("i", Num(0)), Repeat(Body(Counted(ss)), Until(x))>>
    [] kind = "for"    -> <<NumericFor("i", Num(1), Num(3), <<>>, Body(ss))>>
    [] kind = "goto"   -> <<Let("i", Num(0)), Label("top"), Do(Body(Counted(ss))),
                            When(Binary(Name("i"), "<", Num(3)), <<Goto("top")>>)>>

Called(k) == When(Index(Name("fs"), Num(k)), <<Emit(<<Call(Index(Name("fs"), Num(k)), <<Num(k)>>)>>)>>)

LoopCases ==
  SelectSeq(EveryChoice(<<<<"loop">>, <<"while", "repeat", "for", "goto">>, <<"x", "o", "i">>, <<"plain", "do", "function">>,
                      <<"none", "break", "continue", "goto">>, <<TRUE, FALSE>>>>),
            LAMBDA c : /\ c[2] = "goto" => c[5] \in {"none", "goto"}
                       /\ ~(c[2] = "for" /\ c[3] = "i" /\ c[4] = "do"))

ClosuresInLoop(c) ==
  Body(<<Let("fs", NoFields), Let("o", Num(7))>>
       \o Loop(c[2], c[3], LoopBody(c[3], c[4], c[5], c[6]))
       \o <<Called(1), Called(2), Called(3), Called(1), Emit(<<Name("o")>>)>>)

-----------------------------------------------------------------------------
(* Every operand in every place of every operator, into every kind of      *)
(* target, with locals and calls around.                                   *)

Operands == [
  literal |-> Num(7), local |-> Name("b"), global |-> Name("g"), upvalue |-> Name("u"),
  field |-> Field(Name("t"), "f"), index |-> Index(Name("t"), Num(2)), indexed |-> Index(Name("t"), Name("b")),
  call |-> CallOf("h", <<Num(1)>>), host |-> CallOf("id", <<Name("b"), Num(8)>>),
  method |-> MethodCall(Name("t"), "m", <<Num(3)>>),
  vararg |-> Vararg, negative |-> Unary("-", Name("b")),
  product |-> Binary(Name("b"), "*", Num(2)),
  sum |-> Prefix(Plus(CallOf("h", <<Num(1)>>), Name("b"))),
  negated |-> Unary("-", Prefix(Plus(Name("g"), Name("t1"))))]

Uses(e, place) ==
  CASE place = "local"    -> <<Let("z", e), Let("w", Name("b")), Emit(<<Name("z"), Name("w")>>)>>
    [] place = "assigned" -> <<Set1(Name("b"), e), Emit(<<Name("b")>>)>>
    [] place = "global"   -> <<Set1(Name("g"), e), Emit(<<Name("g")>>)>>
    [] place = "upvalue"  -> <<Set1(Name("u"), e), Emit(<<Name("u")>>)>>
    [] place = "field"    -> <<Set1(Field(Name("t"), "f"), e), Emit(<<Field(Name("t"), "f")>>)>>
    [] place = "index"    -> <<Set1(Index(Name("t"), Name("b")), e), Emit(<<Index(Name("t"), Name("b"))>>)>>
    [] place = "argument" -> <<Emit(<<Num(0), e, Name("b")>>)>>
    [] place = "last"     -> <<Emit(<<Name("b"), e>>)>>
    [] place = "listed"   -> <<Let("z", Constructor(<<Num(4), e>>, <<Record("k", e)>>, <<IndexField(Num(9), e)>>)),
                               Emit(<<Unary("#", Name("z")), Index(Name("z"), Num(2)),
                                      Field(Name("z"), "k"), Index(Name("z"), Num(9))>>)>>
    [] place = "returned" -> <<Let("f", Fn(<<"b">>, <<>>, <<e>>)), Emit(<<Call(Name("f"), <<Num(1)>>)>>)>>
    [] place = "if"       -> <<If(<<Clause(e, Body(<<Emit(<<Num(1)>>)>>))>>, <<Body(<<Emit(<<Num(2)>>)>>)>>)>>

\* g and t1 are globals and the rest locals of a function with arguments.
Setting(ss) ==
  Body(<<Set1(Name("g"), Num(5)), Set1(Name("t1"), Num(6)), Let("u", Num(4)),
         LocalFunction("h", Fn(<<"x">>, <<>>, <<Plus(Name("x"), Num(1)), Num(9)>>)),
         LocalFunction("main", Function(<<"b">>, TRUE, Body(
           <<Let("t", Constructor(<<Num(10), Num(20)>>, <<Record("f", Num(30))>>, <<>>)),
             Set1(Field(Name("t"), "m"), Fn(<<"self", "x">>, <<>>, <<Plus(Name("x"), Field(Name("self"), "f"))>>))>>
           \o ss
           \o <<Emit(<<Name("b"), Name("u")>>)>>))),
         CallStatement(CallOf("main", <<Num(2), Num(3), Num(1)>>))>>)

All    == <<"literal", "local", "global", "upvalue", "field", "index", "indexed", "call",
            "host", "method", "vararg", "negative", "product", "sum", "negated">>
Right  == <<"literal", "local", "upvalue", "call", "sum">>
Places == <<"global", "upvalue", "field", "index", "argument", "last", "listed", "returned", "if">>

\* A function cannot use ... of the function around it.
ExpressionCases ==
  EveryChoice(<<<<"operator">>, All, <<"+", "..", "<", "and">>, Right, <<"local", "assigned">>>>)
  \o SelectSeq(EveryChoice(<<<<"operator">>, All, <<"+", "or">>, <<"literal", "call">>, Places>>),
               LAMBDA c : ~(c[2] = "vararg" /\ c[5] = "returned"))

Expression(c) == Setting(Uses(Binary(Operands[c[2]], c[3], Operands[c[4]]), c[5]))

\* b = b - e + e, or b = b - e * e
ChainCases == EveryChoice(<<<<"chain">>, All, <<"+", "*">>, Right>>)
Chain(c) ==
  LET l == Operands[c[2]]
      r == Operands[c[4]]
  IN Setting(<<Set1(Name("b"), IF c[3] = "+" THEN Plus(Binary(Name("b"), "-", l), r)
                                              ELSE Binary(Name("b"), "-", Binary(l, "*", r)))>>)

-----------------------------------------------------------------------------

(* Several targets at once, from lists that are shorter, longer or open.   *)

Targets == [
  local |-> Name("b"), other |-> Name("c"), upvalue |-> Name("u"), global |-> Name("g"),
  field |-> Field(Name("t"), "f"), index |-> Index(Name("t"), Name("b"))]

Lists == [
  swapped |-> <<Name("c"), Name("b")>>, short |-> <<Field(Name("t"), "f")>>,
  long |-> <<Name("u"), CallOf("h", <<Name("c")>>), CallOf("h", <<Num(2)>>)>>,
  call |-> <<CallOf("h", <<Name("b")>>)>>, vararg |-> <<Vararg>>,
  lastCall |-> <<Name("c"), CallOf("id", <<Num(1), Name("b"), Num(2)>>)>>,
  firstCall |-> <<CallOf("h", <<Num(1)>>), Name("b")>>,
  table |-> <<Field(Name("t"), "f"), Index(Name("t"), Name("b"))>>]

AllTargets == <<"local", "other", "upvalue", "global", "field", "index">>
AllLists   == <<"swapped", "short", "long", "call", "vararg", "lastCall", "firstCall", "table">>

AssignmentCases ==
  SelectSeq(EveryChoice(<<<<"assign">>, AllTargets, AllTargets, AllLists>>), LAMBDA c : c[2] # c[3])
Assignment(c) ==
  Setting(<<Let("c", Num(1)), Assign(<<Targets[c[2]], Targets[c[3]]>>, Lists[c[4]]),
            Emit(<<Name("b"), Name("c"), Name("g"), Field(Name("t"), "f"), Index(Name("t"), Num(2))>>)>>)

DeclarationCases == EveryChoice(<<<<"declare">>, AllLists, <<1, 2, 3>>>>)
Declaration(c) ==
  LET names == SubSeq(<<"c", "d", "b">>, 1, c[3])
  IN Setting(<<Let("c", Num(1)), Do(Body(<<Local(names, Lists[c[2]]), Emit([i \in 1 .. c[3] |-> Name(names[i])])>>)),
               Local(names, Lists[c[2]]), Let("e", Name("c")), Emit(<<Name("c"), Name("e")>>)>>)

-----------------------------------------------------------------------------
(* Calls with open lists, in functions with and without parameters.        *)

Passed == [
  none |-> <<>>, one |-> <<Num(1)>>, open |-> <<CallOf("id", <<Num(1), Num(2)>>)>>,
  closed |-> <<Prefix(CallOf("id", <<Num(1), Num(2)>>)), Num(3)>>,
  opens |-> <<CallOf("h", <<Num(5)>>), CallOf("h", <<Num(7)>>)>>,
  vararg |-> <<Num(4), Vararg>>]

Taking == [
  all    |-> Function(<<>>, TRUE, Giving(<<>>, <<CallOf("count", <<Vararg>>), Vararg>>)),
  second |-> Fn(<<"x", "y">>, <<>>, <<Name("y"), Name("x")>>),
  rest   |-> Function(<<"x">>, TRUE, Giving(<<Local(<<"y", "z">>, <<Vararg>>)>>, <<Name("z"), Name("y"), Name("x")>>)),
  tail   |-> Function(<<"x">>, TRUE, Giving(<<>>, <<CallOf("id", <<Vararg, Name("x")>>)>>)),
  host   |-> Fn(<<"x">>, <<>>, <<CallOf("id", <<Name("x"), Num(1)>>)>>),
  method |-> Function(<<"x">>, TRUE, Giving(<<>>, <<MethodCall(Name("t"), "m", <<Vararg>>)>>)),
  list   |-> Function(<<>>, TRUE, Giving(<<Let("l", Constructor(<<Num(9), Vararg>>, <<>>, <<>>))>>,
                                         <<Unary("#", Name("l")), Index(Name("l"), Num(2))>>)),
  none   |-> Fn(<<"x">>, <<When(Name("x"), <<>>)>>, <<>>),
  nested |-> Fn(<<"x">>, <<If(<<Clause(Name("x"), Giving(<<>>, <<Name("x")>>))>>, <<>>)>>, <<>>)]

CallCases ==
  SelectSeq(EveryChoice(<<<<"call">>, <<"all", "second", "rest", "tail", "host", "method", "list", "none", "nested">>,
                      <<"none", "one", "open", "closed", "opens", "vararg">>, <<"last", "middle", "list", "one">>>>),
            LAMBDA c : c[2] = "method" => c[3] \notin {"none", "one"})
CallsOf(c) ==
  LET call == CallOf("f", Passed[c[3]])
  IN Setting(<<Let("f", Taking[c[2]])>> \o
       CASE c[4] = "last"   -> <<Emit(<<Name("b"), call>>)>>
         [] c[4] = "middle" -> <<Emit(<<call, Name("b")>>)>>
         [] c[4] = "list"   -> <<Let("l", Constructor(<<Name("b"), call>>, <<>>, <<>>)),
                                 Emit(<<CallOf("count", <<call>>), Index(Name("l"), Num(2)), Index(Name("l"), Num(3))>>)>>
         [] c[4] = "one"    -> <<Local(<<"x", "y">>, <<call>>), Emit(<<Name("y"), Name("x")>>)>>)

-----------------------------------------------------------------------------
(* Functions that share a variable, keep one of a call that has returned,  *)
(* or call again in place of returning.                                    *)

\* make(5) returns a function that counts and one that tells.
Maker(parameter, deep) ==
  LET v == IF parameter THEN "n" ELSE "v"
      pair == <<Fn(<<>>, <<Set1(Name(v), Plus(Name(v), Num(1)))>>, <<Name(v)>>), Fn(<<>>, <<>>, <<Name(v)>>)>>
      made == IF deep THEN <<Let("inner", Fn(<<"k">>, <<Let("w", Name("k"))>>,
                                             <<pair[1], Fn(<<>>, <<>>, <<Plus(Name(v), Name("w"))>>)>>))>>
                      ELSE <<>>
  IN Fn(<<"n">>, (IF parameter THEN <<>> ELSE <<Let("v", Binary(Name("n"), "*", Num(2)))>>) \o made,
        IF deep THEN <<CallOf("inner", <<Num(100)>>)>> ELSE pair)

\* A function of the loop's variable is returned out of the loop.
Finder(kind) ==
  Fn(<<"k">>, Loop(kind, "x", <<Let("x", Plus(Name("i"), Num(10))), Let("f", Counting("x")),
                               If(<<Clause(Binary(Name("i"), "==", Name("k")), Giving(<<>>, <<Name("f")>>))>>, <<>>)>>),
     <<Name("k")>>)

\* down(n, sum, ...) calls itself, and keeps a function of every call.
Descent(vararg, tail) ==
  LET again == CallOf("down", <<Binary(Name("n"), "-", Num(1)), Plus(Name("s"), Name("x"))>>
                              \o IF vararg THEN <<Vararg>> ELSE <<>>)
  IN Function(<<"n", "s">>, vararg,
       Giving(<<Let("x", Binary(Name("n"), "*", Num(10))), Set1(Index(Name("fs"), Name("n")), Counting("x")),
                If(<<Clause(Binary(Name("n"), "==", Num(0)),
                            Giving(<<>>, <<Name("s")>> \o IF vararg THEN <<Vararg>> ELSE <<>>))>>, <<>>)>>,
              IF tail THEN <<again>> ELSE <<Prefix(again), Num(1)>>))

Even == Fn(<<"n">>, <<If(<<Clause(Binary(Name("n"), "<=", Num(0)), Giving(<<>>, <<Literal(Boolean(TRUE))>>))>>, <<>>)>>,
           <<CallOf("odd", <<Binary(Name("n"), "-", Num(1))>>)>>)
Odd  == Fn(<<"n">>, <<If(<<Clause(Binary(Name("n"), "<=", Num(0)), Giving(<<>>, <<Literal(Boolean(FALSE))>>))>>, <<>>)>>,
           <<CallOf("even", <<Binary(Name("n"), "-", Num(1))>>)>>)
Fib  == Fn(<<"n">>, <<If(<<Clause(Binary(Name("n"), "<", Num(2)), Giving(<<>>, <<Name("n")>>))>>, <<>>)>>,
           <<Plus(CallOf("fib", <<Binary(Name("n"), "-", Num(1))>>), CallOf("fib", <<Binary(Name("n"), "-", Num(2))>>))>>)

FunctionCases ==
  EveryChoice(<<<<"maker", "descent">>, <<TRUE, FALSE>>, <<TRUE, FALSE>>>>)
  \o EveryChoice(<<<<"finder">>, <<"while", "for", "repeat">>, <<1, 2, 3, 4>>>>)
  \o EveryChoice(<<<<"mutual">>, <<0, 1, 2, 3>>, <<"global", "local">>>>) \o <<<<"fib", 4>>>>

Functions(c) ==
  Body(CASE c[1] = "maker" ->
              <<LocalFunction("make", Maker(c[2], c[3])),
                Local(<<"inc", "get">>, <<CallOf("make", <<Num(5)>>)>>),
                Local(<<"inc2", "get2">>, <<CallOf("make", <<Num(8)>>)>>),
                Emit(<<CallOf("inc", <<>>), CallOf("get", <<>>), CallOf("inc2", <<>>), CallOf("inc", <<>>)>>),
                Emit(<<CallOf("get2", <<>>), CallOf("get", <<>>)>>)>>
         [] c[1] = "finder" ->
              <<LocalFunction("find", Finder(c[2])), Let("f", CallOf("find", <<Num(c[3])>>)),
                If(<<Clause(Binary(Name("f"), "==", Num(c[3])), Body(<<Emit(<<Num(0)>>)>>))>>,
                   <<Body(<<Emit(<<CallOf("f", <<Num(1)>>), CallOf("f", <<Num(1)>>)>>)>>)>>)>>
         [] c[1] = "descent" ->
              <<Let("fs", NoFields), LocalFunction("down", Descent(c[2], c[3])),
                Emit(<<CallOf("down", <<Num(2), Num(0), Num(7), Num(6)>>)>>),
                Emit([n \in 1 .. 3 |-> Call(Index(Name("fs"), Num(n - 1)), <<Num(n)>>)]),
                Emit([n \in 1 .. 3 |-> Call(Index(Name("fs"), Num(n - 1)), <<Num(n)>>)])>>
         [] c[1] = "mutual" /\ c[3] = "global" ->
              <<FunctionStatement("even", Even), FunctionStatement("odd", Odd), Emit(<<CallOf("even", <<Num(c[2])>>)>>)>>
         [] c[1] = "mutual" /\ c[3] = "local" ->
              <<Local(<<"odd", "even">>, <<>>), FunctionStatement("even", Even), FunctionStatement("odd", Odd),
                Emit(<<CallOf("even", <<Num(c[2])>>)>>)>>
         [] c[1] = "fib" -> <<LocalFunction("fib", Fib), Emit(<<CallOf("fib", <<Num(c[2])>>)>>)>>)

-----------------------------------------------------------------------------
(* Loops: their limits, and the generic one with what is left of its       *)
(* iterator's values.                                                      *)

Bounds == [
  up |-> <<Num(1), Num(3)>>, down |-> <<Num(3), Num(1), Unary("-", Num(1))>>, never |-> <<Num(3), Num(1)>>,
  steps |-> <<Name("b"), Num(7), Name("b")>>, length |-> <<Num(1), Unary("#", Name("t"))>>,
  upvalue |-> <<Num(1), Name("u")>>, sums |-> <<Plus(Name("b"), Num(1)), Plus(Name("b"), Name("b"))>>,
  calls |-> <<CallOf("h", <<Num(0)>>), CallOf("h", <<Name("b")>>)>>, equal |-> <<Num(2), Num(2), Num(5)>>]

Counter(ss, b) == NumericFor("i", b[1], b[2], SubSeq(b, 3, Len(b)), Body(ss))

ForBodies == [
  plain |-> <<Emit(<<Name("i"), Name("b")>>)>>,
  locals |-> <<Local(<<"x", "y">>, <<Name("i"), Name("b")>>), Set1(Name("i"), Plus(Name("i"), Name("y"))),
               Emit(<<Name("i"), Name("x"), Name("y")>>)>>,
  nested |-> <<NumericFor("j", Num(1), Name("i"), <<>>, Body(<<When(Binary(Name("j"), ">", Num(1)), <<Break>>),
                                                              Emit(<<Name("i"), Name("j")>>)>>))>>,
  skipped |-> <<If(<<Clause(Binary(Name("i"), "~=", Num(2)), Body(<<Continue>>))>>, <<>>), Let("x", Name("i")), Emit(<<Name("x")>>)>>]

Iterators == [
  each |-> <<CallOf("each", <<Num(3)>>)>>, none |-> <<CallOf("each", <<Num(0)>>)>>,
  closure |-> <<Fn(<<"s", "k">>, <<If(<<Clause(Binary(Name("k"), "<", Name("s")),
                                         Giving(<<>>, <<Plus(Name("k"), Num(1)), Name("u")>>))>>, <<>>)>>, <<>>),
                Num(2), Num(0)>>]

InBodies == [
  plain |-> <<Emit(<<Name("k"), Name("v")>>)>>,
  locals |-> <<Let("x", Name("v")), Set1(Name("v"), Plus(Name("x"), Name("k"))), Emit(<<Name("v"), Name("b")>>)>>,
  left |-> <<When(Binary(Name("k"), "==", Num(2)), <<Break>>), Emit(<<CallOf("id", <<Name("k"), Name("v")>>)>>)>>,
  again |-> <<When(Binary(Name("k"), "==", Num(1)), <<Continue>>), Emit(<<Name("k")>>)>>]

ForCases ==
  EveryChoice(<<<<"for">>, <<"up", "down", "never", "steps", "length", "upvalue", "sums", "calls",
                         "equal">>,
            <<"plain", "locals", "nested", "skipped">>>>)
  \o EveryChoice(<<<<"in">>, <<"each", "none", "closure">>, <<"plain", "locals", "left", "again">>>>)
Fors(c) ==
  Setting(IF c[1] = "for" THEN <<Counter(ForBodies[c[3]], Bounds[c[2]]), Let("last", Name("b"))>>
          ELSE <<GenericFor(<<"k", "v">>, Iterators[c[2]], Body(InBodies[c[3]])), Let("last", Name("b"))>>)

-----------------------------------------------------------------------------
(* Branches: conditions of every kind, switch, goto, and names that hide   *)
(* others.                                                                 *)

Conditions == [
  local |-> Name("b"), nothing |-> Name("missing"), equal |-> Binary(Name("b"), "==", Num(2)),
  less |-> Binary(Name("b"), "<", Name("u")), greater |-> Binary(Name("b"), ">", Num(2)),
  calls |-> Binary(CallOf("h", <<Name("b")>>), ">=", CallOf("h", <<Num(2)>>)),
  both |-> Binary(Binary(Name("b"), "~=", Num(2)), "and", Name("u")),
  either |-> Binary(Binary(Name("b"), "==", Num(3)), "or", CallOf("id", <<Name("t")>>)),
  not |-> Unary("not", Prefix(Binary(Name("b"), "<=", Num(2)))), false |-> Literal(Boolean(FALSE))]

\* f keeps the variable of the branch, of the same name as one around it.
Branch(n) == Body(<<Let("x", Plus(Name("b"), Num(n))), Set1(Name("f"), Counting("x")), Set1(Name("x"), Num(50 + n))>>)

Branching(c) ==
  CASE c[1] = "if" ->
         <<If(<<Clause(Conditions[c[2]], Branch(1)), Clause(Conditions[c[3]], Branch(2))>>, <<Branch(3)>>)>>
    [] c[1] = "switch" ->
         <<Switch(Conditions[c[2]],
                  <<Case(<<Literal(Boolean(TRUE)), Num(2)>>, Branch(1)), Case(<<Conditions[c[3]]>>, Branch(2))>>,
                  IF c[2] = "local" THEN <<>> ELSE <<Branch(3)>>)>>
    [] c[1] = "while" ->
         <<While(Conditions[c[2]], Body(<<Set1(Name("b"), Plus(Name("b"), Num(3))), Set1(Name("u"), Num(0))>> \o
                                        <<When(Conditions[c[3]], <<Break>>), When(Binary(Name("b"), ">", Num(9)), <<Break>>)>>))>>
    [] c[1] = "repeat" ->
         <<Repeat(Body(<<Set1(Name("b"), Plus(Name("b"), Num(1))),
                         When(Conditions[c[3]], <<Do(Body(<<Let("x", Name("b")), Set1(Name("f"), Counting("x"))>>))>>),
                         When(Binary(Name("b"), ">", Num(6)), <<Break>>)>>), Conditions[c[2]])>>
    [] c[1] = "goto" ->
         <<When(Conditions[c[2]], <<Goto("skip")>>), Do(Branch(4)),
           When(Conditions[c[3]], <<Do(Body(<<Let("y", Num(6)), Set1(Name("f"), Counting("y")), Goto("skip")>>))>>),
           Set1(Name("x"), Num(9)), Label("skip")>>

AllConditions == <<"local", "nothing", "equal", "less", "greater", "calls", "both", "either",
                   "not", "false">>
BranchCases ==
  EveryChoice(<<<<"if", "switch", "while", "repeat", "goto">>, AllConditions,
                <<"local", "equal", "greater", "either", "not">>>>)
Branches(c) ==
  Setting(<<Let("x", Num(40)), Let("f", Counting("x"))>> \o Branching(c)
          \o <<Emit(<<CallOf("f", <<Num(1)>>), CallOf("f", <<Num(2)>>), Name("x")>>)>>)

-----------------------------------------------------------------------------
(* Programs that end with an error, and what they do before it.            *)

Before == <<Emit(<<Num(1)>>), Let("n", Literal(NilValue)), Let("t", NoFields)>>
Errors == [
  add |-> Let("x", Plus(Num(1), Name("n"))), call |-> CallStatement(CallOf("n", <<>>)),
  method |-> CallStatement(MethodCall(Name("n"), "m", <<>>)), index |-> Let("x", Field(Name("n"), "f")),
  store |-> Set1(Field(Name("n"), "f"), Num(1)), key |-> Set1(Index(Name("t"), Name("n")), Num(1)),
  concat |-> Let("x", Binary(Num(1), "..", Name("t"))), less |-> Let("x", Binary(Num(1), "<", Name("t"))),
  length |-> Let("x", Unary("#", Name("n"))), minus |-> Let("x", Unary("-", Name("n"))),
  for |-> NumericFor("i", Num(1), Name("n"), <<>>, Body(<<>>)), in |-> GenericFor(<<"k">>, <<Name("n")>>, Body(<<>>))]

ErrorCases ==
  EveryChoice(<<<<"error">>, <<"add", "call", "method", "index", "store", "key", "concat", "less",
                           "length", "minus", "for", "in">>>>)
Failing(c) == Body(Append(Before, Errors[c[2]]))

-----------------------------------------------------------------------------

Cases ==
  LoopCases \o ExpressionCases \o ChainCases \o AssignmentCases \o DeclarationCases
  \o CallCases \o FunctionCases \o ForCases \o BranchCases \o ErrorCases

ProgramOf(c) ==
  CASE c[1] = "loop"     -> ClosuresInLoop(c)
    [] c[1] = "operator" -> Expression(c)
    [] c[1] = "chain"    -> Chain(c)
    [] c[1] = "assign"   -> Assignment(c)
    [] c[1] = "declare"  -> Declaration(c)
    [] c[1] = "call"     -> CallsOf(c)
    [] c[1] \in {"maker", "finder", "descent", "mutual", "fib"} -> Functions(c)
    [] c[1] \in {"for", "in"} -> Fors(c)
    [] c[1] = "error"    -> Failing(c)
    [] OTHER             -> Branches(c)

\* for i = 1, id(4) - 1 do local x = 50; emit(i) end
OverwrittenLoop ==
  Body(<<NumericFor("i", Num(1), Binary(CallOf("id", <<Num(4)>>), "-", Num(1)), <<>>,
                    Body(<<Let("x", Num(50)), Emit(<<Name("i")>>)>>))>>)
=============================================================================
