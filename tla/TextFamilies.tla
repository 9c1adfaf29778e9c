---------------------------- MODULE TextFamilies ----------------------------
(***************************************************************************)
(* Programs for what the parser and its analyzer decide: which operand an  *)
(* operator takes, what the short forms stand for, which jumps are allowed,*)
(* and which texts are no program at all.  Those that are none emit        *)
(* something first, so that one that is accepted would show.               *)
(***************************************************************************)
EXTENDS NumberFamilies, Printer
LOCAL INSTANCE SequencesExt

-----------------------------------------------------------------------------
(* Operators without brackets.  Grouped is the tree the manual gives them: *)
(* the loosest operator is at the top, the last of several, or the first   *)
(* where they associate to the right.                                      *)

Loosest == <<{"or"}, {"and"}, {"<", ">", "<=", ">=", "~=", "=="}, {"|"}, {"~"}, {"&"}, {"<<", ">>"}, {".."}, {"+", "-"},
             {"*", "/", "//", "%"}, {"^"}>>
Level(o) == CHOOSE l \in DOMAIN Loosest : o \in Loosest[l]

RECURSIVE Grouped(_, _)
Grouped(operands, os) ==
  IF os = <<>> THEN operands[1]
  ELSE LET loosest == {i \in DOMAIN os : \A j \in DOMAIN os : Level(os[i]) <= Level(os[j])}
           top == CHOOSE i \in loosest :
                    \A j \in loosest : IF os[i] \in {"..", "^"} THEN i <= j ELSE i >= j
       IN Binary(Grouped(SubSeq(operands, 1, top), SubSeq(os, 1, top - 1)), os[top],
                 Grouped(SubSeq(operands, top + 1, Len(operands)), SubSeq(os, top + 1, Len(os))))

B == Name("b")
Terms == <<B, Num(7), Unary("-", B), Unary("#", Name("t")), CallOf("h", <<Num(4)>>)>>

PrecedenceCases ==
  EveryChoice(<<<<"sums">>, <<"+", "-", "*">>, <<"+", "-", "*">>, <<"+", "-", "*">>, <<"-", "*">>>>)
  \o EveryChoice(<<<<"joins">>, <<"+", "*">>, <<"..">>, <<"-", "..">>, <<"==", "..">>>>)
  \o EveryChoice(<<<<"tests">>, <<"<", "==", "and">>, <<"and", "or">>, <<">=", "~=", "or">>, <<"or", "and">>>>)

Negated(e) == Unary("not", e)
Precedence(c) ==
  LET os == Tail(c)
      operands == IF c[1] = "tests" THEN [i \in 1 .. 5 |-> IF os[1] = "and" /\ i = 1 THEN Negated(B)
                                                          ELSE <<Num(2), B, Num(3), Unary("-", Num(1)), B>>[i]]
                  ELSE Terms
  IN Setting(<<Emit(<<Grouped(operands, os)>>)>>)

-----------------------------------------------------------------------------
(* Short forms: functions that are fields or methods, calls of a string or *)
(* a table, the one the parser has a way of its own for, empty statements. *)

T(f) == Field(Name("t"), f)
Adding(k) == Fn(<<"x">>, <<>>, <<Plus(Name("x"), Num(k))>>)

ShortForms == [
  field   |-> <<Set1(T("g"), Fn(<<"x">>, <<>>, <<Name("x"), Name("b")>>)), Emit(<<Call(T("g"), <<Num(1)>>)>>)>>,
  deep    |-> <<Set1(T("o"), NoFields), Set1(Field(T("o"), "g"), Adding(3)),
                Emit(<<Call(Field(T("o"), "g"), <<Num(1)>>)>>)>>,
  method  |-> <<Set1(T("g"), Fn(<<"self", "x">>, <<>>, <<Field(Name("self"), "f"), Name("x")>>)),
                Emit(<<MethodCall(Name("t"), "g", <<Num(1), Num(2)>>)>>)>>,
  text    |-> <<Emit(<<Literal(Key("s"))>>), Emit(<<CallOf("id", <<Literal(Key("s"))>>)>>)>>,
  table   |-> <<Emit(<<Unary("#", CallOf("id", <<Constructor(<<Num(1), Num(2)>>, <<>>, <<>>)>>))>>)>>,
  chain   |-> <<Emit(<<Index(CallOf("id", <<Constructor(<<Num(8)>>, <<>>, <<>>)>>), Num(1)),
                       MethodCall(CallOf("id", <<Name("t")>>), "m", <<Num(2)>>)>>)>>,
  compact |-> <<FunctionStatement("k", Adding(5)), Emit(<<CallOf("k", <<Num(1)>>), CallOf("k", <<Name("b")>>)>>)>>,
  almost  |-> <<FunctionStatement("k", Fn(<<"x">>, <<>>, <<Plus(Name("b"), Num(5))>>)), Emit(<<CallOf("k", <<Num(1)>>)>>)>>,
  longer  |-> <<FunctionStatement("k", Fn(<<"x">>, <<>>, <<Plus(Plus(Name("x"), Num(5)), Num(1))>>)),
                Emit(<<CallOf("k", <<Num(1)>>)>>)>>,
  empty   |-> <<Empty, Empty, Emit(<<Num(1)>>), Empty>>,
  switch  |-> <<Let("case", Num(2)), Switch(Name("case"), <<Case(<<Num(1), Num(2)>>, Giving(<<Emit(<<Num(1)>>)>>, <<>>))>>, <<Body(<<Emit(<<Num(2)>>)>>)>>)>>,
  late    |-> <<When(Binary(Name("b"), "==", Num(2)), <<Goto("out")>>), Let("x", Num(1)), Emit(<<Name("x")>>),
                Label("out"), Empty, Label("end")>>,
  inner   |-> <<Let("f", Fn(<<"n">>, <<Label("up"), Set1(Name("n"), Plus(Name("n"), Num(1))),
                                      When(Binary(Name("n"), "<", Num(4)), <<Goto("up")>>)>>, <<Name("n")>>)),
                Emit(<<CallOf("f", <<Num(1)>>)>>)>>]
ShortCases == EveryChoice(<<<<"short">>, <<"field", "deep", "method", "text", "table", "chain", "compact", "almost",
                                         "longer", "empty", "switch", "late", "inner">>>>)

-----------------------------------------------------------------------------
(* Jumps: from a statement, in a block of its own or not, to a label that  *)
(* is in the block, around it or in another, over a local or not.          *)

JumpCases ==
  SelectSeq(EveryChoice(<<<<"jump">>, <<"here", "if", "function", "while">>, <<"none", "local", "block", "function">>,
                         <<"after", "end", "before", "sibling", "twice", "nowhere", "shadowed">>, <<"do", "repeat", "while">>>>),
            LAMBDA c : c[3] = "function" => c[4] # "end")

Jumping(c) ==
  LET jump == CASE c[2] = "here"     -> <<Goto("l")>>
                [] c[2] = "if"       -> <<When(Binary(Name("n"), "<", Num(2)), <<Goto("l")>>)>>
                [] c[2] = "while"    -> <<While(Binary(Name("n"), "<", Num(2)), Body(<<Goto("l")>>))>>
                [] c[2] = "function" -> <<LocalFunction("f", Fn(<<>>, <<Goto("l")>>, <<>>))>>
      over == CASE c[3] = "none"     -> <<>>
                [] c[3] = "local"    -> <<Let("x", Num(1))>>
                [] c[3] = "block"    -> <<Do(Body(<<Let("x", Num(1))>>))>>
                [] c[3] = "function" -> <<LocalFunction("x", Fn(<<>>, <<>>, <<>>))>>
      once == <<When(Binary(Name("n"), ">", Num(1)), <<Break>>), Set1(Name("n"), Plus(Name("n"), Num(1)))>>
      body == CASE c[4] = "after"    -> jump \o over \o <<Label("l"), Emit(<<Num(2)>>)>>
                [] c[4] = "end"      -> jump \o over \o <<Label("l"), Empty>>
                [] c[4] = "before"   -> <<Label("l")>> \o once \o over \o jump
                [] c[4] = "sibling"  -> <<Do(Body(<<Label("l")>>))>> \o jump \o over
                [] c[4] = "twice"    -> jump \o over \o <<Label("l"), Label("l")>>
                [] c[4] = "nowhere"  -> jump \o over
                [] c[4] = "shadowed" -> <<Label("l")>> \o once \o <<Do(Body(<<When(Name("n"), jump)>> \o over \o <<Label("l")>>))>>
      all == <<Emit(<<Num(1), Name("n")>>)>> \o body
  IN Body(<<Let("n", Num(0)),
            CASE c[5] = "do"     -> While(Binary(Name("n"), "<", Num(1)), Body(<<Set1(Name("n"), Plus(Name("n"), Num(1))), Do(Body(all))>>))
              [] c[5] = "repeat" -> Repeat(Body(<<Set1(Name("n"), Plus(Name("n"), Num(1)))>> \o all), Binary(Name("n"), ">", Num(1)))
              [] c[5] = "while"  -> While(Binary(Name("n"), "<", Num(1)), Body(<<Set1(Name("n"), Plus(Name("n"), Num(1)))>> \o all)),
            Emit(<<Name("n")>>)>>)

Misplaced == [
  break    |-> <<Break>>, continue |-> <<Continue>>,
  function |-> <<While(Literal(Boolean(TRUE)), Body(<<LocalFunction("f", Fn(<<>>, <<Break>>, <<>>))>>))>>,
  inner    |-> <<While(Literal(Boolean(TRUE)), Body(<<Let("f", Fn(<<>>, <<Continue>>, <<>>))>>))>>,
  goto     |-> <<Let("f", Fn(<<>>, <<Goto("l")>>, <<>>)), Label("l")>>,
  switch   |-> <<Switch(Num(1), <<Case(<<Num(1)>>, Body(<<>>)), Case(<<Num(2), Num(1)>>, Body(<<>>))>>, <<>>)>>,
  values   |-> <<Switch(Num(1), <<Case(<<Num(2), Name("x"), Name("x")>>, Body(<<>>))>>, <<>>)>>,
  float    |-> <<Switch(Num(1), <<Case(<<Num(2)>>, Body(<<>>)), Case(<<Real(2, 1)>>, Body(<<>>))>>, <<>>)>>,
  floats   |-> <<Switch(Num(4), <<Case(<<Num(2), Quote("2")>>, Giving(<<Emit(<<Num(2)>>)>>, <<>>)),
                                  Case(<<Real(5, 2), Real(4, 1)>>, Giving(<<Emit(<<Num(3)>>)>>, <<>>))>>, <<>>)>>]
MisplacedCases == EveryChoice(<<<<"misplaced">>, <<"break", "continue", "function", "inner", "goto", "switch", "values", "float", "floats">>>>)

-----------------------------------------------------------------------------
(* Texts that are no program, each after emit(1).                          *)

Word(w) == <<Keyword(w)>>
Sign(o) == <<Op(o)>>
One     == <<LiteralToken(Number(1))>>
X       == <<Identifier("x")>>

Malformed == <<
  Word("end"), Word("if") \o X \o Word("then"), Word("if") \o X \o Word("do") \o Word("end"),
  Word("local") \o One, Word("local") \o X \o Sign("="), Word("local") \o X \o Sign(",") \o Sign("=") \o One,
  X, X \o Sign("=") , X \o Sign("+") \o One, X \o Sign(",") \o X, One \o Sign("=") \o One,
  X \o Sign("(") \o Sign(")") \o Sign("=") \o One, X \o Sign(",") \o X \o Sign("(") \o Sign(")") \o Sign("=") \o One,
  Sign(";") \o Sign("(") \o X \o Sign(")") \o Sign("=") \o One, Sign(";") \o Sign("(") \o X \o Sign(")"), X \o Sign(":") \o X \o Sign("=") \o One,
  X \o Sign("=") \o One \o Sign("(") \o Sign(")"), X \o Sign("(") \o One \o Sign(","), X \o Sign("(") \o Sign(",") \o Sign(")"),
  X \o Sign("=") \o Sign("{") \o One, X \o Sign("=") \o Sign("{") \o Sign(",") \o Sign("}"), X \o Sign("=") \o Sign("{") \o One \o One \o Sign("}"),
  X \o Sign("=") \o Sign("{") \o One \o Sign("=") \o One \o Sign("}"), X \o Sign("=") \o Sign("*") \o One, X \o Sign("=") \o One \o Sign("-"),
  X \o Sign("=") \o X \o Sign("..") \o Word("end"), X \o Sign("=") \o Word("not"),
  Word("function") \o Sign("(") \o Sign(")") \o Word("end"), Word("function") \o X \o Sign("(") \o X \o Sign(",") \o Sign(")") \o Word("end"),
  Word("function") \o X \o Sign("(") \o Sign("...") \o Sign(",") \o X \o Sign(")") \o Word("end"),
  Word("function") \o X \o Sign(":") \o X \o Sign(".") \o X \o Sign("(") \o Sign(")") \o Word("end"),
  Word("return") \o One \o X \o Sign("(") \o Sign(")"), Word("return") \o Sign(";") \o Sign(";"),
  Word("for") \o X \o Sign("=") \o One \o Word("do") \o Word("end"), Word("for") \o X \o Sign(",") \o X \o Sign("=") \o One \o Sign(",") \o One \o Word("do") \o Word("end"),
  Word("for") \o X \o Word("do") \o Word("end"), Word("while") \o X \o Word("then") \o Word("end"), Word("repeat") \o Word("end"),
  Word("goto") \o One, Sign("::") \o X, Word("do") \o Word("until") \o X,
  Word("if") \o X \o Word("then") \o Word("else") \o Word("elseif") \o X \o Word("then") \o Word("end"),
  <<Identifier("switch")>> \o X \o Word("do"), <<Identifier("switch")>> \o X \o Word("do") \o X \o Word("end"),
  <<Identifier("switch")>> \o X \o Word("do") \o <<Identifier("default"), Identifier("default")>> \o Word("end"),
  Word("goto") \o X \o Sign("::") \o X \o Sign("::") \o Sign("::") \o X \o Sign("::")>>

MalformedCases == [i \in DOMAIN Malformed |-> <<"malformed", i>>]

-----------------------------------------------------------------------------
(* Sources for luac: its short forms, and what is nearly one of them.      *)

AddFunction(n, x, k) == FunctionStatement(n, Fn(<<x>>, <<>>, <<Plus(Name(x), Num(k))>>))
Result(f, e)         == <<<<CallOf(f, <<e>>)>>>>

LuacForms == [
  stream   |-> Block(<<AddFunction("k", "x", 5), AddFunction("j", "y", 6)>>, Result("k", Num(1))),
  again    |-> Block(<<AddFunction("k", "x", 5), AddFunction("k", "k", 6)>>, Result("k", Num(1))),
  unknown  |-> Block(<<AddFunction("k", "x", 5)>>, Result("id", Num(1))),
  emits    |-> Block(<<AddFunction("k", "x", 5), Emit(<<CallOf("k", <<Num(2)>>)>>)>>, Result("k", Num(1))),
  computed |-> Block(<<AddFunction("k", "x", 5)>>, Result("k", Plus(Num(1), Num(2)))),
  none     |-> Block(<<>>, Result("id", Num(1))),
  local    |-> Body(<<Let("k", Num(1)), AddFunction("k", "x", 5), Emit(<<CallOf("k", <<Num(2)>>)>>)>>),
  nested   |-> Body(<<Let("z", Num(1)), Do(Body(<<AddFunction("k", "x", 5)>>)), While(Binary(Name("z"), "<", Num(3)),
                        Body(<<Set1(Name("z"), CallOf("k", <<Name("z")>>))>>)), Emit(<<Name("z")>>)>>),
  loop     |-> Body(<<NumericFor("i", Num(1), Num(2), <<>>, Body(<<AddFunction("k", "x", 5), Emit(<<CallOf("k", <<Name("i")>>)>>)>>))>>),
  other    |-> Body(<<FunctionStatement("k", Fn(<<"x">>, <<>>, <<Binary(Name("x"), "-", Num(5))>>)), Emit(<<CallOf("k", <<Num(1)>>)>>)>>)]

LuacNames == <<"stream", "again", "unknown", "emits", "computed", "none", "local", "nested", "loop", "other">>
LuacCases == EveryChoice(<<<<"luac">>, LuacNames, <<TRUE, FALSE>>>>)

\* Two or three files in one chunk: they share the globals, not the locals.
CombinedForms == [
  global   |-> <<Body(<<AddFunction("k", "x", 5), Let("z", Num(1))>>), Block(<<Emit(<<CallOf("k", <<Num(1)>>), Name("z")>>)>>, <<<<Num(4)>>>>)>>,
  returns  |-> <<LuacForms.stream, Body(<<Emit(<<CallOf("j", <<Num(1)>>), Vararg>>)>>), LuacForms.loop>>,
  wrong    |-> <<Body(<<Emit(<<Num(1)>>)>>), Body(<<Goto("out")>>)>>]
CombinedCases == EveryChoice(<<<<"combined">>, <<"global", "returns", "wrong">>, <<TRUE, FALSE>>>>)

FunctionOf(b) == Function(<<>>, TRUE, b)
InTurn(bs)    == Body([i \in DOMAIN bs |-> CallStatement(Call(Prefix(FunctionOf(bs[i])), <<>>))])

-----------------------------------------------------------------------------
(* Programs that are written as a binary chunk and loaded again, as they   *)
(* are, stripped, or without the RETURN of nothing that the compiler ends  *)
(* a function with; and chunks that were damaged on the way.               *)

ChunkCases ==
  LET cases == Cases
      forms == <<"whole", "stripped", "open">>
  IN [n \in 1 .. Len(cases) \div 17 |-> <<"chunk", forms[(n % 3) + 1], cases[17 * n]>>] \o <<>>

Dumped == Body(<<Let("n", Num(1)), LocalFunction("f", Fn(<<"x">>, <<>>, <<Plus(Name("x"), Name("n"))>>)),
                 Emit(<<CallOf("f", <<Num(2)>>)>>)>>)

-----------------------------------------------------------------------------

TextCases == PrecedenceCases \o ShortCases \o JumpCases \o MisplacedCases \o MalformedCases
             \o LuacCases \o CombinedCases \o ChunkCases

First == <<Emit(<<Num(1)>>)>>

RECURSIVE TreeOf(_)
TreeOf(c) ==
  CASE c[1] \in {"sums", "joins", "tests"} -> Precedence(c)
    [] c[1] = "short"     -> Setting(ShortForms[c[2]])
    [] c[1] = "jump"      -> Jumping(c)
    [] c[1] = "misplaced" -> Body(First \o Misplaced[c[2]])
    [] c[1] = "luac"      -> LuacForms[c[2]]
    [] c[1] = "combined"  -> InTurn(CombinedForms[c[2]])
    [] c[1] = "chunk"     -> TreeOf(c[3])
    [] c[1] = "damaged"   -> Dumped
    [] c[1] \in NumberPrograms -> NumberProgram(c)
    [] OTHER              -> ProgramOf(c)

\* The tokens of a program, and whether they are one at all.
Text(c) == IF c[1] = "malformed" THEN WriteBlock(Body(First)) \o Malformed[c[2]] ELSE WriteBlock(TreeOf(c))
WellFormed(c) == c[1] # "malformed"
=============================================================================
