------------------------------ MODULE Printer ------------------------------
(***************************************************************************)
(* Programs as the tokens a programmer writes: what the parser is given.   *)
(* A tree shows its own brackets: a prefix expression is one.              *)
(***************************************************************************)
EXTENDS Parser
LOCAL INSTANCE SequencesExt
LOCAL INSTANCE FiniteSetsExt

RECURSIVE Write(_), WriteStatement(_), WriteBlock(_)

Joint(parts, by) ==
  FlattenSeq([i \in DOMAIN parts |-> IF i = 1 THEN parts[1] ELSE by \o parts[i]])
List(es)     == Joint([i \in DOMAIN es |-> Write(es[i])], <<Op(",")>>)
Names(ns)    == Joint([i \in DOMAIN ns |-> <<Identifier(ns[i])>>], <<Op(",")>>)
Round(ts)    == <<Op("(")>> \o ts \o <<Op(")")>>

WriteLiteral(v) ==
  CASE v = NilValue       -> <<Keyword("nil")>>
    [] v = Boolean(TRUE)  -> <<Keyword("true")>>
    [] v = Boolean(FALSE) -> <<Keyword("false")>>
    [] IsInt(v) /\ v[2] < 0      -> <<Op("-"), LiteralToken(Number(-v[2]))>>
    [] IsFloat(v) /\ v[2][1] < 0 -> <<Op("-"), LiteralToken(Float(NegativeOf(v[2])))>>
    [] OTHER -> <<LiteralToken(v)>>

\* A string or a table alone needs no brackets.
WriteArguments(es) ==
  IF Len(es) = 1 /\ (es[1].kind = "table" \/ (es[1].kind = "literal" /\ es[1].value[1] = "string"))
  THEN Write(es[1]) ELSE Round(List(es))

WriteBody(f) ==
  LET dots == IF f.vararg THEN <<<<Op("...")>>>> ELSE <<>>
  IN Round(Joint([i \in DOMAIN f.params |-> <<Identifier(f.params[i])>>] \o dots, <<Op(",")>>))
     \o WriteBlock(f.body) \o <<Keyword("end")>>

WriteTable(e) ==
  LET items ==
        [i \in DOMAIN e.records |-> <<Identifier(e.records[i].name), Op("=")>> \o Write(e.records[i].value)]
        \o [i \in DOMAIN e.indexed |-> <<Op("[")>> \o Write(e.indexed[i].key) \o <<Op("]"), Op("=")>>
                                       \o Write(e.indexed[i].value)]
        \o [i \in DOMAIN e.fields |-> Write(e.fields[i])]
  IN <<Op("{")>> \o Joint(items, <<Op(IF Len(items) > 2 THEN ";" ELSE ",")>>) \o <<Op("}")>>

WordOperators == {"and", "or", "not"}
WriteOperator(o) == IF o \in WordOperators THEN Keyword(o) ELSE Op(o)

Write(e) ==
  CASE e.kind = "literal"  -> WriteLiteral(e.value)
    [] e.kind = "name"     -> <<Identifier(e.name)>>
    [] e.kind = "vararg"   -> <<Op("...")>>
    [] e.kind = "prefix"   -> Round(Write(e.inner))
    [] e.kind = "unary"    -> <<WriteOperator(e.operator)>> \o Write(e.operand)
    [] e.kind = "binary"   -> Write(e.left) \o <<WriteOperator(e.operator)>> \o Write(e.right)
    [] e.kind = "call"     -> Write(e.function) \o WriteArguments(e.arguments)
    [] e.kind = "method"   -> Write(e.receiver) \o <<Op(":"), Identifier(e.method)>> \o WriteArguments(e.arguments)
    [] e.kind = "field"    -> Write(e.receiver) \o <<Op("."), Identifier(e.field)>>
    [] e.kind = "index"    -> Write(e.receiver) \o <<Op("[")>> \o Write(e.index) \o <<Op("]")>>
    [] e.kind = "table"    -> WriteTable(e)
    [] e.kind = "function" -> <<Keyword("function")>> \o WriteBody(e)

\* function a.b() for an assignment of a function to a field.
IsNamed(st) ==
  /\ Len(st.left) = 1 /\ Len(st.right) = 1
  /\ st.left[1].kind = "field" /\ st.right[1].kind = "function"
WriteNamed(l, f) ==
  IF f.params # <<>> /\ f.params[1] = "self"
  THEN <<Keyword("function")>> \o Write(l.receiver) \o <<Op(":"), Identifier(l.field)>>
       \o WriteBody([f EXCEPT !.params = Tail(@)])
  ELSE <<Keyword("function")>> \o Write(l) \o WriteBody(f)

WriteClause(word, c) ==
  <<Keyword(word)>> \o Write(c.condition) \o <<Keyword("then")>> \o WriteBlock(c.block)

\* A call that begins with a bracket is kept apart from what is before it.
WriteCall(call) ==
  LET ts == Write(call) IN IF ts[1] = Op("(") THEN <<Op(";")>> \o ts ELSE ts

WriteStatement(st) ==
  CASE st.kind = "empty" -> <<Op(";")>>
    [] st.kind = "do"    -> <<Keyword("do")>> \o WriteBlock(st.body) \o <<Keyword("end")>>
    [] st.kind = "local" -> <<Keyword("local")>> \o Names(st.names)
                            \o (IF st.values = <<>> THEN <<>> ELSE <<Op("=")>> \o List(st.values))
    [] st.kind = "assign" -> IF IsNamed(st) THEN WriteNamed(st.left[1], st.right[1])
                             ELSE List(st.left) \o <<Op("=")>> \o List(st.right)
    [] st.kind = "call"   -> WriteCall(st.call)
    [] st.kind = "localfunction" ->
         <<Keyword("local"), Keyword("function"), Identifier(st.name)>> \o WriteBody(st.function)
    [] st.kind = "function" -> <<Keyword("function"), Identifier(st.name)>> \o WriteBody(st.function)
    [] st.kind = "if" ->
         FlattenSeq([i \in DOMAIN st.clauses |-> WriteClause(IF i = 1 THEN "if" ELSE "elseif", st.clauses[i])])
         \o (IF st.default = <<>> THEN <<>> ELSE <<Keyword("else")>> \o WriteBlock(st.default[1]))
         \o <<Keyword("end")>>
    [] st.kind = "while"  -> <<Keyword("while")>> \o Write(st.condition) \o <<Keyword("do")>>
                             \o WriteBlock(st.body) \o <<Keyword("end")>>
    [] st.kind = "repeat" -> <<Keyword("repeat")>> \o WriteBlock(st.body) \o <<Keyword("until")>>
                             \o Write(st.condition)
    [] st.kind = "fornum" -> <<Keyword("for"), Identifier(st.name), Op("=")>>
                             \o List(<<st.init, st.limit>> \o st.step) \o <<Keyword("do")>>
                             \o WriteBlock(st.body) \o <<Keyword("end")>>
    [] st.kind = "forin"  -> <<Keyword("for")>> \o Names(st.names) \o <<Keyword("in")>> \o List(st.iterators)
                             \o <<Keyword("do")>> \o WriteBlock(st.body) \o <<Keyword("end")>>
    [] st.kind = "break"  -> <<Keyword("break")>>
    [] st.kind = "continue" -> <<Identifier("continue")>>
    [] st.kind = "goto"   -> <<Keyword("goto"), Identifier(st.label)>>
    [] st.kind = "label"  -> <<Op("::"), Identifier(st.name), Op("::")>>
    [] st.kind = "switch" ->
         <<Identifier("switch")>> \o Write(st.expression) \o <<Keyword("do")>>
         \o FlattenSeq([i \in DOMAIN st.cases |->
              <<Identifier("case")>> \o List(st.cases[i].values) \o WriteBlock(st.cases[i].block)])
         \o (IF st.default = <<>> THEN <<>> ELSE <<Identifier("default")>> \o WriteBlock(st.default[1]))
         \o <<Keyword("end")>>

WriteBlock(b) ==
  FlattenSeq([i \in DOMAIN b.statements |-> WriteStatement(b.statements[i])])
  \o (IF b.last = <<>> THEN <<>> ELSE <<Keyword("return")>> \o List(b.last[1]))
=============================================================================
