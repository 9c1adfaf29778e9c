------------------------------- MODULE Parser -------------------------------
(***************************************************************************)
(* The parser (compiler/parser): recursive descent over the tokens of a    *)
(* chunk, and the analyzer of labels, gotos and locals that runs over the  *)
(* tree.  An operator has the name of the Go function it stands for, takes *)
(* a parser p and returns the parser after it with the node it made.       *)
(*                                                                         *)
(* The first error ends it: nothing but the end of the file is left then,  *)
(* where every loop stops and every expectation fails.                     *)
(*                                                                         *)
(* Abstracted: the lexer (a token is its kind and its text, or the value of *)
(* a literal), positions, the wording of errors, const declarations.       *)
(***************************************************************************)
EXTENDS Syntax
LOCAL INSTANCE SequencesExt
LOCAL INSTANCE FiniteSetsExt

maxSyntaxCLevels  == 200
maxFunctionLocals == 200

Keyword(t)      == <<"keyword", t>>
Op(t)           == <<"operator", t>>
Identifier(n)   == <<"identifier", n>>
LiteralToken(v) == <<"literal", v>>
EndOfFile       == <<"eof", "">>

\* compact: luac lets the parser take the simplest functions out.
NewParser(tokens, compact) ==
  [tokens |-> tokens, compact |-> compact, at |-> 1, depth |-> 0, failed |-> FALSE]

Current(p) == IF p.at > Len(p.tokens) THEN EndOfFile ELSE p.tokens[p.at]
Is(t, p)   == Current(p) = t
IsName(p)  == Current(p)[1] = "identifier"
advance(p) == [p EXCEPT !.at = @ + 1]
Reject(p)  == [p EXCEPT !.at = Len(p.tokens) + 1, !.failed = TRUE]
Node(p, n) == [p |-> p, node |-> n]
Refuse(p)    == Node(Reject(p), Vararg)

expect(t, p)        == IF Is(t, p) THEN advance(p) ELSE Reject(p)
expectIdentifier(p) == IF IsName(p) THEN Node(advance(p), Current(p)[2]) ELSE Node(Reject(p), "")

enterSyntaxLevel(p) == IF p.depth = maxSyntaxCLevels THEN Reject(p) ELSE [p EXCEPT !.depth = @ + 1]
leaveSyntaxLevel(p) == [p EXCEPT !.depth = @ - 1]
checkSyntaxListLimit(n, p) == IF n > maxSyntaxCLevels THEN Reject(p) ELSE p

-----------------------------------------------------------------------------
(* Expressions. *)

RECURSIVE parseExpression(_), parseSubExpression(_, _), parseExpressionList(_), ParseBlock(_)

unaryPriority == 11
binaryPriority(t) ==
  CASE t = Keyword("or")  -> 1
    [] t = Keyword("and") -> 2
    [] t \in {Op(o) : o \in {"<", ">", "<=", ">=", "~=", "=="}} -> 3
    [] t = Op("|")  -> 4
    [] t = Op("~")  -> 5
    [] t = Op("&")  -> 6
    [] t \in {Op("<<"), Op(">>")} -> 7
    [] t = Op("..") -> 8
    [] t \in {Op("+"), Op("-")} -> 9
    [] t \in {Op(o) : o \in {"*", "/", "//", "%"}} -> 10
    [] t = Op("^")  -> 12
    [] OTHER        -> 0
rightAssociative(t) == t \in {Op(".."), Op("^")}

isUnaryOperator(t)  == t \in {Keyword("not"), Op("#"), Op("-"), Op("~")}
isCallExpression(e) == e.kind \in {"call", "method"}
isAssignmentTarget(e) == e.kind \in {"name", "field", "index"}
isPostfixPrefixExpression(e) ==
  isAssignmentTarget(e) \/ isCallExpression(e) \/ e.kind = "prefix"
isShortcutCallArgumentStart(t) == t = Op("{") \/ (t[1] = "literal" /\ t[2][1] = "string")

RECURSIVE parseParameters(_, _), parseTableFields(_, _), PostfixFrom(_, _), BinaryFrom(_, _, _)

(* Parameters up to the closing bracket: ... is the last. *)
parseParameters(names, p) ==
  LET n == expectIdentifier(p)
      all == Append(names, n.node)
      more == advance(checkSyntaxListLimit(Len(all) + 1, n.p))
  IN CASE Is(Op("..."), p)     -> [p |-> advance(p), names |-> names, vararg |-> TRUE]
       [] ~Is(Op(","), n.p)    -> [p |-> n.p, names |-> all, vararg |-> FALSE]
       [] Is(Op(")"), more)    -> [p |-> Reject(more), names |-> all, vararg |-> FALSE]
       [] OTHER                -> parseParameters(all, more)

parseFunctionBody(p) ==
  LET open   == expect(Op("("), p)
      params == IF Is(Op(")"), open) THEN [p |-> open, names |-> <<>>, vararg |-> FALSE]
                ELSE parseParameters(<<>>, open)
      body   == ParseBlock(expect(Op(")"), params.p))
  IN Node(expect(Keyword("end"), body.p), Function(params.names, params.vararg, body.node))

parseFunctionExpression(p) == parseFunctionBody(expect(Keyword("function"), p))

\* [key] = value, name = value, or a value.
parseTableField(p) ==
  LET key    == parseExpression(advance(p))
      keyed  == parseExpression(expect(Op("="), expect(Op("]"), key.p)))
      first  == parseExpression(p)
      named  == parseExpression(advance(first.p))
  IN CASE Is(Op("["), p) -> [p |-> keyed.p, in |-> "indexed", item |-> IndexField(key.node, keyed.node)]
       [] first.node.kind = "name" /\ Is(Op("="), first.p) ->
            [p |-> named.p, in |-> "records", item |-> Record(first.node.name, named.node)]
       [] OTHER -> [p |-> first.p, in |-> "fields", item |-> first.node]

parseTableFields(table, p) ==
  LET f == parseTableField(p)
      t == [table EXCEPT ![f.in] = Append(@, f.item)]
  IN CASE Is(Op("}"), p) -> Node(p, table)
       [] Is(Op(","), f.p) \/ Is(Op(";"), f.p) -> parseTableFields(t, advance(f.p))
       [] Is(Op("}"), f.p) -> Node(f.p, t)
       [] OTHER -> Refuse(f.p)

parseTableConstructorExpression(p) ==
  LET t == parseTableFields(Constructor(<<>>, <<>>, <<>>), expect(Op("{"), p))
  IN Node(expect(Op("}"), t.p), t.node)

parsePrefixExpression(p) ==
  LET e == parseExpression(expect(Op("("), p)) IN Node(expect(Op(")"), e.p), Prefix(e.node))

parsePrimaryExpression(p) ==
  LET t == Current(p) IN
  CASE t[1] = "identifier" -> Node(advance(p), Name(t[2]))
    [] t[1] = "literal"    -> Node(advance(p), Literal(t[2]))
    [] t = Op("...")       -> Node(advance(p), Vararg)
    [] t = Op("{")         -> parseTableConstructorExpression(p)
    [] t = Op("(")         -> parsePrefixExpression(p)
    [] t = Keyword("nil")  -> Node(advance(p), Literal(NilValue))
    [] t = Keyword("true") -> Node(advance(p), Literal(Boolean(TRUE)))
    [] t = Keyword("false")    -> Node(advance(p), Literal(Boolean(FALSE)))
    [] t = Keyword("function") -> parseFunctionExpression(p)
    [] OTHER               -> Refuse(p)

\* f"text" and f{table} are calls too.
parseCallArguments(p) ==
  LET t     == Current(p)
      open  == expect(Op("("), p)
      table == parseTableConstructorExpression(p)
      all   == parseExpressionList(open)
  IN CASE t = Op("{")           -> Node(table.p, <<table.node>>)
       [] isShortcutCallArgumentStart(t) -> Node(advance(p), <<Literal(t[2])>>)
       [] Is(Op(")"), open)     -> Node(advance(open), <<>>)
       [] OTHER                 -> Node(expect(Op(")"), all.p), all.node)

\* What follows the expression e that p has just parsed.
PostfixFrom(e, p) ==
  LET t    == Current(p)
      name == expectIdentifier(advance(p))
      key  == parseExpression(advance(p))
      args == parseCallArguments(IF t = Op(":") THEN name.p ELSE p)
  IN CASE ~isPostfixPrefixExpression(e) -> Node(p, e)
       [] t = Op(".") -> PostfixFrom(Field(e, name.node), name.p)
       [] t = Op("[") -> PostfixFrom(Index(e, key.node), expect(Op("]"), key.p))
       [] t = Op("(") \/ isShortcutCallArgumentStart(t) -> PostfixFrom(Call(e, args.node), args.p)
       [] t = Op(":") -> PostfixFrom(MethodCall(e, name.node, args.node), args.p)
       [] OTHER       -> Node(p, e)

parsePostfixExpression(p) ==
  LET e == parsePrimaryExpression(p) IN PostfixFrom(e.node, e.p)

parseUnaryExpression(p) ==
  LET operand == parseSubExpression(unaryPriority, advance(p))
  IN IF isUnaryOperator(Current(p)) THEN Node(operand.p, Unary(Current(p)[2], operand.node))
     ELSE parsePostfixExpression(p)

\* Operators of the priority, or above, after the expression l.
BinaryFrom(l, minimum, p) ==
  LET t        == Current(p)
      priority == binaryPriority(t)
      r        == parseSubExpression(IF rightAssociative(t) THEN priority ELSE priority + 1, advance(p))
  IN IF priority = 0 \/ priority < minimum THEN Node(p, l)
     ELSE BinaryFrom(Binary(l, t[2], r.node), minimum, r.p)

parseSubExpression(minimum, p) ==
  LET l == parseUnaryExpression(enterSyntaxLevel(p))
      e == BinaryFrom(l.node, minimum, l.p)
  IN Node(leaveSyntaxLevel(e.p), e.node)

parseExpression(p) == parseSubExpression(1, p)

parseExpressionList(p) ==
  LET first == parseExpression(p)
      rest  == parseExpressionList(advance(first.p))
  IN IF Is(Op(","), first.p) THEN Node(rest.p, <<first.node>> \o rest.node)
     ELSE Node(first.p, <<first.node>>)

RECURSIVE parseNameList(_)
parseNameList(p) ==
  LET first == expectIdentifier(p)
      rest  == parseNameList(advance(first.p))
  IN IF Is(Op(","), first.p) THEN Node(rest.p, <<first.node>> \o rest.node)
     ELSE Node(first.p, <<first.node>>)

-----------------------------------------------------------------------------
(* Statements. *)

RECURSIVE parseStatement(_), StatementsInto(_, _, _)

\* What ends a block: the body of a case ends where the next one begins.
isSwitchBlockEnd(t) == t \in {Identifier("case"), Identifier("default"), Keyword("end")}
isBlockEndToken(t, inSwitch) ==
  \/ t = EndOfFile \/ t \in {Keyword(k) : k \in {"end", "else", "elseif", "until"}}
  \/ inSwitch /\ isSwitchBlockEnd(t)

parseReturnStatement(inSwitch, p) ==
  LET q   == expect(Keyword("return"), p)
      all == IF isBlockEndToken(Current(q), inSwitch) \/ Is(Op(";"), q) THEN Node(q, <<>>)
             ELSE parseExpressionList(q)
  IN Node(IF Is(Op(";"), all.p) THEN advance(all.p) ELSE all.p, all.node)

StatementsInto(block, inSwitch, p) ==
  LET last == parseReturnStatement(inSwitch, p)
      st   == parseStatement(p)
  IN CASE isBlockEndToken(Current(p), inSwitch) -> Node(p, block)
       [] Is(Keyword("return"), p) -> Node(last.p, [block EXCEPT !.last = <<last.node>>])
       [] OTHER -> StatementsInto([block EXCEPT !.statements = Append(@, st.node)], inSwitch, st.p)

parseBlockUntil(inSwitch, p) ==
  LET b == StatementsInto(Block(<<>>, <<>>), inSwitch, enterSyntaxLevel(p))
  IN Node(leaveSyntaxLevel(b.p), b.node)

ParseBlock(p) == parseBlockUntil(FALSE, p)

parseDoStatement(p) ==
  LET b == ParseBlock(advance(p)) IN Node(expect(Keyword("end"), b.p), Do(b.node))

\* More targets of an assignment, after those in targets.
RECURSIVE parseTargets(_, _)
parseTargets(targets, p) ==
  LET e == parsePostfixExpression(advance(checkSyntaxListLimit(Len(targets) + 1, p)))
  IN CASE ~Is(Op(","), p)              -> Node(p, targets)
       [] ~isAssignmentTarget(e.node)  -> Refuse(e.p)
       [] OTHER                        -> parseTargets(Append(targets, e.node), e.p)

parseAssignmentOrCallStatement(p) ==
  LET e  == parsePostfixExpression(p)
      ts == parseTargets(<<e.node>>, e.p)
      vs == parseExpressionList(expect(Op("="), ts.p))
  IN CASE isCallExpression(e.node)     -> Node(e.p, CallStatement(e.node))
       [] ~isAssignmentTarget(e.node)  -> Refuse(e.p)
       [] OTHER                        -> Node(vs.p, Assign(ts.node, vs.node))

parsePrefixCallStatement(p) ==
  LET e == parsePostfixExpression(p)
  IN IF isCallExpression(e.node) THEN Node(e.p, CallStatement(e.node)) ELSE Refuse(e.p)

parseLocalAssignmentStatement(p) ==
  LET q     == expect(Keyword("local"), p)
      n     == expectIdentifier(advance(q))
      body  == parseFunctionBody(n.p)
      names == parseNameList(q)
      vs    == IF Is(Op("="), names.p) THEN parseExpressionList(advance(names.p)) ELSE Node(names.p, <<>>)
  IN CASE Is(Keyword("function"), q) -> Node(body.p, LocalFunction(n.node, body.node))
       [] Len(names.node) > maxFunctionLocals -> Refuse(p)
       [] OTHER -> Node(vs.p, Local(names.node, vs.node))

(* function a.b:c() assigns to a field, and a method has a first parameter *)
(* self.                                                                   *)
RECURSIVE FieldsOf(_, _)
FieldsOf(e, p) ==
  LET n == expectIdentifier(advance(p))
  IN IF Is(Op("."), p) THEN FieldsOf(Field(e, n.node), n.p) ELSE Node(p, e)

parseFunctionName(p) ==
  LET n      == expectIdentifier(p)
      fields == FieldsOf(Name(n.node), n.p)
      method == expectIdentifier(advance(fields.p))
  IN IF Is(Op(":"), fields.p)
     THEN [p |-> method.p, target |-> Field(fields.node, method.node), method |-> TRUE]
     ELSE [p |-> fields.p, target |-> fields.node, method |-> FALSE]

WithSelf(f) == [f EXCEPT !.params = <<"self">> \o @]

\* (x) return x + 1 end is recognized token by token, and everything taken
\* back if it turns out to be something else.
tryParseCompactFunctionStatement(name, p) ==
  LET ts    == SubSeq(p.tokens, p.at, Min({p.at + 7, Len(p.tokens)}))
      x     == ts[2][2]
      value == ts[7][2]
  IN IF /\ p.compact
        /\ Len(ts) = 8
        /\ ts[1] = Op("(") /\ ts[2][1] = "identifier" /\ ts[3] = Op(")")
        /\ ts[4] = Keyword("return") /\ ts[5] = Identifier(x) /\ ts[6] = Op("+")
        /\ ts[7][1] = "literal" /\ value[1] = "integer"
        /\ ts[8] = Keyword("end")
     THEN Node([p EXCEPT !.at = @ + 8], <<CompactFunction(name, x, value)>>)
     ELSE Node(p, <<>>)

parseFunctionStatement(p) ==
  LET f       == parseFunctionName(expect(Keyword("function"), p))
      compact == tryParseCompactFunctionStatement(f.target.name, f.p)
      body    == parseFunctionBody(f.p)
      simple  == f.target.kind = "name"
  IN CASE simple /\ compact.node # <<>> -> Node(compact.p, compact.node[1])
       [] simple   -> Node(body.p, FunctionStatement(f.target.name, body.node))
       [] f.method -> Node(body.p, Assign(<<f.target>>, <<WithSelf(body.node)>>))
       [] OTHER    -> Node(body.p, Assign(<<f.target>>, <<body.node>>))

parseIfClause(keyword, p) ==
  LET c == parseExpression(expect(Keyword(keyword), p))
      b == ParseBlock(expect(Keyword("then"), c.p))
  IN Node(b.p, Clause(c.node, b.node))

RECURSIVE ElseIfs(_, _)
ElseIfs(clauses, p) ==
  LET c == parseIfClause("elseif", p)
  IN IF Is(Keyword("elseif"), p) THEN ElseIfs(Append(clauses, c.node), c.p) ELSE Node(p, clauses)

parseIfStatement(p) ==
  LET first   == parseIfClause("if", p)
      clauses == ElseIfs(<<first.node>>, first.p)
      else    == ParseBlock(advance(clauses.p))
  IN IF Is(Keyword("else"), clauses.p)
     THEN Node(expect(Keyword("end"), else.p), If(clauses.node, <<else.node>>))
     ELSE Node(expect(Keyword("end"), clauses.p), If(clauses.node, <<>>))

\* do, a block, and end.
parseBody(p) ==
  LET b == ParseBlock(expect(Keyword("do"), p)) IN Node(expect(Keyword("end"), b.p), b.node)

parseWhileStatement(p) ==
  LET c == parseExpression(expect(Keyword("while"), p))
      b == parseBody(c.p)
  IN Node(b.p, While(c.node, b.node))

parseRepeatUntilStatement(p) ==
  LET b == ParseBlock(expect(Keyword("repeat"), p))
      c == parseExpression(expect(Keyword("until"), b.p))
  IN Node(c.p, Repeat(b.node, c.node))

parseNumericForStatement(n, p) ==
  LET init  == parseExpression(expect(Op("="), p))
      limit == parseExpression(expect(Op(","), init.p))
      step  == parseExpression(advance(limit.p))
      given == Is(Op(","), limit.p)
      b     == parseBody(IF given THEN step.p ELSE limit.p)
  IN Node(b.p, NumericFor(n, init.node, limit.node, IF given THEN <<step.node>> ELSE <<>>, b.node))

parseGenericForStatement(n, p) ==
  LET more  == parseNameList(advance(p))
      given == Is(Op(","), p)
      names == IF given THEN <<n>> \o more.node ELSE <<n>>
      es    == parseExpressionList(expect(Keyword("in"),
                 checkSyntaxListLimit(Len(names), IF given THEN more.p ELSE p)))
      b     == parseBody(es.p)
  IN Node(b.p, GenericFor(names, es.node, b.node))

parseForStatement(p) ==
  LET n == expectIdentifier(expect(Keyword("for"), p))
  IN IF Is(Op("="), n.p) THEN parseNumericForStatement(n.node, n.p)
     ELSE parseGenericForStatement(n.node, n.p)

parseGotoStatement(p) ==
  LET n == expectIdentifier(expect(Keyword("goto"), p)) IN Node(n.p, Goto(n.node))

parseLabelStatement(p) ==
  LET n == expectIdentifier(expect(Op("::"), p)) IN Node(expect(Op("::"), n.p), Label(n.node))

(* switch e do case v, ... default ... end; the default comes last. *)
parseSwitchCase(p) ==
  LET vs == parseExpressionList(advance(p))
      b  == parseBlockUntil(TRUE, vs.p)
  IN Node(b.p, Case(vs.node, b.node))

RECURSIVE SwitchCases(_, _, _)
SwitchCases(cases, default, p) ==
  LET c == parseSwitchCase(p)
      d == parseBlockUntil(TRUE, advance(p))
  IN CASE Is(Keyword("end"), p) -> [p |-> p, cases |-> cases, default |-> default]
       [] Is(Identifier("case"), p) /\ default = <<>> -> SwitchCases(Append(cases, c.node), default, c.p)
       [] Is(Identifier("default"), p) /\ default = <<>> -> SwitchCases(cases, <<d.node>>, d.p)
       [] OTHER -> [p |-> Reject(p), cases |-> cases, default |-> default]

parseSwitchStatement(p) ==
  LET e == parseExpression(advance(p))
      s == SwitchCases(<<>>, <<>>, expect(Keyword("do"), e.p))
  IN Node(expect(Keyword("end"), s.p), Switch(e.node, s.cases, s.default))

\* switch and continue are names elsewhere.
parseStatement(p) ==
  LET t == Current(p) IN
  CASE t = Op(";")              -> Node(advance(p), Empty)
    [] t = Op("::")             -> parseLabelStatement(p)
    [] t = Keyword("do")        -> parseDoStatement(p)
    [] t = Keyword("local")     -> parseLocalAssignmentStatement(p)
    [] t = Keyword("break")     -> Node(advance(p), Break)
    [] t = Keyword("goto")      -> parseGotoStatement(p)
    [] t = Keyword("for")       -> parseForStatement(p)
    [] t = Keyword("function")  -> parseFunctionStatement(p)
    [] t = Keyword("if")        -> parseIfStatement(p)
    [] t = Keyword("while")     -> parseWhileStatement(p)
    [] t = Keyword("repeat")    -> parseRepeatUntilStatement(p)
    [] t = Identifier("switch") -> parseSwitchStatement(p)
    [] t = Identifier("continue") -> Node(advance(p), Continue)
    [] IsName(p) /\ t[2] \notin {"switch", "continue"} -> parseAssignmentOrCallStatement(p)
    [] t = Op("(")              -> parsePrefixCallStatement(p)
    [] OTHER                    -> Refuse(p)
=============================================================================
