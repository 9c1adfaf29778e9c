------------------------------ MODULE Analyzer ------------------------------
(***************************************************************************)
(* What the parser checks of a tree it has made (parser/semantic.go):      *)
(* labels, gotos, locals, continue and the values of a switch.             *)
(*                                                                         *)
(* An analyzer a holds the scopes, numbered in the order they are met, and *)
(* of the function at hand the labels and the gotos.  Functions that are   *)
(* part of an expression are not looked into.                              *)
(***************************************************************************)
EXTENDS Parser
LOCAL INSTANCE SequencesExt
LOCAL INSTANCE FiniteSetsExt

semanticAnalyzer == [scopes |-> <<>>, loopDepth |-> 0, labels |-> {}, gotos |-> {}, errors |-> {}]

addError(why, a) == [a EXCEPT !.errors = @ \cup {why}]

\* A local is in scope after the statement that declares it; a name that
\* comes with the block, from statement 0 on.
addLocalNames(id, names, start, a) ==
  LET room == maxFunctionLocals - Len(a.scopes[id].locals)
      new  == [i \in 1 .. Min({room, Len(names)}) |-> start]
      b    == [a EXCEPT !.scopes[id].locals = @ \o new]
  IN IF Len(names) > room THEN addError("too many local variables", b) ELSE b

RECURSIVE analyzeStatement(_, _, _, _)

\* parent is 0 for the body of a function.
analyzeBlock(block, parent, index, names, trailing, a) ==
  LET id    == Len(a.scopes) + 1
      scope == [parent |-> parent, index |-> index, trailing |-> trailing,
                depth |-> IF parent = 0 THEN 0 ELSE a.scopes[parent].depth + 1,
                statements |-> block.statements, locals |-> <<>>]
  IN FoldLeft(LAMBDA b, i : analyzeStatement(id, i, block.statements[i], b),
              addLocalNames(id, names, 0, [a EXCEPT !.scopes = Append(@, scope)]),
              [i \in DOMAIN block.statements |-> i])

analyzeBlocks(blocks, parent, index, a) ==
  FoldLeft(LAMBDA b, block : analyzeBlock(block, parent, index, <<>>, FALSE, b), a, blocks)

analyzeLoop(body, parent, index, names, trailing, a) ==
  [analyzeBlock(body, parent, index, names, trailing, [a EXCEPT !.loopDepth = @ + 1])
     EXCEPT !.loopDepth = a.loopDepth]

addLabel(id, i, n, a) ==
  IF \E l \in a.labels : l.name = n /\ l.scope = id THEN addError("duplicate label", a)
  ELSE [a EXCEPT !.labels = @ \cup {[name |-> n, scope |-> id, at |-> i]}]

-----------------------------------------------------------------------------
(* Gotos, when the function they are in has been analyzed. *)

RECURSIVE scopeContains(_, _, _), childStatementIndexOnPath(_, _, _)
scopeContains(outer, inner, a) ==
  inner # 0 /\ (inner = outer \/ scopeContains(outer, a.scopes[inner].parent, a))

\* The labels with the name, in the blocks around.
VisibleLabels(g, a) == {l \in a.labels : l.name = g.name /\ scopeContains(l.scope, g.scope, a)}
resolveVisibleLabel(g, a) ==
  CHOOSE l \in VisibleLabels(g, a) :
    \A m \in VisibleLabels(g, a) : a.scopes[m.scope].depth <= a.scopes[l.scope].depth

\* The statement of the block ancestor that the block descendant is in.
childStatementIndexOnPath(ancestor, descendant, a) ==
  IF a.scopes[descendant].parent = ancestor THEN a.scopes[descendant].index
  ELSE childStatementIndexOnPath(ancestor, a.scopes[descendant].parent, a)

labelAtBlockTail(l, a) ==
  /\ ~a.scopes[l.scope].trailing
  /\ \A i \in l.at + 1 .. Len(a.scopes[l.scope].statements) :
       a.scopes[l.scope].statements[i].kind \in {"label", "empty"}

\* A goto back over the local, between it and the label.
hasScopeClosingBackwardGoto(start, l, a) ==
  \E i \in start + 1 .. l.at - 1 :
    LET st == a.scopes[l.scope].statements[i]
        g  == [name |-> st.label, scope |-> l.scope, at |-> i]
        target == resolveVisibleLabel(g, a)
    IN /\ st.kind = "goto" /\ VisibleLabels(g, a) # {}
       /\ target.scope = l.scope /\ target.at < start

\* The locals that a jump from statement i to a label of the block enters.
LocalsBetween(i, l, a) ==
  {start \in ToSet(a.scopes[l.scope].locals) : i < start /\ start <= l.at}

validateForwardGotoLocals(g, l, a) ==
  \A start \in LocalsBetween(g.at, l, a) :
    labelAtBlockTail(l, a) \/ hasScopeClosingBackwardGoto(start, l, a)

validateOuterForwardGotoLocals(g, l, a) ==
  LET exit == childStatementIndexOnPath(l.scope, g.scope, a)
  IN LocalsBetween(exit, l, a) = {} \/ labelAtBlockTail(l, a)

validateGotos(a) ==
  LET Check(b, g) ==
        LET l == resolveVisibleLabel(g, a)
            valid == IF l.scope = g.scope THEN validateForwardGotoLocals(g, l, a)
                     ELSE validateOuterForwardGotoLocals(g, l, a)
        IN CASE VisibleLabels(g, a) = {} -> addError("undefined label", b)
             [] ~valid -> addError("goto jumps into scope of local", b)
             [] OTHER  -> b
  IN FoldLeft(Check, a, SetToSeq(a.gotos))

-----------------------------------------------------------------------------

analyzeFunctionBody(f, a) ==
  LET inner == analyzeBlock(f.body, 0, 0, f.params, FALSE,
                            [a EXCEPT !.loopDepth = 0, !.labels = {}, !.gotos = {}])
  IN [validateGotos(inner) EXCEPT !.loopDepth = a.loopDepth, !.labels = a.labels, !.gotos = a.gotos]

\* The literals of all the cases, in order.
SwitchValues(st) == FlattenSeq([i \in DOMAIN st.cases |-> st.cases[i].values])

\* A whole float has the key of the integer.  The bound is 2^63 - 1 rounded to a
\* float, 2^63, which amd64 converts to the least integer.
switchCaseStaticValueKey(e) ==
  LET v == e.value
  IN IF IsFloat(v) /\ IsWhole(v[2]) /\ v[2][1] \in MinInt .. -MinInt THEN Number(Wrap(v[2][1])) ELSE v

validateSwitchCaseValues(st, a) ==
  LET literals == SelectSeq(SwitchValues(st), LAMBDA e : e.kind = "literal")
      keys == [i \in DOMAIN literals |-> switchCaseStaticValueKey(literals[i])]
  IN IF IsInjective(keys) THEN a ELSE addError("duplicate switch case value", a)

analyzeStatement(id, i, st, a) ==
  CASE st.kind = "do"     -> analyzeBlocks(<<st.body>>, id, i, a)
    [] st.kind = "local"  -> addLocalNames(id, st.names, i, a)
    [] st.kind = "localfunction" -> analyzeFunctionBody(st.function, addLocalNames(id, <<st.name>>, i, a))
    [] st.kind = "function" -> analyzeFunctionBody(st.function, a)
    [] st.kind = "if"     -> analyzeBlocks([c \in DOMAIN st.clauses |-> st.clauses[c].block] \o st.default, id, i, a)
    [] st.kind = "while"  -> analyzeLoop(st.body, id, i, <<>>, FALSE, a)
    [] st.kind = "repeat" -> analyzeLoop(st.body, id, i, <<>>, TRUE, a)
    [] st.kind = "fornum" -> analyzeLoop(st.body, id, i, <<st.name>>, FALSE, a)
    [] st.kind = "forin"  -> analyzeLoop(st.body, id, i, st.names, FALSE, a)
    [] st.kind = "label"  -> addLabel(id, i, st.name, a)
    [] st.kind = "goto"   -> [a EXCEPT !.gotos = @ \cup {[name |-> st.label, scope |-> id, at |-> i]}]
    [] st.kind = "switch" ->
         analyzeBlocks([c \in DOMAIN st.cases |-> st.cases[c].block] \o st.default, id, i,
                       validateSwitchCaseValues(st, a))
    [] st.kind = "continue" /\ a.loopDepth = 0 -> addError("continue outside loop", a)
    [] OTHER              -> a

analyzeChunk(block) == validateGotos(analyzeBlock(block, 0, 0, <<>>, FALSE, semanticAnalyzer)).errors

(* A chunk is what is left when the parser has seen the end of the file    *)
(* and the analyzer has found nothing.                                     *)
ParseChunk(tokens, compact) ==
  LET b == ParseBlock(NewParser(tokens, compact))
  IN [ok    |-> ~b.p.failed /\ Is(EndOfFile, b.p) /\ analyzeChunk(b.node) = {},
      block |-> b.node]
=============================================================================
