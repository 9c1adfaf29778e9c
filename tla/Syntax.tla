------------------------------- MODULE Syntax -------------------------------
(***************************************************************************)
(* The syntax trees of compiler/parser/ast.go, without positions, and with *)
(* the values literals have.  A statement or an expression is a record     *)
(* whose kind names its Go type.                                           *)
(***************************************************************************)
EXTENDS Sequences, Values

-----------------------------------------------------------------------------
(* Expressions. *)

Literal(v)           == [kind |-> "literal", value |-> v]
Name(n)              == [kind |-> "name", name |-> n]
Vararg               == [kind |-> "vararg"]
Prefix(e)            == [kind |-> "prefix", inner |-> e]
Unary(op, e)         == [kind |-> "unary", operator |-> op, operand |-> e]
Binary(l, op, r)     == [kind |-> "binary", operator |-> op, left |-> l, right |-> r]
Call(f, args)        == [kind |-> "call", function |-> f, arguments |-> args]
MethodCall(e, m, as) == [kind |-> "method", receiver |-> e, method |-> m, arguments |-> as]
Field(e, f)          == [kind |-> "field", receiver |-> e, field |-> f]
Index(e, k)          == [kind |-> "index", receiver |-> e, index |-> k]
Constructor(fields, records, indexed) ==
  [kind |-> "table", fields |-> fields, records |-> records, indexed |-> indexed]
Function(params, vararg, body) ==
  [kind |-> "function", params |-> params, vararg |-> vararg, body |-> body]

-----------------------------------------------------------------------------
(* Blocks and statements.  last is <<>> or holds the list a return has; a  *)
(* step, an else and a default are sequences of one or none.               *)

Block(statements, last) == [statements |-> statements, last |-> last]

Local(names, values)     == [kind |-> "local", names |-> names, values |-> values]
Assign(left, right)      == [kind |-> "assign", left |-> left, right |-> right]
CallStatement(call)      == [kind |-> "call", call |-> call]
Do(body)                 == [kind |-> "do", body |-> body]
LocalFunction(n, f)      == [kind |-> "localfunction", name |-> n, function |-> f]
FunctionStatement(n, f)  == [kind |-> "function", name |-> n, function |-> f]
CompactFunction(n, x, v) == [kind |-> "compact", name |-> n, param |-> x, value |-> v]
If(clauses, default)     == [kind |-> "if", clauses |-> clauses, default |-> default]
While(c, body)           == [kind |-> "while", condition |-> c, body |-> body]
Repeat(body, c)          == [kind |-> "repeat", condition |-> c, body |-> body]
NumericFor(n, i, l, step, body) ==
  [kind |-> "fornum", name |-> n, init |-> i, limit |-> l, step |-> step, body |-> body]
GenericFor(names, es, body) ==
  [kind |-> "forin", names |-> names, iterators |-> es, body |-> body]
Empty    == [kind |-> "empty"]
Break    == [kind |-> "break"]
Continue == [kind |-> "continue"]
Goto(l)  == [kind |-> "goto", label |-> l]
Label(l) == [kind |-> "label", name |-> l]
Switch(e, cases, default) ==
  [kind |-> "switch", expression |-> e, cases |-> cases, default |-> default]

Clause(c, b)     == [condition |-> c, block |-> b]
Case(values, b)  == [values |-> values, block |-> b]
Record(n, e)     == [name |-> n, value |-> e]
IndexField(k, e) == [key |-> k, value |-> e]
=============================================================================
