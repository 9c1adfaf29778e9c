------------------------------- MODULE Values -------------------------------
(***************************************************************************)
(* The values programs compute with.  A value is a pair of its type and    *)
(* what tells it from others of the type: an integer has 16 bits in the    *)
(* place of 64, a float is a fraction in lowest terms (1/0 is infinity,    *)
(* 0/0 no number), a function or a table is a number, its place in the     *)
(* heap.  What the operators do to them is in Numbers, for the machine,    *)
(* and in Manual, for the language.                                        *)
(*                                                                         *)
(* Abstracted: the rounding of floats, and the sign of zero.               *)
(***************************************************************************)
EXTENDS Integers, TLC
LOCAL INSTANCE SequencesExt
LOCAL INSTANCE FiniteSetsExt

NilValue    == <<"nil">>
Boolean(b)  == <<"boolean", b>>
Number(n)   == <<"integer", n>>
Float(f)    == <<"number", f>>
String(s)   == <<"string", s>>
Key(name)   == String(name)
Closure(c)  == <<"function", c>>
Table(t)    == <<"table", t>>
Go(name)    == <<"external", name>>

IsInt(v)    == v[1] = "integer"
IsFloat(v)  == v[1] = "number"
IsNumber(v) == v[1] \in {"integer", "number"}
IsString(v) == v[1] = "string"
IsTable(v)  == v[1] = "table"
Callable(v) == v[1] \in {"function", "external"}

Truthy(v) == v \notin {NilValue, Boolean(FALSE)}

-----------------------------------------------------------------------------
(* What the processor computes: integers wrap around, and fractions.       *)

Width  == 16
MaxInt == 2^(Width - 1) - 1
MinInt == -(2^(Width - 1))
Wrap(n) == ((n - MinInt) % 2^Width) + MinInt

Signum(n) == IF n < 0 THEN -1 ELSE IF n > 0 THEN 1 ELSE 0
Absolute(n) == IF n < 0 THEN -n ELSE n

RECURSIVE CommonDivisor(_, _)
CommonDivisor(m, n) == IF n = 0 THEN m ELSE CommonDivisor(n, m % n)

\* m / n, n not being negative.
Fraction(m, n) ==
  IF n = 0 THEN <<Signum(m), 0>>
  ELSE LET g == CommonDivisor(Absolute(m), n) IN <<Signum(m) * (Absolute(m) \div g), n \div g>>

Whole(n)       == <<n, 1>>
IsNaN(f)       == f = <<0, 0>>
IsInfinite(f)  == f \in {<<1, 0>>, <<-1, 0>>}
IsWhole(f)     == f[2] = 1
NegativeOf(f)  == <<-f[1], f[2]>>

Added(f, g) ==
  IF f[2] = 0 /\ f = g THEN f ELSE Fraction(f[1] * g[2] + g[1] * f[2], f[2] * g[2])
Subtracted(f, g) == Added(f, NegativeOf(g))
Multiplied(f, g) == Fraction(f[1] * g[1], f[2] * g[2])
Divided(f, g) ==
  LET sign == IF g[1] < 0 THEN -1 ELSE 1
  IN IF IsNaN(g) THEN g ELSE Fraction(sign * f[1] * g[2], f[2] * Absolute(g[1]))
Less(f, g) ==
  CASE IsNaN(f) \/ IsNaN(g) -> FALSE
    [] f[2] = 0 /\ g[2] = 0 -> f[1] < g[1]
    [] OTHER                -> f[1] * g[2] < g[1] * f[2]
LessOrEqual(f, g) == Less(f, g) \/ (f = g /\ ~IsNaN(f))
FloorOf(f) == IF f[2] = 0 THEN f ELSE Whole(f[1] \div f[2])
CeilOf(f)  == NegativeOf(FloorOf(NegativeOf(f)))

RECURSIVE Power(_, _)
Power(f, n) == IF n = 0 THEN Whole(1) ELSE Multiplied(f, Power(f, n - 1))

-----------------------------------------------------------------------------
(* Tables are functions on the keys that have a value. *)
At(t, k)     == IF k \in DOMAIN t THEN t[k] ELSE NilValue
Put(t, k, v) == IF v = NilValue THEN [j \in DOMAIN t \ {k} |-> t[j]] ELSE (k :> v) @@ t
Border(t)    == Max({n \in 0 .. Cardinality(DOMAIN t) : \A i \in 1 .. n : Number(i) \in DOMAIN t})

ValueOr(vs, i) == IF i \in DOMAIN vs THEN vs[i] ELSE NilValue

-----------------------------------------------------------------------------
(* The functions the host registers, as the tests do: emit observes values,*)
(* id returns what it is given, count how many that is, and each(n) is an  *)
(* iterator over the pairs 1, 10 to n, 10 n.                               *)

Globals == [k \in {Key(n) : n \in {"emit", "id", "count", "each"}} |-> Go(k[2])]

External(name, args) ==
  CASE name = "emit"  -> <<>>
    [] name = "id"    -> args
    [] name = "count" -> <<Number(Len(args))>>
    [] name = "each"  -> <<Go("next"), ValueOr(args, 1), Number(0)>>
    [] name = "next"  -> LET n == args[2][2] + 1
                         IN IF n <= args[1][2] THEN <<Number(n), Number(10 * n)>> ELSE <<NilValue>>

Observed(name, args) == IF name = "emit" THEN args ELSE <<>>
=============================================================================
