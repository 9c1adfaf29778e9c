----------------------------- MODULE LuaManual -----------------------------
(***************************************************************************)
(* What the operators mean, by the language's manual (sections 3.3 and     *)
(* 3.4).  Nothing of the virtual machine or the libraries is in here.      *)
(*                                                                         *)
(* An operator that does not apply returns <<>>, or a sequence of one.     *)
(***************************************************************************)
EXTENDS Values, Text
LOCAL INSTANCE SequencesExt
LOCAL INSTANCE FiniteSetsExt

-----------------------------------------------------------------------------
(* Numerals (section 3.1), and strings that are one. *)

\* The places where text can be cut in two, the second part beginning with a
\* character of cs.
Cuts(s, cs) == {i \in 1 .. Len(s) : CharAt(s, i) \in cs}

Digital(s, digits) == \A i \in 1 .. Len(s) : CharAt(s, i) \in digits
Decimal(s) == s # "" /\ Digital(s, Digits)

\* digits [. digits]: at least one digit, and the number they write.
Mantissa(s, base, digits) ==
  LET points == Cuts(s, {"."})
      left   == IF points = {} THEN s ELSE SubSeq(s, 1, Min(points) - 1)
      right  == IF points = {} THEN "" ELSE SubSeq(s, Min(points) + 1, Len(s))
  IN IF left \o right = "" \/ ~Digital(left \o right, digits) THEN <<>>
     ELSE <<Fraction(Numeral(left, base) * base^Len(right) + Numeral(right, base), base^Len(right))>>

\* mantissa [mark [sign] digits]
Numerals(s, base, digits, marks, radix) ==
  LET at == Cuts(s, marks)
      mantissa == Mantissa(IF at = {} THEN s ELSE SubSeq(s, 1, Min(at) - 1), base, digits)
      exponent == IF at = {} THEN "0" ELSE SubSeq(s, Min(at) + 1, Len(s))
      signed   == exponent # "" /\ CharAt(exponent, 1) \in {"+", "-"}
      size     == IF signed THEN SubSeq(exponent, 2, Len(exponent)) ELSE exponent
      scale    == Whole(radix^Numeral(size, 10))
  IN IF mantissa = <<>> \/ ~Decimal(size) THEN <<>>
     ELSE <<IF CharAt(exponent, 1) = "-" THEN Divided(mantissa[1], scale) ELSE Multiplied(mantissa[1], scale)>>

\* A numeral with a point or an exponent is a float, as is a decimal one that
\* does not fit into an integer; a hexadecimal one wraps around.
ReadNumeral(s) ==
  LET hexadecimal == Len(s) >= 2 /\ SubSeq(s, 1, 2) \in {"0x", "0X"}
      t     == IF hexadecimal THEN SubSeq(s, 3, Len(s)) ELSE s
      f     == IF hexadecimal THEN Numerals(t, 16, HexDigits, {"p", "P"}, 2)
                              ELSE Numerals(t, 10, Digits, {"e", "E"}, 10)
      float == Cuts(t, IF hexadecimal THEN {".", "p", "P"} ELSE {".", "e", "E"}) # {}
  IN CASE f = <<>> -> <<>>
       [] float \/ (~hexadecimal /\ f[1][1] > MaxInt) -> <<Float(f[1])>>
       [] OTHER -> <<Number(Wrap(f[1][1]))>>

Opposite(v) == IF IsInt(v) THEN Number(Wrap(-v[2])) ELSE Float(NegativeOf(v[2]))

\* Spaces around it and a sign do not count.
AsNumeral(s) ==
  LET t == TrimSpace(s)
      signed == t # "" /\ CharAt(t, 1) \in {"+", "-"}
      n == ReadNumeral(IF signed THEN SubSeq(t, 2, Len(t)) ELSE t)
  IN IF n # <<>> /\ signed /\ CharAt(t, 1) = "-" THEN <<Opposite(n[1])>> ELSE n

-----------------------------------------------------------------------------
(* Arithmetic: on integers if both are, else on floats; a string counts as *)
(* the float it writes.                                                    *)

ToFloat(v) ==
  LET n == IF IsString(v) THEN AsNumeral(v[2]) ELSE <<v>>
  IN CASE n = <<>> \/ ~IsNumber(n[1]) -> <<>>
       [] IsInt(n[1]) -> <<Whole(n[1][2])>>
       [] OTHER -> <<n[1][2]>>

\* Exactly the floats that are an integer.
Integral(f) == f[2] = 1 /\ MinInt <= f[1] /\ f[1] <= MaxInt
ToInt(v) ==
  LET f == ToFloat(v) IN IF f # <<>> /\ Integral(f[1]) THEN <<f[1][1]>> ELSE <<>>

\* The remainder of a division that rounds towards minus infinity.
Modulo(f, g) ==
  CASE IsInfinite(g) /\ f[2] # 0 /\ (f[1] = 0 \/ Signum(f[1]) = g[1]) -> f
    [] IsInfinite(g) /\ f[2] # 0 -> g
    [] OTHER -> Subtracted(f, Multiplied(g, FloorOf(Divided(f, g))))

OnInts(o, m, n) ==
  CASE o = "+"  -> Wrap(m + n)
    [] o = "-"  -> Wrap(m - n)
    [] o = "*"  -> Wrap(m * n)
    [] o = "//" -> Wrap(FloorOf(Divided(Whole(m), Whole(n)))[1])
    [] o = "%"  -> Wrap(m - n * FloorOf(Divided(Whole(m), Whole(n)))[1])

OnFloats(o, f, g) ==
  CASE o = "+"  -> Added(f, g)
    [] o = "-"  -> Subtracted(f, g)
    [] o = "*"  -> Multiplied(f, g)
    [] o = "/"  -> Divided(f, g)
    [] o = "//" -> FloorOf(Divided(f, g))
    [] o = "%"  -> Modulo(f, g)
    [] o = "^"  -> IF g[1] < 0 THEN Divided(Whole(1), Power(f, -g[1])) ELSE Power(f, g[1])

ArithmeticOperators == {"+", "-", "*", "/", "//", "%", "^"}
Calculate(o, v, w) ==
  LET f == ToFloat(v)
      g == ToFloat(w)
  IN CASE IsInt(v) /\ IsInt(w) /\ o \notin {"/", "^"} ->
            IF w[2] = 0 /\ o \in {"//", "%"} THEN <<>> ELSE <<Number(OnInts(o, v[2], w[2]))>>
       [] f # <<>> /\ g # <<>> -> <<Float(OnFloats(o, f[1], g[1]))>>
       [] OTHER -> <<>>

\* On the two's complement of both; the shifts fill with zeros.
Bit(n, k) == IF k \in 0 .. Width - 1 THEN (n \div 2^k) % 2 ELSE 0
BitOperators == {"&", "|", "~", "<<", ">>"}
OnBits(o, m, n) ==
  LET Of(k) == CASE o = "&"  -> Bit(m, k) * Bit(n, k)
                 [] o = "|"  -> IF Bit(m, k) + Bit(n, k) > 0 THEN 1 ELSE 0
                 [] o = "~"  -> (Bit(m, k) + Bit(n, k)) % 2
                 [] o = "<<" -> Bit(m, k - n)
                 [] o = ">>" -> Bit(m, k + n)
  IN Wrap(MapThenSumSet(LAMBDA k : 2^k * Of(k), 0 .. Width - 1))
OperateBits(o, v, w) ==
  IF ToInt(v) = <<>> \/ ToInt(w) = <<>> THEN <<>> ELSE <<Number(OnBits(o, ToInt(v)[1], ToInt(w)[1]))>>

-----------------------------------------------------------------------------
(* Comparisons are of the mathematical values. *)

\* A float that is an integer is the same key, and equal.
Normal1(v) == IF IsFloat(v) /\ Integral(v[2]) THEN Number(v[2][1]) ELSE v
Same(v, w) == Normal1(v) = Normal1(w) /\ v # Float(<<0, 0>>)

Smaller(v, w) ==
  CASE IsNumber(v) /\ IsNumber(w) -> <<Less(ToFloat(v)[1], ToFloat(w)[1])>>
    [] IsString(v) /\ IsString(w) -> <<Precedes(v[2], w[2])>>
    [] OTHER -> <<>>
SmallerOrSame(v, w) == IF Smaller(v, w) = <<>> THEN <<>> ELSE <<Smaller(v, w)[1] \/ Same(v, w)>>

-----------------------------------------------------------------------------
(* Concatenation: a float shows that it is one. *)

\* The digits behind the point of m / n.
RECURSIVE Digitals(_, _)
Digitals(m, n) == IF m = 0 THEN "" ELSE ToString((10 * m) \div n) \o Digitals((10 * m) % n, n)

Shown(v) ==
  LET f == v[2]
      size == Absolute(f[1])
  IN IF IsInt(v) THEN ToString(v[2])
     ELSE (IF f[1] < 0 THEN "-" ELSE "") \o ToString(size \div f[2]) \o "."
          \o (IF f[2] = 1 THEN "0" ELSE Digitals(size % f[2], f[2]))

TextOf(v) == IF IsString(v) THEN <<v[2]>> ELSE IF IsNumber(v) THEN <<Shown(v)>> ELSE <<>>
Concatenated(v, w) == IF TextOf(v) = <<>> \/ TextOf(w) = <<>> THEN <<>> ELSE <<String(TextOf(v)[1] \o TextOf(w)[1])>>
=============================================================================
