------------------------------ MODULE Numbers ------------------------------
(***************************************************************************)
(* What the machine computes with numbers (runtime/vm.go, value.go):       *)
(* arithmetic with the entry each instruction keeps of the operands it had *)
(* last, bitwise operations, comparisons, loops, and conversions.          *)
(*                                                                         *)
(* An operator that may not know what to do returns <<>>, or a sequence of *)
(* one value; those of arithmetic return [value, entry], where the value   *)
(* may be ErrDivisionByZero too.                                           *)
(***************************************************************************)
EXTENDS Values, Text
LOCAL INSTANCE SequencesExt
LOCAL INSTANCE FiniteSetsExt

-----------------------------------------------------------------------------
(* Numbers as text (value.go). *)

hasHexIntegerPrefix(s) ==
  LET unsigned == IF Len(s) > 1 /\ CharAt(s, 1) \in {"+", "-"} THEN Tail(s) ELSE s
  IN StartsWith(unsigned, "0x") \/ StartsWith(unsigned, "0X")

SignOf(s)   == IF StartsWith(s, "-") THEN -1 ELSE 1
Unsigned(s) == IF s # "" /\ CharAt(s, 1) \in {"+", "-"} THEN Tail(s) ELSE s

\* Hexadecimal numerals wrap around, decimal ones must fit.
parseLuaInteger(s) ==
  LET digits == Unsigned(s)
      n == SignOf(s) * Numeral(digits, 10)
  IN IF hasHexIntegerPrefix(s)
     THEN IF From(digits, 3) # "" /\ AllIn(From(digits, 3), HexDigits)
          THEN <<Wrap(SignOf(s) * FoldLeft(LAMBDA m, c : (16 * m + DigitValue(c)) % 2^Width, 0, Chars(From(digits, 3))))>>
          ELSE <<>>
     ELSE IF digits # "" /\ AllIn(digits, Digits) /\ MinInt <= n /\ n <= MaxInt THEN <<n>> ELSE <<>>

Where(s, cs) == {i \in 1 .. Len(s) : CharAt(s, i) \in cs}
Preceding(s, i)  == SubSeq(s, 1, i - 1)
Scaled(n, base, e) == Multiplied(Whole(n), IF e >= 0 THEN Power(Whole(base), e) ELSE Power(<<1, base>>, -e))

\* digits . digits exponent, with a digit before the exponent: ParseFloat's.
ParseMantissa(s, digits, base, radix, exponent) ==
  LET point == Where(s, {"."})
      whole == IF point = {} THEN s ELSE Preceding(s, Min(point))
      part  == IF point = {} THEN "" ELSE From(s, Min(point) + 1)
  IN IF whole \o part # "" /\ AllIn(whole \o part, digits)
     THEN <<Multiplied(Scaled(Numeral(whole \o part, base), base, -Len(part)), Scaled(1, radix, exponent))>>
     ELSE <<>>

ParseFloat(s, hexadecimal) ==
  LET t      == IF hexadecimal THEN From(s, 3) ELSE s
      marks  == Where(t, IF hexadecimal THEN {"p", "P"} ELSE {"e", "E"})
      digits == IF hexadecimal THEN HexDigits ELSE Digits
      base   == IF hexadecimal THEN 16 ELSE 10
      power  == From(t, Min(marks) + 1)
  IN IF marks = {} THEN ParseMantissa(t, digits, base, base, 0)
     ELSE IF Unsigned(power) # "" /\ AllIn(Unsigned(power), Digits)
          THEN ParseMantissa(Preceding(t, Min(marks)), digits, base, IF hexadecimal THEN 2 ELSE 10,
                             SignOf(power) * Numeral(Unsigned(power), 10))
          ELSE <<>>

SignedBy(sign, f) == IF f = <<>> THEN <<>> ELSE <<Multiplied(Whole(sign), f[1])>>

\* A hexadecimal float has a point, or an exponent, which may be added.
parseLuaFloat(s) ==
  IF hasHexIntegerPrefix(s) /\ ~ContainsAny(s, {".", "p", "P"}) THEN <<>>
  ELSE SignedBy(SignOf(s), ParseFloat(Unsigned(s), hasHexIntegerPrefix(s)))

IntegerOrFloat(n, f) ==
  CASE n # <<>> -> <<Number(n[1])>>
    [] f # <<>> -> <<Float(f[1])>>
    [] OTHER    -> <<>>

StringToNumber(s) ==
  IF TrimSpace(s) = "" THEN <<>>
  ELSE IntegerOrFloat(parseLuaInteger(TrimSpace(s)), parseLuaFloat(TrimSpace(s)))

\* The decimal digits behind the point: the denominators are 1, 2, 4, 5, 8 ...
RECURSIVE Decimals(_, _)
Decimals(m, n) == IF m = 0 THEN "" ELSE ToString((10 * m) \div n) \o Decimals((10 * m) % n, n)

FormatFloat(f) ==
  LET m == Absolute(f[1])
  IN (IF f[1] < 0 THEN "-" ELSE "") \o ToString(m \div f[2])
     \o (IF IsWhole(f) THEN "" ELSE "." \o Decimals(m % f[2], f[2]))

NumberToString(v) ==
  IF IsInt(v) THEN ToString(v[2]) ELSE FormatFloat(v[2]) \o (IF IsWhole(v[2]) THEN ".0" ELSE "")

valueToLuaString(v) ==
  CASE IsString(v) -> <<v[2]>>
    [] IsNumber(v) -> <<NumberToString(v)>>
    [] OTHER       -> <<>>

-----------------------------------------------------------------------------
(* Conversions. *)

nativeNumberValue(v) ==
  CASE IsInt(v) -> <<Whole(v[2])>> [] IsFloat(v) -> <<v[2]>> [] OTHER -> <<>>

valueToLuaNumber(v) ==
  LET NumberIn(parsed) == IF parsed = <<>> THEN <<>> ELSE nativeNumberValue(parsed[1])
  IN IF IsString(v) THEN NumberIn(StringToNumber(v[2])) ELSE nativeNumberValue(v)

\* Below -2^63, or from 2^63 on: the comparisons of the code.
TooLow(f)  == f[2] # 0 /\ Less(f, Whole(MinInt))
TooHigh(f) == f[2] # 0 /\ ~Less(f, Whole(-MinInt))

strictFloatToLuaInteger(f) ==
  IF f[2] = 0 \/ TooLow(f) \/ TooHigh(f) \/ ~IsWhole(f) THEN <<>> ELSE <<f[1]>>

\* As ToInteger has it, up to 2^64, which wraps around.
ToInteger(v) ==
  CASE IsInt(v) -> <<v[2]>>
    [] IsFloat(v) /\ IsWhole(v[2]) /\ MinInt <= v[2][1] /\ v[2][1] < 2^Width -> <<Wrap(v[2][1])>>
    [] OTHER -> <<>>

valueToLuaInteger(v) ==
  LET IntegerIn(n) == CASE IsInt(n) -> <<n[2]>> [] IsFloat(n) -> strictFloatToLuaInteger(n[2]) [] OTHER -> <<>>
      Parsed(n)    == IF n = <<>> THEN <<>> ELSE IntegerIn(n[1])
  IN IF IsString(v) THEN Parsed(StringToNumber(v[2])) ELSE IntegerIn(v)

-----------------------------------------------------------------------------
(* Arithmetic on the numbers of two values. *)

ErrDivisionByZero == <<"error", "division by zero">>

\* Go's / and %, which round towards zero.
Quotient(m, n)  == Signum(m) * Signum(n) * (Absolute(m) \div Absolute(n))
Remainder(m, n) == m - n * Quotient(m, n)

integerModulo(m, n) ==
  LET modulo == Remainder(m, n)
  IN CASE n = -1 -> 0
       [] modulo # 0 /\ Signum(modulo) # Signum(n) -> modulo + n
       [] OTHER -> modulo

integerFloorDiv(m, n) ==
  LET remainder == Remainder(m, n)
  IN CASE n = -1 -> Wrap(-m)
       [] remainder # 0 /\ Signum(remainder) # Signum(n) -> Quotient(m, n) - 1
       [] OTHER -> Quotient(m, n)

integerArithmeticByCacheKind(op, m, n) ==
  CASE op = "ADD" -> Wrap(m + n)
    [] op = "SUB" -> Wrap(m - n)
    [] op = "MUL" -> Wrap(m * n)

IntegerDivision(op, m, n) ==
  CASE n = 0     -> ErrDivisionByZero
    [] op = "MOD"  -> Number(integerModulo(m, n))
    [] op = "IDIV" -> Number(integerFloorDiv(m, n))

binaryArithmeticMod(f, g) ==
  CASE g = <<1, 0>> /\ f[2] # 0  -> IF f[1] >= 0 THEN f ELSE <<1, 0>>
    [] g = <<-1, 0>> /\ f[2] # 0 -> IF f[1] <= 0 THEN f ELSE <<-1, 0>>
    [] OTHER -> Subtracted(f, Multiplied(FloorOf(Divided(f, g)), g))

\* Of math.Pow, the whole exponents.
binaryArithmeticPow(f, g) ==
  IF g[1] >= 0 THEN Power(f, g[1]) ELSE Divided(Whole(1), Power(f, -g[1]))

binaryArithmetic(op, f, g) ==
  Float(CASE op = "ADD"  -> Added(f, g)
          [] op = "SUB"  -> Subtracted(f, g)
          [] op = "MUL"  -> Multiplied(f, g)
          [] op = "DIV"  -> Divided(f, g)
          [] op = "MOD"  -> binaryArithmeticMod(f, g)
          [] op = "IDIV" -> FloorOf(Divided(f, g))
          [] op = "POW"  -> binaryArithmeticPow(f, g))

OnNumbers(op, f, g) == IF f = <<>> \/ g = <<>> THEN <<>> ELSE <<binaryArithmetic(op, f[1], g[1])>>

valuesToLuaNumbers(op, v, w) == OnNumbers(op, valueToLuaNumber(v), valueToLuaNumber(w))
nativeNumberValues(op, v, w) == OnNumbers(op, nativeNumberValue(v), nativeNumberValue(w))

unaryMinus(v) ==
  LET Negated(f) == IF f = <<>> THEN <<>> ELSE <<Float(NegativeOf(f[1]))>>
  IN IF IsInt(v) THEN <<Number(Wrap(-v[2]))>> ELSE Negated(valueToLuaNumber(v))

-----------------------------------------------------------------------------
(* The entry an instruction keeps: the kind of the operation that worked   *)
(* last, and its operands, a constant with its value.  An entry whose      *)
(* operands are no longer of its kind is dropped.                          *)

NoEntry == [kind |-> "none"]
Entry(kind, l, r) == [kind |-> kind, left |-> l, right |-> r]

rkValue(o, registers) == IF o.constant THEN o.value ELSE registers[o.register + 1]

\* rememberIntegerRegisterArithmetic
RememberIntegers(op, l, r) ==
  Entry(IF op \in {"SUB", "MUL"} /\ ~l.constant /\ r.constant THEN op \o "RightConstant" ELSE op, l, r)

\* rememberNativeNumberAdd and rememberNativeNumberDiv
RememberNumbers(kind, l, r, entry) == IF l.constant \/ r.constant THEN entry ELSE Entry(kind, l, r)

BothInts(v, w)   == IsInt(v) /\ IsInt(w)
BothNative(v, w) == IsNumber(v) /\ IsNumber(w)

tryCachedNativeNumberAdd(entry, v, w) ==
  IF entry.kind = "AddNumber" /\ BothNative(v, w) /\ ~BothInts(v, w)
  THEN nativeNumberValues("ADD", v, w) ELSE <<>>

tryCachedNativeNumberDiv(entry, v, w) ==
  IF entry.kind = "DivNumber" /\ BothNative(v, w)
  THEN nativeNumberValues("DIV", v, w) ELSE <<>>

tryCachedIntegerRegister(entry, op, v, w) ==
  IF entry.kind = op /\ BothInts(v, w) THEN <<Number(integerArithmeticByCacheKind(op, v[2], w[2]))>> ELSE <<>>

\* SUB and MUL of a register and a constant.
tryCachedRightConstant(entry, op, v, w) ==
  IF entry.kind = op \o "RightConstant" /\ IsInt(v)
  THEN <<Number(integerArithmeticByCacheKind(op, v[2], w[2]))>> ELSE <<>>

tryCachedDivision(entry, op, v, w) ==
  IF entry.kind = op /\ BothInts(v, w) THEN <<IntegerDivision(op, v[2], w[2])>> ELSE <<>>

tryCached(entry, op, registers) ==
  IF entry = NoEntry THEN <<>>
  ELSE LET v == rkValue(entry.left, registers)
           w == rkValue(entry.right, registers)
       IN CASE entry.kind = "AddNumber" -> tryCachedNativeNumberAdd(entry, v, w)
            [] entry.kind = "DivNumber" -> tryCachedNativeNumberDiv(entry, v, w)
            [] op \in {"MOD", "IDIV"}   -> tryCachedDivision(entry, op, v, w)
            [] entry.kind = op          -> tryCachedIntegerRegister(entry, op, v, w)
            [] OTHER                    -> tryCachedRightConstant(entry, op, v, w)

\* Without an entry that fits.
Of(value, entry) == <<[value |-> value, entry |-> entry]>>

WithoutEntry(number) == IF number = <<>> THEN <<>> ELSE Of(number[1], NoEntry)

executeBinaryArithmetic(op, v, w) == WithoutEntry(valuesToLuaNumbers(op, v, w))

(* What the operators below return <<>> for is left to that one. *)

executeFastArithmetic(op, l, r, v, w) ==
  IF BothInts(v, w) THEN Of(Number(integerArithmeticByCacheKind(op, v[2], w[2])), RememberIntegers(op, l, r))
                    ELSE <<>>

tryNativeNumberAdd(l, r, v, w) ==
  IF BothNative(v, w) THEN Of(nativeNumberValues("ADD", v, w)[1], RememberNumbers("AddNumber", l, r, NoEntry))
                      ELSE <<>>

\* A float constant times a register, of which no entry is kept.
tryNumberConstantMul(l, r, v, w) ==
  IF l.constant # r.constant /\ IsFloat(IF l.constant THEN v ELSE w) /\ BothNative(v, w)
  THEN Of(nativeNumberValues("MUL", v, w)[1], NoEntry) ELSE <<>>

executeDiv(l, r, v, w) ==
  IF BothNative(v, w) THEN Of(nativeNumberValues("DIV", v, w)[1], RememberNumbers("DivNumber", l, r, NoEntry))
                      ELSE <<>>

\* MOD and IDIV.
executeDivision(op, l, r, v, w) ==
  IF BothInts(v, w) THEN Of(IntegerDivision(op, v[2], w[2]), IF w[2] = 0 THEN NoEntry ELSE RememberIntegers(op, l, r))
                    ELSE <<>>

executeNative(op, l, r, v, w) ==
  CASE op = "DIV"              -> executeDiv(l, r, v, w)
    [] op = "POW"              -> <<>>
    [] op \in {"MOD", "IDIV"}  -> executeDivision(op, l, r, v, w)
    [] op = "ADD" /\ ~BothInts(v, w) -> tryNativeNumberAdd(l, r, v, w)
    [] op = "MUL" /\ ~BothInts(v, w) -> tryNumberConstantMul(l, r, v, w)
    [] OTHER                   -> executeFastArithmetic(op, l, r, v, w)

OrElse(first, second) == IF first # <<>> THEN first ELSE second

executeArithmetic(op, l, r, v, w) ==
  OrElse(executeNative(op, l, r, v, w), executeBinaryArithmetic(op, v, w))

Arithmetics == {"ADD", "SUB", "MUL", "MOD", "POW", "DIV", "IDIV"}

arithmetic(op, l, r, registers, entry) ==
  LET Again(cached) == IF cached = <<>> THEN <<>> ELSE Of(cached[1], entry)
  IN OrElse(Again(tryCached(entry, op, registers)),
            executeArithmetic(op, l, r, rkValue(l, registers), rkValue(r, registers)))

-----------------------------------------------------------------------------
(* Bitwise operations. *)

Ones(n)   == {k \in 0 .. Width - 1 : (n \div 2^k) % 2 = 1}
OfOnes(s) == Wrap(MapThenSumSet(LAMBDA k : 2^k, s))

shiftLeft(n, shift) ==
  CASE shift >= Width \/ shift <= -Width -> 0
    [] shift >= 0 -> OfOnes({k + shift : k \in {j \in Ones(n) : j + shift < Width}})
    [] OTHER      -> OfOnes({k + shift : k \in {j \in Ones(n) : j + shift >= 0}})

Bitwise(op, m, n) ==
  CASE op = "BAND" -> OfOnes(Ones(m) \cap Ones(n))
    [] op = "BOR"  -> OfOnes(Ones(m) \cup Ones(n))
    [] op = "BXOR" -> OfOnes((Ones(m) \cup Ones(n)) \ (Ones(m) \cap Ones(n)))
    [] op = "SHL"  -> shiftLeft(m, n)
    [] op = "SHR"  -> shiftLeft(m, Wrap(-n))

Bitwises == {"BAND", "BOR", "BXOR", "SHL", "SHR"}

executeBinaryBitwise(op, v, w) ==
  LET OnIntegers(m, n) == IF m = <<>> \/ n = <<>> THEN <<>> ELSE <<Number(Bitwise(op, m[1], n[1]))>>
  IN OnIntegers(valueToLuaInteger(v), valueToLuaInteger(w))

executeBitwiseNot(v) ==
  LET Inverted(n) == IF n = <<>> THEN <<>> ELSE <<Number(-n[1] - 1)>>
  IN Inverted(valueToLuaInteger(v))

-----------------------------------------------------------------------------
(* Comparisons. *)

floatNumberEqualsInteger(f, n) == f[2] # 0 /\ ~TooLow(f) /\ ~TooHigh(f) /\ IsWhole(f) /\ f[1] = n

numericEqual(v, w) ==
  CASE BothInts(v, w) -> v[2] = w[2]
    [] IsFloat(v) /\ IsFloat(w) -> v[2] = w[2] /\ ~IsNaN(v[2])
    [] IsInt(v) -> floatNumberEqualsInteger(w[2], v[2])
    [] OTHER    -> floatNumberEqualsInteger(v[2], w[2])

RawEqual(v, w) == IF BothNative(v, w) THEN numericEqual(v, w) ELSE v = w

\* Infinities are outside of the range like every other float.
Below(f) == ~IsNaN(f) /\ Less(f, Whole(MinInt))
Above(f) == ~IsNaN(f) /\ ~Less(f, Whole(-MinInt))

integerLessThanFloat(n, f) ==
  CASE IsNaN(f) -> FALSE
    [] Below(f) \/ f = Whole(MinInt) -> FALSE
    [] Above(f) -> TRUE
    [] IsWhole(f) -> n < f[1]
    [] OTHER -> n <= FloorOf(f)[1]

floatLessThanInteger(f, n) ==
  CASE IsNaN(f) -> FALSE
    [] Below(f) -> TRUE
    [] Above(f) -> FALSE
    [] IsWhole(f) -> f[1] < n
    [] OTHER -> CeilOf(f)[1] <= n

integerLessEqualFloat(n, f) ==
  CASE IsNaN(f) \/ Below(f) -> FALSE
    [] Above(f) -> TRUE
    [] OTHER -> n <= FloorOf(f)[1]

floatLessEqualInteger(f, n) ==
  CASE IsNaN(f) -> FALSE
    [] Below(f) -> TRUE
    [] Above(f) -> FALSE
    [] OTHER -> CeilOf(f)[1] <= n

compareLessThan(v, w) ==
  CASE BothInts(v, w) -> <<v[2] < w[2]>>
    [] IsInt(v) /\ IsFloat(w) -> <<integerLessThanFloat(v[2], w[2])>>
    [] IsFloat(v) /\ IsInt(w) -> <<floatLessThanInteger(v[2], w[2])>>
    [] IsFloat(v) /\ IsFloat(w) -> <<Less(v[2], w[2])>>
    [] IsString(v) /\ IsString(w) -> <<Precedes(v[2], w[2])>>
    [] OTHER -> <<>>

compareLessEqual(v, w) ==
  CASE BothInts(v, w) -> <<v[2] <= w[2]>>
    [] IsInt(v) /\ IsFloat(w) -> <<integerLessEqualFloat(v[2], w[2])>>
    [] IsFloat(v) /\ IsInt(w) -> <<floatLessEqualInteger(v[2], w[2])>>
    [] IsFloat(v) /\ IsFloat(w) -> <<LessOrEqual(v[2], w[2])>>
    [] IsString(v) /\ IsString(w) -> <<v[2] = w[2] \/ Precedes(v[2], w[2])>>
    [] OTHER -> <<>>

-----------------------------------------------------------------------------
(* Numeric for loops. *)

\* A limit that is not an integer is moved to the next one the loop reaches.
forIntegerLimitValue(limit, step) ==
  LET Moved(f) ==
        CASE f = <<>> \/ IsNaN(f[1]) -> <<>>
          [] step >= 0 -> CASE f[1] = <<1, 0>> \/ ~Less(f[1], Whole(MaxInt)) -> <<MaxInt>>
                            [] Below(f[1]) -> <<>>
                            [] OTHER -> <<FloorOf(f[1])[1]>>
          [] OTHER -> CASE f[1] = <<-1, 0>> \/ LessOrEqual(f[1], Whole(MinInt)) -> <<MinInt>>
                        [] Above(f[1]) -> <<>>
                        [] OTHER -> <<CeilOf(f[1])[1]>>
  IN IF IsInt(limit) THEN <<limit[2]>> ELSE Moved(valueToLuaNumber(limit))

\* The index and the limit to start with, or <<>> for an error.
forPrep(index, limit, step) ==
  LET Integers(bound) == IF BothInts(index, step) /\ bound # <<>>
                         THEN <<Number(Wrap(index[2] - step[2])), Number(bound[1])>> ELSE <<>>
      Floats(f, g, h) == IF f # <<>> /\ g # <<>> /\ h # <<>> THEN <<Float(Subtracted(f[1], g[1])), limit>> ELSE <<>>
  IN OrElse(Integers(forIntegerLimitValue(limit, step[2])),
            Floats(valueToLuaNumber(index), valueToLuaNumber(step), valueToLuaNumber(limit)))

forIntegerLoopContinues(n, limit, step) == IF step >= 0 THEN n <= limit ELSE n >= limit
forNumberLoopContinues(f, limit, step) ==
  IF LessOrEqual(Whole(0), step) THEN LessOrEqual(f, limit) ELSE LessOrEqual(limit, f)

\* The next index, or <<>> at the end of the loop.
forLoop(index, limit, step) ==
  LET NextInteger(n)   == IF forIntegerLoopContinues(n, limit[2], step[2]) THEN <<Number(n)>> ELSE <<>>
      NextFloat(f, g, h) == IF forNumberLoopContinues(Added(f, g), h, g) THEN <<Float(Added(f, g))>> ELSE <<>>
  IN IF BothInts(index, step) /\ IsInt(limit) THEN NextInteger(Wrap(index[2] + step[2]))
     ELSE NextFloat(valueToLuaNumber(index)[1], valueToLuaNumber(step)[1], valueToLuaNumber(limit)[1])

-----------------------------------------------------------------------------
(* Keys of tables: a float that is a whole number is that integer.         *)

makeTableKey(v) == IF IsFloat(v) /\ ToInteger(v) # <<>> THEN Number(ToInteger(v)[1]) ELSE v
=============================================================================
