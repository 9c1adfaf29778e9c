--------------------------- MODULE NumberFamilies ---------------------------
(***************************************************************************)
(* Programs for what the machine computes: every operator on numbers of    *)
(* every kind, at the boundaries, one instruction on one pair of operands  *)
(* after the other, so that what it keeps of the last is of no use for the *)
(* next.                                                                   *)
(*                                                                         *)
(* Left out is what is known to differ from the manual: the README lists   *)
(* it.                                                                     *)
(***************************************************************************)
EXTENDS ProgramFamilies

Real(m, n) == Literal(Float(Fraction(m, n)))
Quote(s)   == Literal(String(s))
Minus(e)   == Unary("-", e)

Numerous == [
  zero |-> Num(0), one |-> Num(1), two |-> Num(2), seven |-> Num(7), negative |-> Num(-3), lost |-> Num(-1), fifteen |-> Num(15), wide |-> Num(16), wider |-> Num(17),
  max |-> Num(MaxInt), min |-> Binary(Num(-MaxInt), "-", Num(1)), half |-> Real(5, 2), quarter |-> Real(-1, 4), whole |-> Real(4, 1), seventh |-> Real(7, 1),
  nought |-> Real(0, 1), over |-> Real(-MinInt, 1), under |-> Real(MinInt - 1, 1), least |-> Real(MinInt, 1), top |-> Real(2 * MaxInt + 1, 2), bottom |-> Real(2 * MinInt - 1, 2),
  huge |-> Prefix(Binary(Num(1), "/", Num(0))), tiny |-> Prefix(Binary(Num(-1), "/", Num(0))), nan |-> Prefix(Binary(Num(0), "/", Num(0))),
  text |-> Quote("4"), hex |-> Quote(" 0x10 "), real |-> Quote("2.5"), word |-> Quote("seven"), nothing |-> Literal(NilValue), yes |-> Literal(Boolean(TRUE)), table |-> NoFields]

Listing(names) == Constructor([i \in DOMAIN names |-> Numerous[names[i]]], <<>>, <<>>)
Each(names, ss) ==
  <<Let("vs", Listing(names)),
    NumericFor("i", Num(1), Unary("#", Name("vs")), <<>>, Body(<<Let("x", Index(Name("vs"), Name("i")))>> \o ss))>>

-----------------------------------------------------------------------------
(* One instruction, and pairs of operands that change their kinds.         *)

Lefts  == <<"seven", "max", "half", "half", "text", "seven", "huge", "whole", "min", "half", "hex", "seven", "whole", "real", "negative">>
Rights == <<"negative", "seven", "seven", "quarter", "seven", "seven", "half", "nan", "lost", "hex", "text", "whole", "tiny", "lost", "two">>
Bases  == <<"seven", "zero", "half", "half", "text", "seven", "huge", "whole", "lost", "half", "hex", "seven", "whole", "real", "negative">>
Powers == <<"two", "lost", "two", "zero", "two", "lost", "two", "two", "one", "lost", "text", "whole", "two", "lost", "two">>
Shifts == <<"one", "fifteen", "seven", "lost", "negative", "seven", "wide", "wider", "whole", "text", "hex", "min", "max", "zero", "negative">>
Bits   == <<"seven", "max", "whole", "lost", "text", "hex", "seven", "lost", "negative", "seven", "lost", "seven", "max", "min", "least">>

RightsOf(o) == CASE o = "^" -> Powers [] o \in {"<<", ">>", "&", "|", "~"} -> Shifts [] OTHER -> Rights
LeftsOf(o)  == CASE o = "^" -> Bases [] o \in {"<<", ">>", "&", "|", "~"} -> Bits [] OTHER -> Lefts
Calculations == <<"+", "-", "*", "/", "//", "%", "^", "&", "|", "~", "<<", ">>">>

\* Operands in registers, or one of them a constant.
CalculateCases ==
  EveryChoice(<<<<"calculate">>, Calculations, <<"registers", "swapped">>>>)
  \o EveryChoice(<<<<"calculate">>, Calculations, <<"right", "left">>, <<"two", "whole", "text">>>>)

Calculated1(c) ==
  LET o == c[2]
  IN CASE c[3] = "registers" ->
            <<Let("ws", Listing(RightsOf(o)))>>
            \o Each(LeftsOf(o), <<Let("y", Index(Name("ws"), Name("i"))), Emit(<<Binary(Name("x"), o, Name("y"))>>)>>)
       [] c[3] = "swapped" ->
            Each(RightsOf(o), <<Let("y", Name("x")), Set1(Name("x"), Binary(Name("y"), o, Num(3))), Emit(<<Name("x"), Name("y")>>)>>)
       [] c[3] = "right" -> Each(LeftsOf(o), <<Let("z", Binary(Name("x"), o, Numerous[c[4]])), Emit(<<Name("z"), Name("x")>>)>>)
       [] c[3] = "left"  -> Each(RightsOf(o), <<Let("z", Binary(Numerous[c[4]], o, Name("x"))), Emit(<<Name("z"), Name("x")>>)>>)

\* Of one operand.
OperandCases == EveryChoice(<<<<"operand">>, <<"-", "~">>>>)
Operand(c) == Each(Lefts \o (IF c[2] = "-" THEN <<"tiny">> ELSE <<"over">>), <<Emit(<<Unary(c[2], Name("x"))>>)>>)

-----------------------------------------------------------------------------
(* What cannot be operated on, after something that can.                   *)

Refused == <<"nothing", "table", "word", "yes", "half", "real", "over", "huge", "nan", "zero", "nought">>
RefusedCases ==
  SelectSeq(EveryChoice(<<<<"refused">>, Calculations \o <<"..", "<", ">=">>, Refused, <<"right", "left", "registers">>>>),
            LAMBDA c : /\ c[2] = "^" => c[3] \notin {"half", "real", "over", "huge", "nan"}
                       /\ c[2] = ".." => c[3] \notin {"huge", "nan"})
RefusedOne(c) ==
  LET o == c[2]
      two == IF o = ".." THEN Quote("2") ELSE Num(2)
  IN <<Let("x", two), Let("k", two),
       NumericFor("i", Num(1), Num(2), <<>>, Body(
         <<Emit(<<CASE c[4] = "right"     -> Binary(two, o, Name("x"))
                    [] c[4] = "left"      -> Binary(Name("x"), o, two)
                    [] c[4] = "registers" -> Binary(Name("k"), o, Name("x"))>>),
           Set1(Name("x"), Numerous[c[3]])>>))>>

-----------------------------------------------------------------------------
(* Comparisons, with numbers at the boundaries of integers, and strings.   *)

Comparables == <<"seven", "seventh", "half", "bottom", "max", "min", "top", "over", "under", "least", "huge", "tiny", "nan">>
Texts == <<"", "a", "ab", "B", "7", "10">>
CompareCases ==
  EveryChoice(<<<<"compare">>, Comparables, <<"registers", "right", "left">>>>)
  \o EveryChoice(<<<<"alphabet">>, Texts>>) \o EveryChoice(<<<<"equal">>, <<"text", "seven", "nothing", "yes", "table", "seventh">>>>)

Tests(l, r) == [n \in 1 .. 6 |-> Binary(l, <<"<", "<=", ">", ">=", "==", "~=">>[n], r)]
Compared(c) ==
  CASE c[1] = "compare" ->
         Each(Comparables, <<Let("y", Numerous[c[2]]),
                             Emit(Tests(IF c[3] = "left" THEN Numerous[c[2]] ELSE Name("y"), Name("x"))),
                             Emit(Tests(Name("x"), IF c[3] = "right" THEN Numerous[c[2]] ELSE Name("y")))>>)
    [] c[1] = "alphabet" ->
         <<Let("vs", Constructor([i \in DOMAIN Texts |-> Quote(Texts[i])], <<>>, <<>>)),
           NumericFor("i", Num(1), Unary("#", Name("vs")), <<>>, Body(<<Emit(Tests(Index(Name("vs"), Name("i")), Quote(c[2])))>>))>>
    [] c[1] = "equal" ->
         Each(<<"text", "seven", "whole", "seventh", "yes", "table">>,
              <<Let("y", Numerous[c[2]]), Emit(<<Binary(Name("x"), "==", Name("y")), Binary(Name("y"), "~=", Name("x"))>>)>>)

-----------------------------------------------------------------------------
(* Text that is a number or nearly one, numbers as text, and as keys.      *)

Written1 == <<" 7 ", "0x1F", "0xffff", "0x1ffff", "1e2", ".5", "5.", "0x.8", "0x1p4", "0xA.8p1", "-0x10", "+7", "- 7", "1E+2", "5e-1",
              "32768", "-32768", "32767", "-32769", "inf", "nan", "0x", "e1", ".", "1e", "1..2", "7a", "", " ", "0x.", "1e1.5", "--7", "0xg", "1 2">>
ReadCases == [n \in DOMAIN Written1 |-> <<"read", Written1[n]>>]
Read(c) == <<Emit(<<Plus(Num(0), Quote(c[2]))>>)>>

ShowCases == EveryChoice(<<<<"show">>, <<"two", "negative", "max", "min", "half", "quarter", "whole", "hex", "over">>>>)
Show(c) == <<Let("x", Numerous[c[2]]), Emit(<<Binary(Name("x"), "..", Quote("|")), Binary(Quote(""), "..", Name("x")),
                                             Binary(Name("x"), "..", Binary(Numerous[c[2]], "..", Name("x")))>>)>>

KeyNames == <<"two", "whole", "half", "text", "huge", "max", "least", "yes", "top">>
KeyCases == EveryChoice(<<<<"key">>, KeyNames \o <<"nan", "nothing">>, <<"register", "constant">>>>)
Keyed(c) ==
  LET k == IF c[3] = "constant" THEN Numerous[c[2]] ELSE Name("k")
  IN <<Let("k", Numerous[c[2]]), Let("t", Listing(<<"seven", "one", "zero", "half">>)), Set1(Index(Name("t"), Num(MaxInt)), Num(9)), Emit(<<Index(Name("t"), k)>>),
       Set1(Index(Name("t"), k), Num(5))>>
     \o Each(KeyNames, <<Emit(<<Index(Name("t"), Name("x"))>>)>>)

-----------------------------------------------------------------------------
(* Loops on integers up to the boundaries, and on floats.                  *)

Spans == [
  real |-> <<"one", "half", "one">>, start |-> <<"seventh", "wide", "two">>, step |-> <<"one", "two", "half">>, nan |-> <<"one", "nan", "one">>,
  ever |-> <<"one", "huge", "one">>, down |-> <<"seven", "tiny", "lost">>, up |-> <<"lost", "over", "two">>, none |-> <<"seven", "under", "two">>,
  deep |-> <<"one", "under", "negative">>, away |-> <<"one", "over", "lost">>, least |-> <<"min", "negative", "max">>, floor |-> <<"two", "quarter", "lost">>,
  backwards |-> <<"half", "quarter", "quarter">>, top |-> <<"max", "top", "wide">>, never |-> <<"nan", "seven", "one">>, wrong |-> <<"one", "table", "one">>, first |-> <<"yes", "one", "one">>, stride |-> <<"one", "two", "nothing">>]
SpanCases == EveryChoice(<<<<"span">>, <<"real", "start", "step", "nan", "ever", "down", "up", "none", "deep", "away", "least", "floor", "backwards", "top",
                                       "never", "wrong", "first", "stride">>>>)
Span(c) ==
  LET s == Spans[c[2]]
  IN <<Let("n", Num(0)),
       NumericFor("i", Numerous[s[1]], Numerous[s[2]], <<Numerous[s[3]]>>,
                  Body(<<Emit(<<Name("i")>>), Set1(Name("n"), Plus(Name("n"), Num(1))), When(Binary(Name("n"), ">", Num(2)), <<Break>>)>>))>>

-----------------------------------------------------------------------------

NumberCases == CalculateCases \o OperandCases \o RefusedCases \o CompareCases \o ReadCases \o ShowCases \o KeyCases \o SpanCases

NumberPrograms == {"calculate", "operand", "refused", "compare", "alphabet", "equal", "read", "show", "key", "span"}
NumberProgram(c) ==
  Body(CASE c[1] = "calculate" -> Calculated1(c)
         [] c[1] = "operand"   -> Operand(c)
         [] c[1] = "refused"   -> RefusedOne(c)
         [] c[1] \in {"compare", "alphabet", "equal"} -> Compared(c)
         [] c[1] = "read"      -> Read(c)
         [] c[1] = "show"      -> Show(c)
         [] c[1] = "key"       -> Keyed(c)
         [] c[1] = "span"      -> Span(c))
=============================================================================
