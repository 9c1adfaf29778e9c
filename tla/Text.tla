-------------------------------- MODULE Text --------------------------------
(***************************************************************************)
(* Strings, as Go has them: a TLA+ string is a sequence of characters, of  *)
(* which each is a string of length one.                                   *)
(*                                                                         *)
(* Abstracted: bytes above 127, and of the control characters all but tab, *)
(* newline and return; and backquotes.                                     *)
(***************************************************************************)
EXTENDS Integers, Sequences, TLC
LOCAL INSTANCE FiniteSetsExt
LOCAL INSTANCE SequencesExt

CharAt(s, i) == SubSeq(s, i, i)
Chars(s)     == [i \in 1 .. Len(s) |-> CharAt(s, i)]
Written(cs)  == FoldLeft(LAMBDA s, c : s \o c, "", cs)

\* From a code on.
Run(first, s) == [c \in {CharAt(s, i) : i \in 1 .. Len(s)} |-> first - 1 + (CHOOSE i \in 1 .. Len(s) : CharAt(s, i) = c)]

Codes ==
  ("\t" :> 9 @@ "\n" :> 10 @@ "\r" :> 13)
  @@ Run(32, " !\"#$%&'()*+,-./0123456789:;<=>?@ABCDEFGHIJKLMNOPQRSTUVWXYZ[\\]^_")
  @@ Run(97, "abcdefghijklmnopqrstuvwxyz{|}~")
Coded == [n \in {Codes[c] : c \in DOMAIN Codes} |-> CHOOSE c \in DOMAIN Codes : Codes[c] = n]

Code(c) == Codes[c]
Char(n) == Coded[n]

Between(low, high) == {c \in DOMAIN Codes : Codes[low] <= Codes[c] /\ Codes[c] <= Codes[high]}
Digits    == {"0", "1", "2", "3", "4", "5", "6", "7", "8", "9"}
HexDigits == Digits \cup {"a", "b", "c", "d", "e", "f", "A", "B", "C", "D", "E", "F"}
Lower     == Between("a", "z")
Upper     == Between("A", "Z")
Spaces    == {" ", "\t", "\n", "\r"}

DigitValue(c) ==
  (CHOOSE i \in 1 .. 16 : c \in {CharAt("0123456789abcdef", i), CharAt("0123456789ABCDEF", i)}) - 1

\* In the order of their bytes.
Precedes(s, t) ==
  LET both == Min({Len(s), Len(t)})
      differ == {i \in 1 .. both : CharAt(s, i) # CharAt(t, i)}
  IN IF differ = {} THEN Len(s) < Len(t)
     ELSE Code(CharAt(s, Min(differ))) < Code(CharAt(t, Min(differ)))

ContainsAny(s, cs) == \E i \in 1 .. Len(s) : CharAt(s, i) \in cs
AllIn(s, cs)     == \A i \in 1 .. Len(s) : CharAt(s, i) \in cs
StartsWith(s, p) == Len(p) <= Len(s) /\ SubSeq(s, 1, Len(p)) = p
Mapped(s, Of(_)) == Written([i \in 1 .. Len(s) |-> Of(CharAt(s, i))])
LowerCase(s)     == Mapped(s, LAMBDA c : IF c \in Upper THEN Char(Code(c) + 32) ELSE c)
UpperCase(s)     == Mapped(s, LAMBDA c : IF c \in Lower THEN Char(Code(c) - 32) ELSE c)

\* The text from place i on.
From(s, i) == SubSeq(s, i, Len(s))

TrimSpace(s) ==
  LET kept == {i \in 1 .. Len(s) : CharAt(s, i) \notin Spaces}
  IN IF kept = {} THEN "" ELSE SubSeq(s, Min(kept), Max(kept))

\* The number a text of digits writes in a base.
Numeral(s, base) == FoldLeft(LAMBDA n, c : base * n + DigitValue(c), 0, Chars(s))
=============================================================================
