------------------------- MODULE LoopBatchesProofs --------------------------
(***************************************************************************)
(* What the proofs about Loops rest on, for integers of any width: what    *)
(* one instruction does to a machine on its way through the loop of a      *)
(* range; and, of the batches that write the registers of each round as    *)
(* they go, that so many rounds are so many instructions.                  *)
(***************************************************************************)
EXTENDS Loops, Recursion, SequenceTheorems

-----------------------------------------------------------------------------
(* Integers of a width *)

\* A quotient and its remainder, by any divisor.
LEMMA Divided ==
  ASSUME NEW n \in Nat, n > 0, NEW x \in Int
  PROVE  x \div n \in Int /\ x % n \in 0 .. n - 1 /\ x = n * (x \div n) + (x % n)
  OBVIOUS

\* They are the only ones.
LEMMA Remains ==
  ASSUME NEW n \in Nat, n > 0, NEW x \in Int, NEW q \in Int, NEW r \in 0 .. n - 1,
         x = n * q + r
  PROVE  x % n = r
  OBVIOUS

HalfAssumption == Half \in Nat /\ Half > 0

\* What wraps is an integer of the width,
LEMMA WrapInRange ==
  ASSUME HalfAssumption, NEW x \in Int
  PROVE  Wrap(x) \in Integers64
  <1>1. (x + Half) % (2 * Half) \in 0 .. 2 * Half - 1
    BY Divided DEF HalfAssumption
  <1>2. QED
    BY <1>1 DEF Wrap, Integers64, MinInteger, MaxInteger, HalfAssumption

\* and an integer of the width does not change.
LEMMA WrapOfInteger ==
  ASSUME HalfAssumption, NEW x \in Integers64
  PROVE  Wrap(x) = x
  <1>1. x \in Int /\ x + Half \in 0 .. 2 * Half - 1 /\ x + Half = (2 * Half) * 0 + (x + Half)
    BY DEF Integers64, MinInteger, MaxInteger, HalfAssumption
  <1>2. (x + Half) % (2 * Half) = x + Half
    BY <1>1, Remains DEF HalfAssumption
  <1>3. QED
    BY <1>1, <1>2 DEF Wrap, HalfAssumption

\* It does not matter when a sum is wrapped.
LEMMA WrapLater ==
  ASSUME HalfAssumption, NEW x \in Int, NEW y \in Int
  PROVE  Wrap(Wrap(x) + y) = Wrap(x + y)
  <1> DEFINE N == 2 * Half
             a == (x + Half) % N
             q == (x + Half) \div N
             r == (a + y) % N
             p == (a + y) \div N
  <1>1. N \in Nat /\ N > 0 /\ Half \in Int
    BY DEF HalfAssumption
  <1>2. q \in Int /\ a \in Int /\ x + Half = N * q + a
    BY <1>1, Divided
  <1>3. p \in Int /\ r \in 0 .. N - 1 /\ a + y = N * p + r
    BY <1>1, <1>2, Divided
  <1>4. Wrap(x) = a - Half
    BY DEF Wrap
  <1>5. Wrap(Wrap(x) + y) = r - Half
    <2>1. (a - Half) + y + Half = a + y
      BY <1>1, <1>2
    <2>2. QED
      BY <1>4, <2>1 DEF Wrap
  <1> HIDE DEF N, a, q, r, p
  <1>6. x + y + Half = N * (q + p) + r
    <2>1. x + y + Half = N * q + (a + y)
      BY <1>1, <1>2
    <2>2. N * (q + p) = N * q + N * p
      BY <1>1, <1>2, <1>3
    <2>3. QED
      BY <1>1, <1>2, <1>3, <2>1, <2>2
  <1>7. (x + y + Half) % N = r
    <2>1. x + y + Half \in Int /\ q + p \in Int
      BY <1>1, <1>2, <1>3
    <2>2. QED
      BY <1>1, <1>3, <1>6, <2>1, Remains
  <1>8. QED
    BY <1>5, <1>7 DEF Wrap, N

\* Go's quotient is no larger than what is divided, and its remainder is
\* smaller than the divisor.
LEMMA QuotientFacts ==
  ASSUME NEW x \in Int, NEW y \in Int, y # 0
  PROVE  /\ Quotient(x, y) \in Int /\ Remainder(x, y) \in Int
         /\ Magnitude(Quotient(x, y)) <= Magnitude(x)
         /\ Remainder(x, y) # 0 => Magnitude(Quotient(x, y)) < Magnitude(x)
         /\ Magnitude(Remainder(x, y)) < Magnitude(y)
  <1> DEFINE a == Magnitude(x)
             b == Magnitude(y)
             q == a \div b
             r == a % b
  <1>1. a \in Nat /\ b \in Nat /\ b > 0
    BY DEF Magnitude
  <1>2. q \in Int /\ r \in 0 .. b - 1 /\ a = b * q + r
    <2> HIDE DEF a, b
    <2>1. QED
      BY <1>1, Divided
  <1>3. q >= 0
    <2> HIDE DEF a, b
    <2>1. QED
      BY <1>1
  <1>4. b * q >= q
    <2> HIDE DEF a, b, q, r
    <2>1. QED
      BY <1>1, <1>2, <1>3
  <1>5. q <= a /\ (r # 0 => q < a)
    <2> HIDE DEF a, b, q, r
    <2>1. b * q \in Int
      BY <1>1, <1>2
    <2>2. QED
      BY <1>1, <1>2, <1>4, <2>1
  <1>6. Quotient(x, y) = q \/ Quotient(x, y) = -q
    BY DEF Quotient
  <1>7. Magnitude(Quotient(x, y)) = q
    <2> HIDE DEF q
    <2>1. QED
      BY <1>2, <1>3, <1>6 DEF Magnitude
  <1>8. y * Quotient(x, y) = b * q \/ y * Quotient(x, y) = -(b * q)
    <2>1. b = y \/ b = -y
      BY DEF Magnitude
    <2> HIDE DEF q, b
    <2>2. QED
      BY <1>2, <1>6, <2>1
  <1>9. Remainder(x, y) = r \/ Remainder(x, y) = -r
    <2>1. CASE x >= 0
      <3>1. a = x
        BY <2>1 DEF Magnitude
      <3>2. y * Quotient(x, y) = b * q
        <4>1. CASE y > 0
          <5>1. b = y /\ Quotient(x, y) = q
            BY <2>1, <4>1 DEF Magnitude, Quotient
          <5> HIDE DEF q, b
          <5>2. QED
            BY <5>1
        <4>2. CASE y < 0
          <5>1. b = -y /\ Quotient(x, y) = -q
            BY <2>1, <4>2 DEF Magnitude, Quotient
          <5> HIDE DEF q, b
          <5>2. QED
            BY <1>2, <5>1
        <4>3. QED
          BY <4>1, <4>2
      <3> HIDE DEF a, b, q, r
      <3>3. b * q \in Int
        BY <1>1, <1>2
      <3>4. QED
        BY <1>2, <3>1, <3>2, <3>3 DEF Remainder
    <2>2. CASE x < 0
      <3>1. a = -x
        BY <2>2 DEF Magnitude
      <3>2. y * Quotient(x, y) = -(b * q)
        <4>1. CASE y > 0
          <5>1. b = y /\ Quotient(x, y) = -q
            BY <2>2, <4>1 DEF Magnitude, Quotient
          <5> HIDE DEF q, b
          <5>2. QED
            BY <1>2, <5>1
        <4>2. CASE y < 0
          <5>1. b = -y /\ Quotient(x, y) = q
            BY <2>2, <4>2 DEF Magnitude, Quotient
          <5> HIDE DEF q, b
          <5>2. QED
            BY <1>2, <5>1
        <4>3. QED
          BY <4>1, <4>2
      <3> HIDE DEF a, b, q, r
      <3>3. b * q \in Int
        BY <1>1, <1>2
      <3>4. QED
        BY <1>2, <3>1, <3>2, <3>3 DEF Remainder
    <2>3. QED
      BY <2>1, <2>2
  <1> HIDE DEF a, b, q, r
  <1>10. Magnitude(Remainder(x, y)) = r
    BY <1>2, <1>9 DEF Magnitude
  <1>11. Remainder(x, y) # 0 => r # 0
    BY <1>2, <1>9
  <1>12. Quotient(x, y) \in Int /\ Remainder(x, y) \in Int
    BY <1>2, <1>6, <1>9
  <1>13. Magnitude(Remainder(x, y)) < b /\ Magnitude(Quotient(x, y)) <= a
         /\ (Remainder(x, y) # 0 => Magnitude(Quotient(x, y)) < a)
    BY <1>1, <1>2, <1>5, <1>7, <1>10, <1>11
  <1>14. QED
    BY <1>12, <1>13 DEF a, b

\* Division stays in the integers but for the one case that wraps.
LEMMA FloorDivInRange ==
  ASSUME HalfAssumption, NEW x \in Integers64, NEW y \in Integers64, y # 0
  PROVE  integerFloorDiv(x, y) \in Integers64 /\ integerModulo(x, y) \in Integers64
  <1>1. x \in Int /\ y \in Int /\ Magnitude(x) <= Half /\ (x > 0 => Magnitude(x) < Half)
        /\ Magnitude(y) <= Half /\ (y > 0 => Magnitude(y) < Half)
    BY DEF HalfAssumption, Integers64, MinInteger, MaxInteger, Magnitude
  <1> DEFINE q == Quotient(x, y)
             r == Remainder(x, y)
  <1>2. /\ q \in Int /\ r \in Int /\ Magnitude(q) <= Magnitude(x)
        /\ r # 0 => Magnitude(q) < Magnitude(x)
        /\ Magnitude(r) < Magnitude(y)
    BY <1>1, QuotientFacts
  <1>3. CASE y = -1
    BY <1>1, <1>3, WrapInRange DEF integerFloorDiv, integerModulo, Integers64, HalfAssumption,
                                   MinInteger, MaxInteger
  <1>4. CASE y # -1
    <2>1. integerFloorDiv(x, y) = IF r # 0 /\ Opposite(r, y) THEN q - 1 ELSE q
      BY <1>4 DEF integerFloorDiv
    <2>2. integerModulo(x, y) = IF r # 0 /\ Opposite(r, y) THEN r + y ELSE r
      BY <1>4 DEF integerModulo
    <2>3. q # Half
      <3>1. CASE x = MinInteger
        <4>1. Magnitude(y) = 1 => y = 1
          BY <1>1, <1>4 DEF Magnitude
        <4>2. y = 1 => q <= 0
          <5>1. ASSUME y = 1 PROVE q <= 0
            <6> DEFINE p == Magnitude(x) \div Magnitude(y)
            <6>1. Magnitude(x) \in Nat /\ Magnitude(y) = 1
              BY <1>1, <5>1 DEF Magnitude
            <6>2. q = -p
              BY <3>1, <5>1 DEF Quotient, MinInteger, HalfAssumption
            <6>3. p \in Int /\ p >= 0
              BY <6>1
            <6> HIDE DEF p, q
            <6>4. QED
              BY <6>2, <6>3
          <5>2. QED
            BY <5>1
        <4>3. Magnitude(y) > 1 => Magnitude(q) < Half
          <5>1. ASSUME Magnitude(y) > 1 PROVE Magnitude(q) < Half
            <6> DEFINE a == Magnitude(x)
                       b == Magnitude(y)
                       p == a \div b
            <6>1. a = Half /\ b \in Nat /\ b > 1
              BY <1>1, <3>1, <5>1 DEF Magnitude, MinInteger, HalfAssumption
            <6>2. p \in Int /\ p >= 0 /\ a % b \in 0 .. b - 1 /\ a = b * p + (a % b)
              <7>1. a \in Nat
                BY <6>1 DEF HalfAssumption
              <7> HIDE DEF a, b
              <7>2. b > 0 /\ a \in Int
                BY <6>1, <7>1
              <7>3. QED
                BY <6>1, <7>1, <7>2, Divided
            <6>3. q = p \/ q = -p
              BY DEF Quotient
            <6> HIDE DEF a, b, p
            <6>4. b * p >= 2 * p
              BY <6>1, <6>2
            <6>5. b * p \in Int
              BY <6>1, <6>2
            <6>6. p < Half
              BY <6>1, <6>2, <6>4, <6>5 DEF HalfAssumption
            <6>7. QED
              BY <6>2, <6>3, <6>6 DEF Magnitude
          <5>2. QED
            BY <5>1
        <4>4. Magnitude(y) \in Nat /\ Magnitude(y) >= 1
          BY <1>1 DEF Magnitude
        <4>5. QED
          BY <1>2, <4>1, <4>2, <4>3, <4>4 DEF HalfAssumption, Magnitude
      <3>2. CASE x # MinInteger
        <4>1. Magnitude(x) < Half
          BY <1>1, <3>2 DEF Integers64, MinInteger, MaxInteger, Magnitude, HalfAssumption
        <4> HIDE DEF q
        <4>2. QED
          BY <1>1, <1>2, <4>1 DEF HalfAssumption, Magnitude
      <3>3. QED
        BY <3>1, <3>2
    <2> HIDE DEF q, r
    <2>4. integerFloorDiv(x, y) \in Integers64
      BY <1>1, <1>2, <2>1, <2>3 DEF Integers64, MinInteger, MaxInteger, Magnitude, HalfAssumption
    <2>5. integerModulo(x, y) \in Integers64
      BY <1>1, <1>2, <2>2 DEF Integers64, MinInteger, MaxInteger, Magnitude, HalfAssumption, Opposite
    <2>6. QED
      BY <2>4, <2>5
  <1>5. QED
    BY <1>3, <1>4

-----------------------------------------------------------------------------
(* Machines, and what one instruction does to one *)

Machines == [regs : [FrameRegisters -> LoopValues], pc : Nat,
             table : LoopTables, upvalue : LoopValues]

Codes == {body \o <<ForLoop>> : body \in Seq(BodyInstructions)}

\* x is m after an instruction that writes v to register r.
Writes(x, m, r, v) ==
  /\ x.pc = m.pc + 1 /\ x.table = m.table /\ x.upvalue = m.upvalue
  /\ \A q \in FrameRegisters : x.regs[q] = IF q = r THEN v ELSE m.regs[q]

\* The fields of a machine.
LEMMA MachineFields ==
  ASSUME NEW m \in Machines
  PROVE  /\ m.regs \in [FrameRegisters -> LoopValues] /\ m.pc \in Nat
         /\ m.table \in LoopTables /\ m.upvalue \in LoopValues
         /\ m = [regs |-> m.regs, pc |-> m.pc, table |-> m.table, upvalue |-> m.upvalue]
         /\ \A q \in FrameRegisters : m.regs[q] \in LoopValues
  BY DEF Machines

\* Machines with the same fields are the same.
LEMMA MachineEqual ==
  ASSUME NEW m \in Machines, NEW x \in Machines, x.pc = m.pc, x.table = m.table,
         x.upvalue = m.upvalue, \A q \in FrameRegisters : x.regs[q] = m.regs[q]
  PROVE  x = m
  <1>1. x.regs = m.regs
    BY MachineFields
  <1>2. QED
    BY <1>1, MachineFields

\* The machine that goes on, and the one left to the full path.
LEMMA ThenFields ==
  ASSUME NEW m \in Machines
  PROVE  /\ Then(m) \in Machines /\ Then(m).pc = m.pc + 1 /\ Then(m).regs = m.regs
         /\ Then(m).table = m.table /\ Then(m).upvalue = m.upvalue
         /\ LeftToFullPath(m) \in Machines /\ LeftToFullPath(m).pc = Left
         /\ LeftToFullPath(m).regs = m.regs
  BY DEF Machines, Then, LeftToFullPath, Left

\* Put and the program counter, one field at a time.
LEMMA PutFields ==
  ASSUME NEW m \in Machines, NEW r \in FrameRegisters, NEW v \in LoopValues
  PROVE  /\ Put(m, r, v) \in Machines
         /\ Put(m, r, v).pc = m.pc /\ Put(m, r, v).table = m.table
         /\ Put(m, r, v).upvalue = m.upvalue
         /\ \A q \in FrameRegisters : Put(m, r, v).regs[q] = IF q = r THEN v ELSE m.regs[q]
  BY DEF Machines, Put

\* An instruction that puts a value in a register.
LEMMA PutWrites ==
  ASSUME NEW m \in Machines, NEW r \in FrameRegisters, NEW v \in LoopValues
  PROVE  Then(Put(m, r, v)) \in Machines /\ Writes(Then(Put(m, r, v)), m, r, v)
  <1> DEFINE p == Put(m, r, v)
  <1>1. /\ p \in Machines /\ p.pc = m.pc /\ p.table = m.table /\ p.upvalue = m.upvalue
        /\ \A q \in FrameRegisters : p.regs[q] = IF q = r THEN v ELSE m.regs[q]
    BY PutFields
  <1> HIDE DEF p
  <1>2. QED
    BY <1>1, ThenFields DEF Writes, p

\* The integers among the values,
LEMMA IntegerFacts ==
  /\ \A v \in LoopValues : IsInteger(v) => v.n \in Integers64 /\ v = IntegerValue(v.n)
  /\ \A i \in Integers64 : IntegerValue(i) \in LoopValues /\ IsInteger(IntegerValue(i))
                           /\ IntegerValue(i).n = i
  /\ NoValue \in LoopValues /\ ~IsInteger(NoValue)
  BY DEF LoopValues, IsInteger, IntegerValue, NoValue

\* the strings,
LEMMA StringFacts ==
  /\ \A v \in LoopValues : v.kind = "string" => v.n \in Nat /\ v = Str(v.n)
  /\ \A i \in Nat : Str(i) \in LoopValues /\ Str(i).kind = "string" /\ Str(i).n = i
  BY DEF LoopValues, Str

\* and the functions.
LEMMA OtherValues ==
  /\ \A v \in LoopValues : v.kind = "adder" => v = Adder
  /\ \A v \in LoopValues : v.kind = "counter" => v.n \in {0} \cup Captured
  /\ Adder \in LoopValues /\ Adder.kind = "adder" /\ ~IsInteger(Adder)
  /\ \A v \in LoopValues : v.kind = "counter" => ~IsInteger(v)
  BY DEF LoopValues, Adder, IsInteger

\* The value of an operand is that of its register, or its own.
LEMMA OperandValue ==
  ASSUME NEW m \in Machines, NEW o \in Operands
  PROVE  /\ Value(m, o) \in LoopValues
         /\ o.constant => o.value \in LoopValues /\ Value(m, o) = o.value
         /\ ~o.constant => o.index \in FrameRegisters /\ Value(m, o) = m.regs[o.index]
         /\ o.constant \in BOOLEAN
  BY MachineFields DEF Operands, Value

\* A body and its FORLOOP.
LEMMA CodeFacts ==
  ASSUME NEW c \in Codes
  PROVE  /\ Len(c) \in Nat /\ Len(c) >= 1 /\ DOMAIN c = 1 .. Len(c)
         /\ c[Len(c)] = ForLoop
         /\ \A i \in 1 .. Len(c) - 1 : c[i] \in BodyInstructions
  <1>1. PICK body \in Seq(BodyInstructions) : c = body \o <<ForLoop>>
    BY DEF Codes
  <1>2. /\ c \in Seq(BodyInstructions \cup {ForLoop}) /\ Len(c) = Len(body) + 1
        /\ \A i \in 1 .. Len(body) + 1 :
             c[i] = IF i <= Len(body) THEN body[i] ELSE <<ForLoop>>[i - Len(body)]
    <2>1. body \in Seq(BodyInstructions \cup {ForLoop})
          /\ <<ForLoop>> \in Seq(BodyInstructions \cup {ForLoop}) /\ Len(<<ForLoop>>) = 1
      OBVIOUS
    <2>2. QED
      BY <1>1, <2>1, ConcatProperties
  <1>3. Len(body) \in Nat
    OBVIOUS
  <1>4. QED
    BY <1>2, <1>3

\* An instruction of a body.
LEMMA BodyFacts ==
  ASSUME NEW i \in BodyInstructions
  PROVE  /\ i.op \in BodyOps /\ i.a \in FrameRegisters
         /\ i.b \in Operands /\ i.c \in Operands
         /\ i.op # "SETTABLE" => i.a >= Visible
         /\ i.op \in {"MOVE", "GETTABLE"} => ~i.b.constant
         /\ i.op = "LOADK" => i.b.constant
         /\ i.op = "CALL" => i.a > Visible /\ i.a .. i.a + 2 \subseteq FrameRegisters \ Captured
  BY DEF BodyInstructions

\* What an instruction calculates is an integer of the width.
LEMMA CalculateInRange ==
  ASSUME HalfAssumption, NEW op \in Calculations, NEW x \in Integers64, NEW y \in Integers64,
         op \in Divisions => y # 0
  PROVE  Calculate(op, x, y) \in Integers64
  <1>1. x \in Int /\ y \in Int /\ x * y \in Int
    BY DEF Integers64, MinInteger, MaxInteger, HalfAssumption
  <1>2. CASE op \in Divisions
    BY <1>2, FloorDivInRange DEF Calculate, Divisions
  <1>3. CASE op \notin Divisions
    <2>1. op \in {"ADD", "SUB", "MUL"}
      BY <1>3 DEF Calculations, Divisions
    <2>2. x + y \in Int /\ x - y \in Int
      BY <1>1
    <2>3. Wrap(x + y) \in Integers64 /\ Wrap(x - y) \in Integers64 /\ Wrap(x * y) \in Integers64
      BY <1>1, <2>2, WrapInRange
    <2>4. QED
      BY <2>1, <2>3 DEF Calculate
  <1>4. QED
    BY <1>2, <1>3

\* A write leaves a table.
LEMMA RawSetTable ==
  ASSUME NEW t \in LoopTables, NEW k \in Integers64, NEW v \in LoopValues, HalfAssumption
  PROVE  RawSet(t, k, v) \in LoopTables
  <1>1. t.at \in [Integers64 -> LoopValues] /\ t.size \in {NotCompact} \cup Nat
    BY DEF LoopTables
  <1>2. [t.at EXCEPT ![k] = v] \in [Integers64 -> LoopValues]
    BY <1>1
  <1>3. RawSet(t, k, v).size \in {NotCompact} \cup Nat
    <2>1. k \in Int
      BY DEF Integers64, MinInteger, MaxInteger, HalfAssumption
    <2>2. QED
      BY <1>1, <2>1 DEF RawSet, NotCompact
  <1>4. RawSet(t, k, v) = [at |-> [t.at EXCEPT ![k] = v], size |-> RawSet(t, k, v).size]
    BY DEF RawSet
  <1>5. QED
    BY <1>2, <1>3, <1>4 DEF LoopTables

\* What the instructions of a body do, one by one.
LEMMA MoveStep ==
  ASSUME NEW c, NEW m \in Machines, c[m.pc] \in BodyInstructions,
         c[m.pc].op \in {"MOVE", "LOADK"}
  PROVE  /\ ExecuteInstruction(c, m) \in Machines
         /\ Writes(ExecuteInstruction(c, m), m, c[m.pc].a, Value(m, c[m.pc].b))
  <1>1. ExecuteInstruction(c, m) = Then(Put(m, c[m.pc].a, Value(m, c[m.pc].b)))
    BY DEF ExecuteInstruction, Calculations
  <1>2. QED
    BY <1>1, BodyFacts, OperandValue, PutWrites

\* The operands of a calculation that is done here.
Calculable(op, x, y) == IsInteger(x) /\ IsInteger(y) /\ ~(op \in Divisions /\ y.n = 0)

\* A calculation of integers writes its result;
LEMMA CalculationStep ==
  ASSUME HalfAssumption, NEW c, NEW m \in Machines, c[m.pc] \in BodyInstructions,
         c[m.pc].op \in Calculations,
         Calculable(c[m.pc].op, Value(m, c[m.pc].b), Value(m, c[m.pc].c))
  PROVE  /\ ExecuteInstruction(c, m) \in Machines
         /\ Writes(ExecuteInstruction(c, m), m, c[m.pc].a,
                   IntegerValue(Calculate(c[m.pc].op, Value(m, c[m.pc].b).n,
                                          Value(m, c[m.pc].c).n)))
  <1> DEFINE i == c[m.pc]
             x == Value(m, i.b)
             y == Value(m, i.c)
  <1>1. ExecuteInstruction(c, m) = Then(Put(m, i.a, IntegerValue(Calculate(i.op, x.n, y.n))))
    BY DEF ExecuteInstruction, Calculable, Calculations
  <1>2. x \in LoopValues /\ y \in LoopValues /\ i.a \in FrameRegisters
    BY BodyFacts, OperandValue
  <1>3. x.n \in Integers64 /\ y.n \in Integers64 /\ (i.op \in Divisions => y.n # 0)
    BY <1>2, IntegerFacts DEF Calculable
  <1>4. IntegerValue(Calculate(i.op, x.n, y.n)) \in LoopValues
    BY <1>3, CalculateInRange, IntegerFacts
  <1>5. QED
    BY <1>1, <1>2, <1>4, PutWrites

\* any other is left to the full path.
LEMMA CalculationLeft ==
  ASSUME NEW c, NEW m, c[m.pc].op \in Calculations,
         ~Calculable(c[m.pc].op, Value(m, c[m.pc].b), Value(m, c[m.pc].c))
  PROVE  ExecuteInstruction(c, m) = LeftToFullPath(m)
  BY DEF ExecuteInstruction, Calculable, Calculations

\* A read of a plain table, by an integer.
LEMMA GetTableStep ==
  ASSUME NEW c, NEW m \in Machines, c[m.pc] \in BodyInstructions,
         c[m.pc].op = "GETTABLE",
         Value(m, c[m.pc].b) = TableValue(0), IsInteger(Value(m, c[m.pc].c))
  PROVE  /\ ExecuteInstruction(c, m) \in Machines
         /\ Writes(ExecuteInstruction(c, m), m, c[m.pc].a,
                   m.table.at[Value(m, c[m.pc].c).n])
         /\ m.table.at[Value(m, c[m.pc].c).n] \in LoopValues
  <1>1. ExecuteInstruction(c, m) = Then(Put(m, c[m.pc].a, m.table.at[Value(m, c[m.pc].c).n]))
    BY DEF ExecuteInstruction, Calculations
  <1>2. Value(m, c[m.pc].c).n \in Integers64
    BY BodyFacts, OperandValue, IntegerFacts
  <1>3. m.table.at[Value(m, c[m.pc].c).n] \in LoopValues
    BY <1>2, MachineFields DEF LoopTables
  <1>4. QED
    BY <1>1, <1>3, BodyFacts, PutWrites

\* A write to a plain table, by an integer.
LEMMA SetTableStep ==
  ASSUME HalfAssumption, NEW c, NEW m \in Machines, c[m.pc] \in BodyInstructions,
         c[m.pc].op = "SETTABLE",
         m.regs[c[m.pc].a] = TableValue(0), IsInteger(Value(m, c[m.pc].b))
  PROVE  /\ ExecuteInstruction(c, m) \in Machines
         /\ ExecuteInstruction(c, m).pc = m.pc + 1
         /\ ExecuteInstruction(c, m).regs = m.regs
         /\ ExecuteInstruction(c, m).upvalue = m.upvalue
         /\ ExecuteInstruction(c, m).table
              = RawSet(m.table, Value(m, c[m.pc].b).n, Value(m, c[m.pc].c))
  <1> DEFINE t == RawSet(m.table, Value(m, c[m.pc].b).n, Value(m, c[m.pc].c))
  <1>1. ExecuteInstruction(c, m) = Then([m EXCEPT !.table = t])
    BY DEF ExecuteInstruction, Calculations
  <1>2. t \in LoopTables
    BY BodyFacts, OperandValue, IntegerFacts, RawSetTable, MachineFields
  <1> HIDE DEF t
  <1>3. [m EXCEPT !.table = t] \in Machines
    BY <1>2 DEF Machines
  <1>4. [m EXCEPT !.table = t].pc = m.pc /\ [m EXCEPT !.table = t].regs = m.regs
        /\ [m EXCEPT !.table = t].upvalue = m.upvalue /\ [m EXCEPT !.table = t].table = t
    BY DEF Machines
  <1>5. QED
    BY <1>1, <1>3, <1>4, ThenFields DEF t

\* The concatenation of two strings.
LEMMA ConcatStep ==
  ASSUME NEW c, NEW m \in Machines, c[m.pc] \in BodyInstructions,
         c[m.pc].op = "CONCAT", Value(m, c[m.pc].b).kind = "string",
         Value(m, c[m.pc].c).kind = "string"
  PROVE  /\ ExecuteInstruction(c, m) \in Machines
         /\ Writes(ExecuteInstruction(c, m), m, c[m.pc].a,
                   Str(Value(m, c[m.pc].b).n + Value(m, c[m.pc].c).n))
  <1>1. ExecuteInstruction(c, m)
          = Then(Put(m, c[m.pc].a, Str(Value(m, c[m.pc].b).n + Value(m, c[m.pc].c).n)))
    BY DEF ExecuteInstruction, Calculations
  <1>2. Value(m, c[m.pc].b).n \in Nat /\ Value(m, c[m.pc].c).n \in Nat
    BY BodyFacts, OperandValue, StringFacts
  <1>3. Str(Value(m, c[m.pc].b).n + Value(m, c[m.pc].c).n) \in LoopValues
    BY <1>2, StringFacts
  <1>4. QED
    BY <1>1, <1>3, BodyFacts, PutWrites

\* A call of a function that adds its arguments.
LEMMA CallAdderStep ==
  ASSUME HalfAssumption, NEW c, NEW m \in Machines, c[m.pc] \in BodyInstructions,
         c[m.pc].op = "CALL", NEW slot, slot = c[m.pc].a,
         m.regs[slot] = Adder, Holds(m, {slot + 1, slot + 2})
  PROVE  /\ ExecuteInstruction(c, m) \in Machines
         /\ Writes(ExecuteInstruction(c, m), m, slot,
                   IntegerValue(Wrap(m.regs[slot + 1].n + m.regs[slot + 2].n)))
  <1> DEFINE v == IntegerValue(Wrap(m.regs[slot + 1].n + m.regs[slot + 2].n))
  <1>1. ExecuteInstruction(c, m) = Then(Put(m, slot, v))
    BY DEF ExecuteInstruction, Calculations, ExecuteCall, Adder
  <1>2. slot \in FrameRegisters /\ slot + 1 \in FrameRegisters /\ slot + 2 \in FrameRegisters
    <2>1. slot \in FrameRegisters /\ slot .. slot + 2 \subseteq FrameRegisters
      BY BodyFacts
    <2>2. slot + 1 \in slot .. slot + 2 /\ slot + 2 \in slot .. slot + 2
      BY <2>1 DEF FrameRegisters
    <2>3. QED
      BY <2>1, <2>2
  <1>3. m.regs[slot + 1].n \in Integers64 /\ m.regs[slot + 2].n \in Integers64
    BY <1>2, MachineFields, IntegerFacts DEF Holds
  <1>4. m.regs[slot + 1].n + m.regs[slot + 2].n \in Int
    BY <1>3 DEF Integers64, MinInteger, MaxInteger, HalfAssumption
  <1>5. v \in LoopValues
    BY <1>4, WrapInRange, IntegerFacts
  <1>6. QED
    BY <1>1, <1>2, <1>5, PutWrites

CapturedAssumption == Captured \subseteq FrameRegisters \ Control

\* s is m with v in the upvalue of the counter f.
UpvalueSet(s, m, f, v) ==
  /\ s \in Machines /\ s.pc = m.pc /\ s.table = m.table
  /\ f.n \in {0} \cup Captured /\ f.n \in FrameRegisters
  /\ f.n \in Captured => f.n > Visible
  /\ f.n = 0 => s.upvalue = v /\ s.regs = m.regs /\ Upvalue(m, f) = m.upvalue
  /\ f.n # 0 => /\ s.upvalue = m.upvalue /\ Upvalue(m, f) = m.regs[f.n]
                /\ \A q \in FrameRegisters : s.regs[q] = IF q = f.n THEN v ELSE m.regs[q]

\* A counter's upvalue is its own cell, or a captured register.
LEMMA UpvalueFacts ==
  ASSUME CapturedAssumption, NEW m \in Machines, NEW f \in LoopValues, f.kind = "counter",
         NEW v \in LoopValues
  PROVE  Upvalue(m, f) \in LoopValues /\ UpvalueSet(SetUpvalue(m, f, v), m, f, v)
  <1>1. f.n \in {0} \cup Captured /\ f.n \in FrameRegisters /\ (f.n \in Captured => f.n > Visible)
    <2>1. f.n \in {0} \cup Captured
      BY OtherValues
    <2>2. \A q \in Captured : q \in FrameRegisters /\ q > Visible
      BY DEF CapturedAssumption, FrameRegisters, Control, Visible
    <2>3. QED
      BY <2>1, <2>2 DEF FrameRegisters
  <1>2. CASE f.n = 0
    <2>1. [m EXCEPT !.upvalue = v] \in Machines
      BY DEF Machines
    <2>2. [m EXCEPT !.upvalue = v].pc = m.pc /\ [m EXCEPT !.upvalue = v].table = m.table
          /\ [m EXCEPT !.upvalue = v].upvalue = v /\ [m EXCEPT !.upvalue = v].regs = m.regs
      BY DEF Machines
    <2>3. QED
      BY <1>1, <1>2, <2>1, <2>2, MachineFields DEF Upvalue, SetUpvalue, UpvalueSet
  <1>3. CASE f.n # 0
    <2>1. SetUpvalue(m, f, v) = Put(m, f.n, v) /\ Upvalue(m, f) = m.regs[f.n]
      BY <1>3 DEF Upvalue, SetUpvalue
    <2>2. /\ Put(m, f.n, v) \in Machines /\ Put(m, f.n, v).pc = m.pc
          /\ Put(m, f.n, v).table = m.table /\ Put(m, f.n, v).upvalue = m.upvalue
          /\ \A q \in FrameRegisters :
               Put(m, f.n, v).regs[q] = IF q = f.n THEN v ELSE m.regs[q]
      BY <1>1, PutFields
    <2>3. Upvalue(m, f) \in LoopValues
      BY <1>1, <2>1, MachineFields
    <2>4. QED
      BY <1>1, <1>3, <2>1, <2>2, <2>3 DEF UpvalueSet
  <1>4. QED
    BY <1>2, <1>3

\* A counter's call: its upvalue, or the register that is, and then its slot.
LEMMA CallCounterStep ==
  ASSUME HalfAssumption, CapturedAssumption, NEW c, NEW m \in Machines,
         c[m.pc] \in BodyInstructions, c[m.pc].op = "CALL", NEW slot, slot = c[m.pc].a,
         NEW f, f = m.regs[slot], f.kind = "counter", IsInteger(Upvalue(m, f)),
         IsInteger(m.regs[slot + 1]),
         NEW v, v = IntegerValue(Wrap(Upvalue(m, f).n + m.regs[slot + 1].n))
  PROVE  /\ v \in LoopValues
         /\ ExecuteInstruction(c, m) \in Machines
         /\ Writes(ExecuteInstruction(c, m), SetUpvalue(m, f, v), slot, v)
  <1>1. ExecuteInstruction(c, m) = Then(Put(SetUpvalue(m, f, v), slot, v))
    BY DEF ExecuteInstruction, Calculations, ExecuteCall, Holds
  <1>2. slot \in FrameRegisters /\ slot + 1 \in FrameRegisters /\ f \in LoopValues
    <2>1. slot \in FrameRegisters /\ slot .. slot + 2 \subseteq FrameRegisters
      BY BodyFacts
    <2>2. slot + 1 \in slot .. slot + 2
      BY <2>1 DEF FrameRegisters
    <2>3. QED
      BY <2>1, <2>2, MachineFields
  <1>3. m.regs[slot + 1].n \in Integers64 /\ Upvalue(m, f) \in LoopValues
    BY <1>2, MachineFields, IntegerFacts, UpvalueFacts
  <1>4. Upvalue(m, f).n + m.regs[slot + 1].n \in Int
    <2>1. Upvalue(m, f).n \in Integers64
      BY <1>3, IntegerFacts
    <2>2. PICK x, y : x = Upvalue(m, f).n /\ y = m.regs[slot + 1].n
      OBVIOUS
    <2>3. Integers64 \subseteq Int
      BY DEF Integers64, MinInteger, MaxInteger, HalfAssumption
    <2>4. x \in Int /\ y \in Int
      BY <1>3, <2>1, <2>2, <2>3
    <2>5. x + y \in Int
      BY <2>4
    <2>6. QED
      BY <2>2, <2>5
  <1>5. v \in LoopValues
    BY <1>4, WrapInRange, IntegerFacts
  <1>6. SetUpvalue(m, f, v) \in Machines
    BY <1>2, <1>5, UpvalueFacts DEF UpvalueSet
  <1>7. QED
    BY <1>1, <1>2, <1>5, <1>6, PutWrites

\* Any other call is left to the full path.
LEMMA CallLeft ==
  ASSUME NEW c, NEW m, NEW slot, slot = c[m.pc].a, c[m.pc].op = "CALL",
         ~(m.regs[slot].kind = "adder" /\ Holds(m, {slot + 1, slot + 2})),
         ~(/\ m.regs[slot].kind = "counter" /\ IsInteger(Upvalue(m, m.regs[slot]))
           /\ Holds(m, {slot + 1}))
  PROVE  ExecuteInstruction(c, m) = LeftToFullPath(m)
  BY DEF ExecuteInstruction, Calculations, ExecuteCall

-----------------------------------------------------------------------------
(* A number of instructions, and a number of rounds *)

InstructionTrace(f, c, m, n) ==
  f = [i \in 0 .. n |-> IF i = 0 THEN m ELSE ExecuteInstruction(c, f[i - 1])]

\* There are machines after each number of instructions,
LEMMA InstructionTraceExists ==
  ASSUME NEW c, NEW m, NEW N \in Nat
  PROVE  \E f : InstructionTrace(f, c, m, N)
  <1> DEFINE Reached == {n \in 0 .. N : \E f : InstructionTrace(f, c, m, n)}
  <1>1. 0 \in Reached
    <2> DEFINE f == [i \in 0 .. 0 |-> m]
    <2>1. f = [i \in 0 .. 0 |-> IF i = 0 THEN m ELSE ExecuteInstruction(c, f[i - 1])]
      OBVIOUS
    <2>2. InstructionTrace(f, c, m, 0)
      BY <2>1 DEF InstructionTrace
    <2>3. QED
      BY <2>2
  <1>2. ASSUME NEW n \in 0 .. N, n < N, n \in Reached
        PROVE  n + 1 \in Reached
    <2>1. PICK f : InstructionTrace(f, c, m, n)
      BY <1>2
    <2> DEFINE g == [i \in 0 .. n + 1 |-> IF i = n + 1 THEN ExecuteInstruction(c, f[n]) ELSE f[i]]
    <2>2. DOMAIN g = 0 .. n + 1 /\ \A i \in 0 .. n : g[i] = f[i]
      OBVIOUS
    <2>3. \A i \in 0 .. n + 1 : g[i] = IF i = 0 THEN m ELSE ExecuteInstruction(c, g[i - 1])
      <3> SUFFICES ASSUME NEW i \in 0 .. n + 1
                   PROVE  g[i] = IF i = 0 THEN m ELSE ExecuteInstruction(c, g[i - 1])
        OBVIOUS
      <3>1. CASE i = n + 1
        <4>1. g[i] = ExecuteInstruction(c, f[n]) /\ i # 0 /\ i - 1 = n /\ n \in 0 .. n
          BY <3>1
        <4> HIDE DEF g
        <4>2. QED
          BY <4>1, <2>2
      <3>2. CASE i # n + 1
        <4>1. i \in 0 .. n /\ (i # 0 => i - 1 \in 0 .. n)
          BY <3>2
        <4>2. f[i] = IF i = 0 THEN m ELSE ExecuteInstruction(c, f[i - 1])
          BY <2>1, <4>1 DEF InstructionTrace
        <4> HIDE DEF g
        <4>3. QED
          BY <2>2, <4>1, <4>2
      <3>3. QED
        BY <3>1, <3>2
    <2>4. g = [i \in 0 .. n + 1 |-> g[i]]
      OBVIOUS
    <2> HIDE DEF g
    <2>5. g = [i \in 0 .. n + 1 |-> IF i = 0 THEN m ELSE ExecuteInstruction(c, g[i - 1])]
      BY <2>3, <2>4
    <2>6. InstructionTrace(g, c, m, n + 1)
      BY <2>5 DEF InstructionTrace
    <2>7. n + 1 \in 0 .. N
      BY <1>2
    <2>8. QED
      BY <2>6, <2>7
  <1>3. N \in Reached
    <2> HIDE DEF Reached
    <2>1. QED
      BY <1>1, <1>2, Induction
  <1>4. QED
    BY <1>3

\* the same however many follow,
LEMMA InstructionTraceAgrees ==
  ASSUME NEW c, NEW m, NEW N \in Nat, NEW f, NEW g,
         InstructionTrace(f, c, m, N), InstructionTrace(g, c, m, N + 1)
  PROVE  f[N] = g[N]
  <1> DEFINE Same == {n \in 0 .. N : f[n] = g[n]}
  <1>1. /\ \A i \in 0 .. N : f[i] = IF i = 0 THEN m ELSE ExecuteInstruction(c, f[i - 1])
        /\ \A i \in 0 .. N + 1 : g[i] = IF i = 0 THEN m ELSE ExecuteInstruction(c, g[i - 1])
    BY DEF InstructionTrace
  <1>2. 0 \in Same
    BY <1>1
  <1>3. ASSUME NEW n \in 0 .. N, n < N, n \in Same
        PROVE  n + 1 \in Same
    <2>1. n + 1 \in 0 .. N /\ n + 1 \in 0 .. N + 1 /\ (n + 1) - 1 = n /\ n + 1 # 0
      BY <1>3
    <2>2. f[n + 1] = ExecuteInstruction(c, f[n]) /\ g[n + 1] = ExecuteInstruction(c, g[n])
      BY <1>1, <2>1
    <2>3. QED
      BY <1>3, <2>1, <2>2
  <1>4. N \in Same
    <2> HIDE DEF Same
    <2>1. QED
      BY <1>2, <1>3, Induction
  <1>5. QED
    BY <1>4

\* so that one more instruction is executed after those before it.
LEMMA InstructionsByOne ==
  ASSUME NEW c, NEW m, NEW n \in Nat
  PROVE  /\ Instructions(c, m, 0) = m
         /\ Instructions(c, m, n + 1) = ExecuteInstruction(c, Instructions(c, m, n))
  <1> DEFINE F(k) == CHOOSE f : InstructionTrace(f, c, m, k)
  <1>1. \A k \in Nat : InstructionTrace(F(k), c, m, k)
    BY InstructionTraceExists
  <1>2. \A k \in Nat : Instructions(c, m, k) = F(k)[k]
    BY DEF Instructions, InstructionTrace
  <1> HIDE DEF F
  <1>3. \A k \in Nat : \A i \in 0 .. k :
          F(k)[i] = IF i = 0 THEN m ELSE ExecuteInstruction(c, F(k)[i - 1])
    <2> SUFFICES ASSUME NEW k \in Nat, NEW i \in 0 .. k
                 PROVE  F(k)[i] = IF i = 0 THEN m ELSE ExecuteInstruction(c, F(k)[i - 1])
      OBVIOUS
    <2>1. F(k) = [j \in 0 .. k |-> IF j = 0 THEN m ELSE ExecuteInstruction(c, F(k)[j - 1])]
      BY <1>1 DEF InstructionTrace
    <2>2. QED
      BY <2>1
  <1>4. F(0)[0] = m
    BY <1>3
  <1>5. n + 1 \in 0 .. n + 1 /\ n + 1 # 0 /\ (n + 1) - 1 = n /\ n + 1 \in Nat
    OBVIOUS
  <1>6. F(n + 1)[n + 1] = ExecuteInstruction(c, F(n + 1)[n])
    BY <1>3, <1>5
  <1>7. F(n)[n] = F(n + 1)[n]
    BY <1>1, <1>5, InstructionTraceAgrees
  <1>8. QED
    BY <1>2, <1>4, <1>5, <1>6, <1>7

RoundTrace(f, batch, c, b, n) ==
  f = [i \in 0 .. n |-> IF i = 0 THEN b ELSE NextRound(batch, c, f[i - 1])]

\* There are batches after each number of rounds,
LEMMA RoundTraceExists ==
  ASSUME NEW batch, NEW c, NEW b, NEW N \in Nat
  PROVE  \E f : RoundTrace(f, batch, c, b, N)
  <1> DEFINE Reached == {n \in 0 .. N : \E f : RoundTrace(f, batch, c, b, n)}
  <1>1. 0 \in Reached
    <2> DEFINE f == [i \in 0 .. 0 |-> b]
    <2>1. f = [i \in 0 .. 0 |-> IF i = 0 THEN b ELSE NextRound(batch, c, f[i - 1])]
      OBVIOUS
    <2>2. RoundTrace(f, batch, c, b, 0)
      BY <2>1 DEF RoundTrace
    <2>3. QED
      BY <2>2
  <1>2. ASSUME NEW n \in 0 .. N, n < N, n \in Reached
        PROVE  n + 1 \in Reached
    <2>1. PICK f : RoundTrace(f, batch, c, b, n)
      BY <1>2
    <2> DEFINE g == [i \in 0 .. n + 1 |-> IF i = n + 1 THEN NextRound(batch, c, f[n]) ELSE f[i]]
    <2>2. DOMAIN g = 0 .. n + 1 /\ \A i \in 0 .. n : g[i] = f[i]
      OBVIOUS
    <2>3. \A i \in 0 .. n + 1 : g[i] = IF i = 0 THEN b ELSE NextRound(batch, c, g[i - 1])
      <3> SUFFICES ASSUME NEW i \in 0 .. n + 1
                   PROVE  g[i] = IF i = 0 THEN b ELSE NextRound(batch, c, g[i - 1])
        OBVIOUS
      <3>1. CASE i = n + 1
        <4>1. g[i] = NextRound(batch, c, f[n]) /\ i # 0 /\ i - 1 = n /\ n \in 0 .. n
          BY <3>1
        <4> HIDE DEF g
        <4>2. QED
          BY <4>1, <2>2
      <3>2. CASE i # n + 1
        <4>1. i \in 0 .. n /\ (i # 0 => i - 1 \in 0 .. n)
          BY <3>2
        <4>2. f[i] = IF i = 0 THEN b ELSE NextRound(batch, c, f[i - 1])
          BY <2>1, <4>1 DEF RoundTrace
        <4> HIDE DEF g
        <4>3. QED
          BY <2>2, <4>1, <4>2
      <3>3. QED
        BY <3>1, <3>2
    <2>4. g = [i \in 0 .. n + 1 |-> g[i]]
      OBVIOUS
    <2> HIDE DEF g
    <2>5. g = [i \in 0 .. n + 1 |-> IF i = 0 THEN b ELSE NextRound(batch, c, g[i - 1])]
      BY <2>3, <2>4
    <2>6. RoundTrace(g, batch, c, b, n + 1)
      BY <2>5 DEF RoundTrace
    <2>7. n + 1 \in 0 .. N
      BY <1>2
    <2>8. QED
      BY <2>6, <2>7
  <1>3. N \in Reached
    <2> HIDE DEF Reached
    <2>1. QED
      BY <1>1, <1>2, Induction
  <1>4. QED
    BY <1>3

\* the same however many follow,
LEMMA RoundTraceAgrees ==
  ASSUME NEW batch, NEW c, NEW b, NEW N \in Nat, NEW f, NEW g,
         RoundTrace(f, batch, c, b, N), RoundTrace(g, batch, c, b, N + 1)
  PROVE  f[N] = g[N]
  <1> DEFINE Same == {n \in 0 .. N : f[n] = g[n]}
  <1>1. /\ \A i \in 0 .. N : f[i] = IF i = 0 THEN b ELSE NextRound(batch, c, f[i - 1])
        /\ \A i \in 0 .. N + 1 : g[i] = IF i = 0 THEN b ELSE NextRound(batch, c, g[i - 1])
    BY DEF RoundTrace
  <1>2. 0 \in Same
    BY <1>1
  <1>3. ASSUME NEW n \in 0 .. N, n < N, n \in Same
        PROVE  n + 1 \in Same
    <2>1. n + 1 \in 0 .. N /\ n + 1 \in 0 .. N + 1 /\ (n + 1) - 1 = n /\ n + 1 # 0
      BY <1>3
    <2>2. f[n + 1] = NextRound(batch, c, f[n]) /\ g[n + 1] = NextRound(batch, c, g[n])
      BY <1>1, <2>1
    <2>3. QED
      BY <1>3, <2>1, <2>2
  <1>4. N \in Same
    <2> HIDE DEF Same
    <2>1. QED
      BY <1>2, <1>3, Induction
  <1>5. QED
    BY <1>4

\* so that one more round is done after those before it.
LEMMA IterateByOne ==
  ASSUME NEW batch, NEW c, NEW b, NEW n \in Nat
  PROVE  /\ Iterate(batch, c, b, 0) = b
         /\ Iterate(batch, c, b, n + 1) = NextRound(batch, c, Iterate(batch, c, b, n))
  <1> DEFINE F(k) == CHOOSE f : RoundTrace(f, batch, c, b, k)
  <1>1. \A k \in Nat : RoundTrace(F(k), batch, c, b, k)
    BY RoundTraceExists
  <1>2. \A k \in Nat : Iterate(batch, c, b, k) = F(k)[k]
    BY DEF Iterate, RoundTrace
  <1> HIDE DEF F
  <1>3. \A k \in Nat : \A i \in 0 .. k :
          F(k)[i] = IF i = 0 THEN b ELSE NextRound(batch, c, F(k)[i - 1])
    <2> SUFFICES ASSUME NEW k \in Nat, NEW i \in 0 .. k
                 PROVE  F(k)[i] = IF i = 0 THEN b ELSE NextRound(batch, c, F(k)[i - 1])
      OBVIOUS
    <2>1. F(k) = [j \in 0 .. k |-> IF j = 0 THEN b ELSE NextRound(batch, c, F(k)[j - 1])]
      BY <1>1 DEF RoundTrace
    <2>2. QED
      BY <2>1
  <1>4. F(0)[0] = b
    BY <1>3
  <1>5. n + 1 \in 0 .. n + 1 /\ n + 1 # 0 /\ (n + 1) - 1 = n /\ n + 1 \in Nat
    OBVIOUS
  <1>6. F(n + 1)[n + 1] = NextRound(batch, c, F(n + 1)[n])
    BY <1>3, <1>5
  <1>7. F(n)[n] = F(n + 1)[n]
    BY <1>1, <1>5, RoundTraceAgrees
  <1>8. QED
    BY <1>2, <1>4, <1>5, <1>6, <1>7

-----------------------------------------------------------------------------
(* FORLOOP and the values of a range *)

RangeSet ==
  {r \in [start : Integers64, limit : Int, step : Integers64] :
     forIntegerLimitValue(r.limit, r.step) # NoLimit}

\* The bounds of the width.
LEMMA IntegersAreIntegers ==
  ASSUME HalfAssumption
  PROVE  /\ Integers64 \subseteq Int /\ Half \in Int /\ Half > 0
         /\ \A x \in Int : x \in Integers64 <=> -Half <= x /\ x < Half
         /\ MinInteger \in Integers64 /\ MaxInteger \in Integers64
         /\ MinInteger = -Half /\ MaxInteger = Half - 1
  BY DEF HalfAssumption, Integers64, MinInteger, MaxInteger

\* A limit that is twice its value, rounded down and up.
LEMMA Halved ==
  ASSUME NEW x \in Int
  PROVE  /\ x \div 2 \in Int
         /\ \A y \in Int : 2 * y <= x <=> y <= x \div 2
         /\ \A y \in Int : 2 * y >= x <=> y >= -((-x) \div 2)
         /\ (-x) \div 2 \in Int
  OBVIOUS

\* FORPREP's limit lets through the integers that the range's limit does, by
\* a step of either sign (forIntegerLimitValue).
LEMMA LimitLets ==
  ASSUME HalfAssumption, NEW r \in RangeSet
  PROVE  /\ forIntegerLimitValue(r.limit, r.step) \in Integers64
         /\ \A x \in Integers64 :
              forIntegerLoopContinues(x, forIntegerLimitValue(r.limit, r.step), r.step)
                <=> IF r.step >= 0 THEN 2 * x <= r.limit ELSE 2 * x >= r.limit
  <1> DEFINE n == forIntegerLimitValue(r.limit, r.step)
  <1>1. r.limit \in Int /\ r.step \in Int /\ n # NoLimit /\ NoLimit = Half
    BY IntegersAreIntegers DEF RangeSet, NoLimit
  <1>2. CASE r.step >= 0
    <2>1. n = IF r.limit >= 2 * (Half - 1) THEN Half - 1 ELSE r.limit \div 2
      BY <1>1, <1>2, IntegersAreIntegers DEF forIntegerLimitValue
    <2>2. r.limit >= 2 * (-Half)
      BY <1>1, <1>2, IntegersAreIntegers DEF forIntegerLimitValue
    <2> HIDE DEF n
    <2>3. n \in Int /\ -Half <= n /\ n < Half
      BY <1>1, <2>1, <2>2, IntegersAreIntegers
    <2>4. ASSUME NEW x \in Integers64
          PROVE  x <= n <=> 2 * x <= r.limit
      <3>1. x \in Int /\ x < Half
        BY IntegersAreIntegers
      <3>2. CASE r.limit >= 2 * (Half - 1)
        BY <1>1, <2>1, <3>1, <3>2, IntegersAreIntegers
      <3>3. CASE ~(r.limit >= 2 * (Half - 1))
        BY <1>1, <2>1, <3>1, <3>3, Halved
      <3>4. QED
        BY <3>2, <3>3
    <2>5. QED
      BY <1>1, <1>2, <2>3, <2>4, IntegersAreIntegers DEF forIntegerLoopContinues, n
  <1>3. CASE ~(r.step >= 0)
    <2>1. n = IF r.limit <= 2 * (-Half) THEN -Half ELSE -((-r.limit) \div 2)
      BY <1>1, <1>3, IntegersAreIntegers DEF forIntegerLimitValue
    <2>2. r.limit < 2 * Half
      BY <1>1, <1>3, IntegersAreIntegers DEF forIntegerLimitValue
    <2> HIDE DEF n
    <2>3. n \in Int /\ -Half <= n /\ n < Half
      <3>1. CASE r.limit <= 2 * (-Half)
        BY <2>1, <3>1, IntegersAreIntegers
      <3>2. CASE ~(r.limit <= 2 * (-Half))
        <4>1. n = -((-r.limit) \div 2) /\ n # Half
          BY <1>1, <2>1, <3>2
        <4>2. n \in Int /\ -Half <= n /\ n <= Half
          BY <1>1, <2>2, <3>2, <4>1, IntegersAreIntegers
        <4>3. QED
          BY <4>1, <4>2, IntegersAreIntegers
      <3>3. QED
        BY <3>1, <3>2
    <2>4. ASSUME NEW x \in Integers64
          PROVE  x >= n <=> 2 * x >= r.limit
      <3>1. x \in Int /\ x >= -Half
        BY IntegersAreIntegers
      <3>2. CASE r.limit <= 2 * (-Half)
        BY <1>1, <2>1, <3>1, <3>2, IntegersAreIntegers
      <3>3. CASE ~(r.limit <= 2 * (-Half))
        BY <1>1, <2>1, <3>1, <3>3, Halved
      <3>4. QED
        BY <3>2, <3>3
    <2>5. QED
      BY <1>1, <1>3, <2>3, <2>4, IntegersAreIntegers DEF forIntegerLoopContinues, n
  <1>4. QED
    BY <1>1, <1>2, <1>3

Continues(r, x) == forIntegerLoopContinues(x, forIntegerLimitValue(r.limit, r.step), r.step)

\* The values of a range are those from its start that FORLOOP lets through.
LEMMA PositionsAre ==
  ASSUME HalfAssumption, NEW r \in RangeSet
  PROVE  Positions(r) = {x \in Integers64 :
           Continues(r, x) /\ \E j \in 0 .. 2 * Half : x = r.start + j * r.step}
  BY LimitLets DEF Positions, Continues

\* Of two values of a range, what comes between them.
LEMMA Ordered ==
  ASSUME NEW a \in Int, NEW i \in Nat, NEW j \in Nat, NEW s \in Int
  PROVE  /\ (a + i * s) \in Int /\ a + (i + 1) * s = (a + i * s) + s
         /\ s > 0 /\ i < j => a + j * s >= (a + i * s) + s
         /\ s < 0 /\ i < j => a + j * s <= (a + i * s) + s
         /\ s > 0 /\ j <= i => a + j * s <= a + i * s
         /\ s < 0 /\ j <= i => a + j * s >= a + i * s
         /\ s > 0 => i * s >= i
         /\ s < 0 => i * s <= -i
  <1>1. i * s \in Int /\ j * s \in Int /\ (i + 1) * s = i * s + s
    OBVIOUS
  <1>2. ASSUME NEW p \in Nat, NEW q \in Nat, NEW t \in Int, p <= q, t >= 0
        PROVE  p * t <= q * t
    BY <1>2
  <1>3. (-i) * s = -(i * s) /\ i * (-s) = -(i * s) /\ j * (-s) = -(j * s) /\ (i + 1) * (-s) = -((i + 1) * s)
    OBVIOUS
  <1>4. s > 0 /\ i < j => (i + 1) * s <= j * s
    BY <1>2
  <1>5. s < 0 /\ i < j => (i + 1) * (-s) <= j * (-s)
    BY <1>2
  <1>6. s > 0 /\ j <= i => j * s <= i * s
    BY <1>2
  <1>7. s < 0 /\ j <= i => j * (-s) <= i * (-s)
    BY <1>2
  <1>8. s > 0 => i * s >= i * 1
    OBVIOUS
  <1>9. s < 0 => i * (-s) >= i * 1
    OBVIOUS
  <1>10. (i + 1) * s \in Int
    OBVIOUS
  <1>11. QED
    BY <1>1, <1>3, <1>4, <1>5, <1>6, <1>7, <1>8, <1>9, <1>10

\* An order that a factor keeps or reverses.
LEMMA TimesOrder ==
  ASSUME NEW x \in Int, NEW y \in Int, NEW s \in Int
  PROVE  /\ s > 0 => (x * s >= y * s <=> x >= y)
         /\ s < 0 => (x * s >= y * s <=> x <= y)
  <1>1. x * s - y * s = (x - y) * s /\ x * s \in Int /\ y * s \in Int
    OBVIOUS
  <1> DEFINE d == x - y
  <1>2. d \in Int
    OBVIOUS
  <1> HIDE DEF d
  <1>3. s > 0 => (d * s >= 0 <=> d >= 0)
    BY <1>2
  <1>4. s < 0 => (d * s >= 0 <=> d <= 0)
    BY <1>2
  <1>5. d * s \in Int
    BY <1>2
  <1>6. QED
    BY <1>1, <1>2, <1>3, <1>4, <1>5 DEF d

\* What comes before a value that is let through is let through.
LEMMA ContinuesBefore ==
  ASSUME HalfAssumption, NEW r \in RangeSet, NEW x \in Int, NEW y \in Int, Continues(r, y),
         IF r.step >= 0 THEN x <= y ELSE x >= y
  PROVE  Continues(r, x)
  <1>1. r.step \in Int /\ forIntegerLimitValue(r.limit, r.step) \in Int
    BY LimitLets, IntegersAreIntegers DEF RangeSet
  <1>2. QED
    BY <1>1 DEF Continues, forIntegerLoopContinues

\* The greatest value of a range, in its order, is its final one.
LEMMA FinalIs ==
  ASSUME HalfAssumption, NEW r \in RangeSet, r.step # 0, NEW x \in Positions(r),
         \A y \in Positions(r) : x * r.step >= y * r.step
  PROVE  Final(r) = x
  <1>1. PICK z \in Positions(r) : z = Final(r) /\ \A y \in Positions(r) : z * r.step >= y * r.step
    BY DEF Final
  <1>2. x \in Int /\ z \in Int /\ r.step \in Int
    BY PositionsAre, IntegersAreIntegers DEF RangeSet
  <1>3. x * r.step >= z * r.step /\ z * r.step >= x * r.step
    BY <1>1
  <1>4. QED
    BY <1>1, <1>2, <1>3, TimesOrder

\* From a value of the range FORLOOP goes to the next, or stops on the last.
LEMMA NextPosition ==
  ASSUME HalfAssumption, NEW r \in RangeSet, ~Wraps(r),
         NEW x \in Positions(r) \cup {Before(r)}
  PROVE  /\ Continues(r, Wrap(x + r.step)) => Wrap(x + r.step) \in Positions(r)
         /\ ~Continues(r, Wrap(x + r.step)) => x = Final(r)
  <1> DEFINE s == r.step
             a == r.start
             v == x + s
  <1>1. s \in Int /\ a \in Int /\ a \in Integers64 /\ Half \in Nat /\ Half > 0
    BY IntegersAreIntegers DEF RangeSet
  <1>2. CASE x = Before(r)
    <2>1. v = a /\ Wrap(v) = a
      <3>1. v = a
        BY <1>1, <1>2 DEF Before
      <3>2. QED
        BY <1>1, <3>1, WrapOfInteger
    <2>2. Continues(r, a) => a \in Positions(r)
      <3>1. 0 \in 0 .. 2 * Half /\ a = a + 0 * s
        BY <1>1
      <3> HIDE DEF a, s
      <3>2. SUFFICES ASSUME Continues(r, a) PROVE a \in Positions(r)
        OBVIOUS
      <3>3. a \in {y \in Integers64 : Continues(r, y) /\ \E j \in 0 .. 2 * Half : y = a + j * s}
        BY <1>1, <3>1, <3>2
      <3>4. QED
        BY <3>3, PositionsAre DEF a, s
    <2>3. ASSUME ~Continues(r, a) PROVE x = Final(r)
      <3>1. SUFFICES ASSUME NEW y \in Positions(r) PROVE FALSE
        BY <1>2 DEF Final
      <3>2. PICK j \in 0 .. 2 * Half : y = a + j * s
        BY PositionsAre
      <3>3. Continues(r, y) /\ y \in Int /\ j \in Nat
        BY PositionsAre, IntegersAreIntegers
      <3>4. IF s >= 0 THEN a <= y ELSE a >= y
        <4>1. CASE s = 0
          <5>1. j * s = 0
            BY <1>1, <3>3, <4>1
          <5>2. QED
            BY <1>1, <3>2, <4>1, <5>1
        <4>2. CASE s # 0
          <5>1. a + 0 * s = a
            BY <1>1
          <5> HIDE DEF a, s
          <5>2. 0 \in Nat /\ 0 <= j
            BY <3>3
          <5>3. s > 0 /\ 0 <= j => a + 0 * s <= a + j * s
            BY <1>1, <3>3, <5>2, Ordered
          <5>4. s < 0 /\ 0 <= j => a + 0 * s >= a + j * s
            BY <1>1, <3>3, <5>2, Ordered
          <5>5. QED
            BY <1>1, <3>2, <3>3, <4>2, <5>1, <5>2, <5>3, <5>4
        <4>3. QED
          BY <4>1, <4>2
      <3>5. Continues(r, a)
        BY <1>1, <3>3, <3>4, ContinuesBefore
      <3>6. QED
        BY <2>3, <3>5
    <2>4. QED
      BY <2>1, <2>2, <2>3
  <1>3. CASE x \in Positions(r)
    <2>1. PICK i \in 0 .. 2 * Half : x = a + i * s
      BY <1>3, PositionsAre
    <2>2. x \in Integers64 /\ Continues(r, x) /\ x \in Int /\ i \in Nat /\ v \in Int
      BY <1>1, <1>3, PositionsAre, IntegersAreIntegers
    <2> HIDE DEF a, s, v
    <2>3. v = a + (i + 1) * s
      <3>1. v = (a + i * s) + s
        BY <2>1 DEF v, s
      <3>2. QED
        BY <1>1, <2>2, <3>1, Ordered
    \* Any value after x comes at or after v.
    <2>4. ASSUME NEW y \in Positions(r), ~(x * s >= y * s)
          PROVE  /\ y \in Integers64 /\ y \in Int /\ Continues(r, y)
                 /\ s > 0 => y >= v
                 /\ s < 0 => y <= v
                 /\ s # 0
      <3>1. PICK j \in 0 .. 2 * Half : y = a + j * s
        BY PositionsAre DEF a, s
      <3>2. y \in Integers64 /\ Continues(r, y) /\ y \in Int /\ j \in Nat
        BY PositionsAre, IntegersAreIntegers
      <3>3. s # 0
        <4>1. s = 0 => x * s = 0 /\ y * s = 0
          BY <2>2, <3>2
        <4>2. QED
          BY <2>4, <4>1
      <3>4. i < j
        <4>1. CASE s > 0
          <5>1. j <= i => a + j * s <= a + i * s
            BY <1>1, <2>2, <3>2, <4>1, Ordered
          <5>2. ~(x >= y)
            BY <1>1, <2>2, <2>4, <3>2, <4>1, TimesOrder
          <5>3. QED
            BY <2>1, <2>2, <3>1, <3>2, <5>1, <5>2
        <4>2. CASE s < 0
          <5>1. j <= i => a + j * s >= a + i * s
            BY <1>1, <2>2, <3>2, <4>2, Ordered
          <5>2. ~(x <= y)
            BY <1>1, <2>2, <2>4, <3>2, <4>2, TimesOrder
          <5>3. QED
            BY <2>1, <2>2, <3>1, <3>2, <5>1, <5>2
        <4>3. QED
          BY <1>1, <3>3, <4>1, <4>2
      <3>5. s > 0 => a + j * s >= (a + i * s) + s
        BY <1>1, <2>2, <3>2, <3>4, Ordered
      <3>6. s < 0 => a + j * s <= (a + i * s) + s
        BY <1>1, <2>2, <3>2, <3>4, Ordered
      <3>7. v = (a + i * s) + s
        BY <2>1 DEF v, s
      <3>8. QED
        BY <3>1, <3>2, <3>3, <3>5, <3>6, <3>7
    <2>5. CASE v \in Integers64
      <3>1. Wrap(v) = v
        BY <2>5, WrapOfInteger
      <3>2. ASSUME Continues(r, v) PROVE v \in Positions(r)
        <4>1. CASE s = 0
          <5>1. v = x
            BY <2>2, <4>1 DEF v, s
          <5>2. QED
            BY <1>3, <5>1
        <4>2. CASE s # 0
          <5>1. i + 1 \in Nat /\ (i + 1) * s \in Int
            BY <1>1, <2>2
          <5>2. /\ s > 0 => (i + 1) * s >= i + 1
                /\ s < 0 => (i + 1) * s <= -(i + 1)
            BY <1>1, <5>1, Ordered
          <5>3. -Half <= v /\ v < Half /\ -Half <= a /\ a < Half
            BY <1>1, <2>2, <2>5, IntegersAreIntegers
          <5>4. i + 1 <= 2 * Half
            BY <1>1, <2>2, <2>3, <4>2, <5>1, <5>2, <5>3
          <5>5. i + 1 \in 0 .. 2 * Half
            BY <1>1, <2>2, <5>4
          <5>6. v \in {y \in Integers64 : Continues(r, y) /\ \E j \in 0 .. 2 * Half : y = a + j * s}
            BY <2>3, <2>5, <3>2, <5>5
          <5>7. QED
            BY <5>6, PositionsAre DEF a, s
        <4>3. QED
          BY <4>1, <4>2
      <3>3. ASSUME ~Continues(r, v) PROVE x = Final(r)
        <4>1. \A y \in Positions(r) : x * s >= y * s
          <5> SUFFICES ASSUME NEW y \in Positions(r), ~(x * s >= y * s) PROVE FALSE
            OBVIOUS
          <5>1. /\ y \in Int /\ Continues(r, y) /\ s > 0 => y >= v
                /\ s < 0 => y <= v
                /\ s # 0
            BY <2>4
          <5>2. y \in Int /\ Continues(r, y)
            BY <2>4
          <5>3. IF s >= 0 THEN v <= y ELSE v >= y
            BY <1>1, <2>2, <2>4, <5>2
          <5>4. Continues(r, v)
            BY <2>2, <5>2, <5>3, ContinuesBefore DEF s
          <5>5. QED
            BY <3>3, <5>4
        <4>2. s # 0
          <5>1. s = 0 => v = x
            BY <2>2 DEF v, s
          <5>2. QED
            BY <2>2, <3>3, <5>1
        <4>3. QED
          BY <1>3, <4>1, <4>2, FinalIs DEF s
      <3>4. QED
        BY <3>1, <3>2, <3>3 DEF v, s
    <2>6. CASE v \notin Integers64
      <3>1. s # 0
        <4>1. s = 0 => v = x
          BY <2>2 DEF v, s
        <4>2. QED
          BY <2>2, <2>6, <4>1
      <3>2. \A y \in Positions(r) : x * s >= y * s
        <4> SUFFICES ASSUME NEW y \in Positions(r), ~(x * s >= y * s) PROVE FALSE
          OBVIOUS
        <4>1. y \in Int /\ y \in Integers64 /\ (s > 0 => y >= v) /\ (s < 0 => y <= v)
          BY <2>4
        <4>2. -Half <= y /\ y < Half /\ -Half <= x /\ x < Half /\ (v < -Half \/ v >= Half)
          BY <2>2, <2>6, <4>1, IntegersAreIntegers
        <4>3. v = x + s
          BY DEF v, s
        <4>4. QED
          BY <1>1, <2>2, <3>1, <4>1, <4>2, <4>3
      <3>3. Final(r) = x
        BY <1>3, <3>1, <3>2, FinalIs DEF s
      <3>4. QED
        BY <2>6, <3>3 DEF Wraps, v, s
    <2>7. QED
      BY <2>5, <2>6
  <1>4. QED
    BY <1>2, <1>3

-----------------------------------------------------------------------------
(* A machine on its way through a loop *)

Within(r, c, m) ==
  ~Wraps(r) => /\ m.pc \in 1 .. Len(c) - 1 => m.regs[0].n \in Positions(r)
               /\ m.pc = Len(c)     => m.regs[0].n \in Positions(r) \cup {Before(r)}
               /\ m.pc = Len(c) + 1 => m.regs[0].n = Final(r)

\* The controls are integers, the limit and the step those of the range, and
\* the index is where the range says; the body starts with the variable equal
\* to the index, which the limit lets through.
OnItsWay(r, c, m) ==
  /\ m \in Machines /\ m.pc \in 0 .. Len(c) + 1
  /\ Holds(m, 0 .. 2)
  /\ m.regs[1].n = forIntegerLimitValue(r.limit, r.step) /\ m.regs[2].n = r.step
  /\ m.pc = 1 /\ Len(c) > 1 => m.regs[Visible] = m.regs[0] /\ Continues(r, m.regs[0].n)
  /\ Within(r, c, m)

\* What FORLOOP does to the registers and the pc.
LEMMA ForLoopStep ==
  ASSUME HalfAssumption, NEW c \in Codes, NEW m \in Machines, m.pc = Len(c), Holds(m, 0 .. 2),
         NEW next, next = Wrap(m.regs[0].n + m.regs[2].n)
  PROVE  /\ next \in Integers64
         /\ ExecuteInstruction(c, m) \in Machines
         /\ ExecuteInstruction(c, m).table = m.table
         /\ ExecuteInstruction(c, m).upvalue = m.upvalue
         /\ forIntegerLoopContinues(next, m.regs[1].n, m.regs[2].n) =>
              /\ ExecuteInstruction(c, m).pc = 1
              /\ \A q \in FrameRegisters :
                   ExecuteInstruction(c, m).regs[q]
                     = IF q \in {0, Visible} THEN IntegerValue(next) ELSE m.regs[q]
         /\ ~forIntegerLoopContinues(next, m.regs[1].n, m.regs[2].n) =>
              /\ ExecuteInstruction(c, m).pc = Len(c) + 1
              /\ ExecuteInstruction(c, m).regs = m.regs
  <1>1. ExecuteInstruction(c, m) = ExecuteForLoop(m)
    <2>1. c[m.pc].op = "FORLOOP"
      BY CodeFacts DEF ForLoop, I
    <2>2. QED
      BY <2>1 DEF ExecuteInstruction, Calculations
  <1>2. m.regs[0].n \in Int /\ m.regs[2].n \in Int
    <2>1. 0 \in FrameRegisters /\ 2 \in FrameRegisters /\ 0 \in 0 .. 2 /\ 2 \in 0 .. 2
      BY DEF FrameRegisters
    <2>2. QED
      BY <2>1, MachineFields, IntegerFacts, IntegersAreIntegers DEF Holds
  <1>3. next \in Integers64 /\ IntegerValue(next) \in LoopValues
    BY <1>2, WrapInRange, IntegerFacts
  <1> DEFINE x == [m EXCEPT !.regs[0] = IntegerValue(next), !.regs[Visible] = IntegerValue(next), !.pc = 1]
  <1>4. CASE forIntegerLoopContinues(next, m.regs[1].n, m.regs[2].n)
    <2>1. ExecuteInstruction(c, m) = x
      BY <1>1, <1>4 DEF ExecuteForLoop
    <2>2. x \in Machines /\ x.pc = 1 /\ x.table = m.table /\ x.upvalue = m.upvalue
      BY <1>3 DEF Machines
    <2>3. \A q \in FrameRegisters : x.regs[q] = IF q \in {0, Visible} THEN IntegerValue(next) ELSE m.regs[q]
      BY DEF Machines, FrameRegisters, Visible
    <2>4. QED
      BY <1>3, <1>4, <2>1, <2>2, <2>3
  <1>5. CASE ~forIntegerLoopContinues(next, m.regs[1].n, m.regs[2].n)
    <2>1. ExecuteInstruction(c, m) = Then(m)
      BY <1>1, <1>5 DEF ExecuteForLoop
    <2>2. QED
      BY <1>3, <1>5, <2>1, ThenFields
  <1>6. QED
    BY <1>4, <1>5

\* x is m after an instruction of the body: the controls are what they were.
Steps(x, m) ==
  /\ x \in Machines /\ x.pc \in {m.pc + 1, Left}
  /\ \A q \in 0 .. 2 : x.regs[q] = m.regs[q]

\* An instruction that writes no control is a step of the body;
LEMMA WritesSteps ==
  ASSUME NEW m \in Machines, NEW x \in Machines, NEW r \in FrameRegisters, r >= Visible,
         NEW v, Writes(x, m, r, v)
  PROVE  Steps(x, m)
  <1>1. \A q \in 0 .. 2 : q \in FrameRegisters /\ q # r
    BY DEF FrameRegisters, Visible
  <1>2. \A q \in 0 .. 2 : x.regs[q] = m.regs[q]
    BY <1>1 DEF Writes
  <1>3. QED
    BY <1>2 DEF Steps, Writes

\* so is one left to the full path,
LEMMA LeftSteps ==
  ASSUME NEW m \in Machines
  PROVE  Steps(LeftToFullPath(m), m)
  BY ThenFields DEF Steps

\* and every instruction of a body is one or the other.
LEMMA BodyStep ==
  ASSUME HalfAssumption, CapturedAssumption, NEW c \in Codes, NEW m \in Machines,
         m.pc \in 1 .. Len(c) - 1
  PROVE  Steps(ExecuteInstruction(c, m), m)
  <1> DEFINE i == c[m.pc]
             x == Value(m, i.b)
             y == Value(m, i.c)
             e == ExecuteInstruction(c, m)
  <1>1. /\ i \in BodyInstructions /\ i.op \in BodyOps /\ i.a \in FrameRegisters
        /\ i.op # "SETTABLE" => i.a >= Visible
    BY CodeFacts, BodyFacts
  <1>2. CASE i.op \in {"MOVE", "LOADK"}
    BY <1>1, <1>2, MoveStep, WritesSteps
  <1>3. CASE i.op \in Calculations
    <2>1. i.a >= Visible
      BY <1>1, <1>3 DEF Calculations
    <2>2. CASE Calculable(i.op, x, y)
      BY <1>1, <1>3, <2>1, <2>2, CalculationStep, WritesSteps
    <2>3. CASE ~Calculable(i.op, x, y)
      BY <1>3, <2>3, CalculationLeft, LeftSteps
    <2>4. QED
      BY <2>2, <2>3
  <1>4. CASE i.op = "GETTABLE"
    <2>1. CASE x = TableValue(0) /\ IsInteger(y)
      BY <1>1, <1>4, <2>1, GetTableStep, WritesSteps
    <2>2. CASE ~(x = TableValue(0) /\ IsInteger(y))
      <3>1. e = LeftToFullPath(m)
        BY <1>4, <2>2 DEF ExecuteInstruction, Calculations
      <3>2. QED
        BY <3>1, LeftSteps
    <2>3. QED
      BY <2>1, <2>2
  <1>5. CASE i.op = "SETTABLE"
    <2>1. CASE m.regs[i.a] = TableValue(0) /\ IsInteger(x)
      <3>1. e \in Machines /\ e.pc = m.pc + 1 /\ e.regs = m.regs
        BY <1>1, <1>5, <2>1, SetTableStep
      <3>2. QED
        BY <3>1 DEF Steps
    <2>2. CASE ~(m.regs[i.a] = TableValue(0) /\ IsInteger(x))
      <3>1. e = LeftToFullPath(m)
        BY <1>5, <2>2 DEF ExecuteInstruction, Calculations
      <3>2. QED
        BY <3>1, LeftSteps
    <2>3. QED
      BY <2>1, <2>2
  <1>6. CASE i.op = "CONCAT"
    <2>1. CASE x.kind = "string" /\ y.kind = "string"
      BY <1>1, <1>6, <2>1, ConcatStep, WritesSteps
    <2>2. CASE ~(x.kind = "string" /\ y.kind = "string")
      <3>1. e = LeftToFullPath(m)
        BY <1>6, <2>2 DEF ExecuteInstruction, Calculations
      <3>2. QED
        BY <3>1, LeftSteps
    <2>3. QED
      BY <2>1, <2>2
  <1>7. CASE i.op = "CALL"
    <2> DEFINE slot == i.a
               f    == m.regs[slot]
    <2>1. CASE f.kind = "adder" /\ Holds(m, {slot + 1, slot + 2})
      <3>1. f = Adder
        BY <1>1, <2>1, MachineFields, OtherValues
      <3>2. QED
        BY <1>1, <1>7, <2>1, <3>1, CallAdderStep, WritesSteps
    <2>2. CASE f.kind = "counter" /\ IsInteger(Upvalue(m, f)) /\ Holds(m, {slot + 1})
      <3> DEFINE v == IntegerValue(Wrap(Upvalue(m, f).n + m.regs[slot + 1].n))
                 s == SetUpvalue(m, f, v)
      <3>1. IsInteger(m.regs[slot + 1])
        BY <2>2 DEF Holds
      <3>2. v \in LoopValues /\ e \in Machines /\ Writes(e, s, slot, v)
        BY <1>1, <1>7, <2>2, <3>1, CallCounterStep
      <3> HIDE DEF v
      <3>3. f \in LoopValues
        BY <1>1, MachineFields
      <3>4. /\ s \in Machines /\ s.pc = m.pc
            /\ f.n \in {0} \cup Captured
            /\ f.n \in FrameRegisters
            /\ f.n \in Captured => f.n > Visible
            /\ f.n = 0 => s.regs = m.regs
            /\ f.n # 0 => \A q \in FrameRegisters : s.regs[q] = IF q = f.n THEN v ELSE m.regs[q]
        <4> HIDE DEF f
        <4>1. f.kind = "counter"
          BY <2>2
        <4>2. UpvalueSet(s, m, f, v)
          BY <3>2, <3>3, <4>1, UpvalueFacts
        <4> HIDE DEF s
        <4>3. QED
          BY <4>2 DEF UpvalueSet
      <3>5. \A q \in 0 .. 2 : s.regs[q] = m.regs[q]
        <4>1. CASE f.n = 0
          BY <3>4, <4>1
        <4>2. CASE f.n # 0
          <5>1. \A q \in 0 .. 2 : q \in FrameRegisters /\ q # f.n
            BY <3>4, <4>2 DEF FrameRegisters, Visible
          <5>2. QED
            BY <3>4, <4>2, <5>1
        <4>3. QED
          BY <4>1, <4>2
      <3>6. Steps(e, s)
        BY <1>1, <1>7, <3>2, <3>4, WritesSteps
      <3>7. QED
        BY <3>4, <3>5, <3>6 DEF Steps
    <2>3. CASE /\ ~(f.kind = "adder" /\ Holds(m, {slot + 1, slot + 2}))
               /\ ~(f.kind = "counter" /\ IsInteger(Upvalue(m, f)) /\ Holds(m, {slot + 1}))
      BY <1>7, <2>3, CallLeft, LeftSteps
    <2>4. QED
      BY <2>1, <2>2, <2>3
  <1>8. QED
    BY <1>1, <1>2, <1>3, <1>4, <1>5, <1>6, <1>7 DEF BodyOps

\* An instruction keeps a machine on its way.
LEMMA StepOnItsWay ==
  ASSUME HalfAssumption, CapturedAssumption, NEW r \in RangeSet, NEW c \in Codes,
         NEW m, OnItsWay(r, c, m), m.pc \in 1 .. Len(c)
  PROVE  OnItsWay(r, c, ExecuteInstruction(c, m))
  <1> DEFINE e == ExecuteInstruction(c, m)
  <1>1. /\ m \in Machines /\ Holds(m, 0 .. 2) /\ m.pc \in Nat
        /\ m.regs[1].n = forIntegerLimitValue(r.limit, r.step) /\ m.regs[2].n = r.step
        /\ Within(r, c, m)
    BY MachineFields DEF OnItsWay
  <1>2. Len(c) \in Nat /\ Len(c) >= 1
    BY CodeFacts
  <1>3. CASE m.pc # Len(c)
    <2>1. m.pc \in 1 .. Len(c) - 1
      BY <1>1, <1>2, <1>3
    <2>2. Steps(e, m)
      BY <1>1, <2>1, BodyStep
    <2>3. e \in Machines /\ e.pc \in {m.pc + 1, 0} /\ \A q \in 0 .. 2 : e.regs[q] = m.regs[q]
      BY <2>2 DEF Steps, Left
    <2> HIDE DEF e
    <2>4. Holds(e, 0 .. 2)
      BY <1>1, <2>3 DEF Holds
    <2>5. e.regs[0] = m.regs[0] /\ e.regs[1] = m.regs[1] /\ e.regs[2] = m.regs[2]
      BY <2>3
    <2>6. ~Wraps(r) => m.regs[0].n \in Positions(r)
      BY <1>1, <2>1 DEF Within
    <2>7. Within(r, c, e)
      BY <1>2, <2>1, <2>3, <2>5, <2>6 DEF Within
    <2>8. e.pc \in 0 .. Len(c) + 1 /\ e.pc # 1
      BY <1>2, <2>1, <2>3
    <2>9. OnItsWay(r, c, e)
      BY <1>1, <2>3, <2>4, <2>5, <2>7, <2>8 DEF OnItsWay
    <2>10. QED
      BY <2>9 DEF e
  <1>4. CASE m.pc = Len(c)
    <2>1. PICK next : next = Wrap(m.regs[0].n + m.regs[2].n)
      OBVIOUS
    <2>2. /\ next \in Integers64 /\ e \in Machines
          /\ forIntegerLoopContinues(next, m.regs[1].n, m.regs[2].n) =>
               /\ e.pc = 1
               /\ \A q \in FrameRegisters :
                    e.regs[q] = IF q \in {0, Visible} THEN IntegerValue(next) ELSE m.regs[q]
          /\ ~forIntegerLoopContinues(next, m.regs[1].n, m.regs[2].n) =>
               e.pc = Len(c) + 1 /\ e.regs = m.regs
      BY <1>1, <1>4, <2>1, ForLoopStep
    <2> HIDE DEF e
    <2>3. Continues(r, next) <=> forIntegerLoopContinues(next, m.regs[1].n, m.regs[2].n)
      BY <1>1 DEF Continues
    <2>4. ~Wraps(r) => /\ Continues(r, next) => next \in Positions(r)
                       /\ ~Continues(r, next) => m.regs[0].n = Final(r)
      <3>1. SUFFICES ASSUME ~Wraps(r)
                     PROVE  /\ Continues(r, next) => next \in Positions(r)
                            /\ ~Continues(r, next) => m.regs[0].n = Final(r)
        OBVIOUS
      <3>2. m.regs[0].n \in Positions(r) \cup {Before(r)}
        BY <1>1, <1>4, <3>1 DEF Within
      <3>3. next = Wrap(m.regs[0].n + r.step)
        BY <1>1, <2>1
      <3>4. QED
        BY <3>1, <3>2, <3>3, NextPosition
    <2>5. {0, 1, 2, Visible} \subseteq FrameRegisters /\ Visible \notin {0, 1, 2}
      BY DEF FrameRegisters, Visible
    <2>6. CASE Continues(r, next)
      <3>1. /\ e.pc = 1 /\ e.regs[0] = IntegerValue(next) /\ e.regs[Visible] = IntegerValue(next)
            /\ e.regs[1] = m.regs[1] /\ e.regs[2] = m.regs[2]
        BY <2>2, <2>3, <2>5, <2>6
      <3>2. IsInteger(e.regs[0]) /\ e.regs[0].n = next
        BY <2>2, <3>1, IntegerFacts
      <3>3. Holds(e, 0 .. 2)
        BY <1>1, <3>1, <3>2 DEF Holds
      <3>4. Within(r, c, e)
        BY <1>2, <2>4, <2>6, <3>1, <3>2 DEF Within
      <3>5. e.pc \in 0 .. Len(c) + 1
        BY <1>2, <3>1
      <3>6. QED
        BY <1>1, <2>2, <2>6, <3>1, <3>2, <3>3, <3>4, <3>5 DEF OnItsWay, e
    <2>7. CASE ~Continues(r, next)
      <3>1. e.pc = Len(c) + 1 /\ e.regs = m.regs
        BY <2>2, <2>3, <2>7
      <3>2. Holds(e, 0 .. 2)
        BY <1>1, <3>1 DEF Holds
      <3>3. Within(r, c, e)
        BY <1>2, <2>4, <2>7, <3>1 DEF Within
      <3>4. e.pc \in 0 .. Len(c) + 1 /\ e.pc # 1
        BY <1>2, <3>1
      <3>5. QED
        BY <1>1, <2>2, <3>1, <3>2, <3>3, <3>4 DEF OnItsWay, e
    <2>8. QED
      BY <2>6, <2>7
  <1>5. QED
    BY <1>3, <1>4

-----------------------------------------------------------------------------
(* Batches *)

Batches ==
  [m : Machines, index : Integers64, visible : Int, sum : Int, temp : LoopValues,
   mod : LoopValues, callee : LoopValues, n : Nat, on : BOOLEAN, ok : Nat,
   cancelled : BOOLEAN]

\* The fields of a batch.
LEMMA BatchFields ==
  ASSUME NEW b \in Batches
  PROVE  /\ b.m \in Machines /\ b.index \in Integers64 /\ b.visible \in Int /\ b.sum \in Int
         /\ b.temp \in LoopValues /\ b.mod \in LoopValues /\ b.callee \in LoopValues
         /\ b.n \in Nat /\ b.on \in BOOLEAN /\ b.ok \in Nat /\ b.cancelled \in BOOLEAN
  BY DEF Batches

\* Every value has a number.
LEMMA ValueNumbers ==
  ASSUME HalfAssumption, CapturedAssumption, NEW v \in LoopValues
  PROVE  v.n \in Int
  <1>1. Captured \subseteq Int
    BY DEF CapturedAssumption, FrameRegisters
  <1>2. v.n \in Integers64 \cup Nat \cup {0, 1} \cup Captured
    BY DEF LoopValues
  <1>3. Integers64 \subseteq Int
    BY IntegersAreIntegers
  <1>4. Integers64 \cup Nat \cup {0, 1} \cup Captured \subseteq Int
    BY <1>1, <1>3
  <1>5. QED
    BY <1>2, <1>4

\* The controls of a loop.
LEMMA ControlsAreIntegers ==
  ASSUME HalfAssumption, NEW m \in Machines, Holds(m, 0 .. 2)
  PROVE  /\ \A q \in 0 .. 2 : m.regs[q].n \in Integers64 /\ m.regs[q].n \in Int
                              /\ m.regs[q] = IntegerValue(m.regs[q].n)
         /\ {0, 1, 2, Visible} \subseteq FrameRegisters
         /\ {0, 1, 2} \subseteq 0 .. 2
  <1>1. \A q \in 0 .. 2 : q \in FrameRegisters
    BY DEF FrameRegisters
  <1>2. QED
    BY <1>1, MachineFields, IntegerFacts, IntegersAreIntegers DEF Holds, FrameRegisters, Visible

\* A batch before its first round.
LEMMA FreshBatch ==
  ASSUME HalfAssumption, CapturedAssumption, NEW m \in Machines, Holds(m, 0 .. 2), NEW ok \in Nat
  PROVE  /\ Batch(m, ok) \in Batches
         /\ Batch(m, ok).m = m /\ Batch(m, ok).n = 0 /\ Batch(m, ok).on /\ Batch(m, ok).ok = ok
         /\ Batch(m, ok).index = m.regs[0].n /\ Batch(m, ok).visible = m.regs[Visible].n
         /\ ~Batch(m, ok).cancelled
  <1>1. m.regs[0].n \in Integers64 /\ m.regs[Visible].n \in Int
    BY ControlsAreIntegers, ValueNumbers, MachineFields
  <1>2. 0 \in Int /\ 0 \in Nat /\ NoValue \in LoopValues
    BY IntegerFacts
  <1>3. QED
    BY <1>1, <1>2 DEF Batch, Batches

\* The end of a round, in the locals of the batch.
AdvancedTo(a, c, b, next) ==
  /\ a \in Batches /\ a.n = b.n + 1
  /\ a.sum = b.sum /\ a.temp = b.temp /\ a.mod = b.mod /\ a.callee = b.callee
  /\ a.ok = b.ok /\ a.cancelled = b.cancelled
  /\ a.m.regs = b.m.regs /\ a.m.table = b.m.table /\ a.m.upvalue = b.m.upvalue
  /\ IF forIntegerLoopContinues(next, b.m.regs[1].n, b.m.regs[2].n)
     THEN a.on = b.on /\ a.index = next /\ a.visible = next /\ a.m.pc = 1
     ELSE ~a.on /\ a.index = b.index /\ a.visible = b.visible /\ a.m.pc = Len(c) + 1

\* What Advance does to a batch,
LEMMA AdvanceFields ==
  ASSUME HalfAssumption, NEW c \in Codes, NEW b \in Batches, Holds(b.m, 0 .. 2),
         NEW next, next = Wrap(b.index + b.m.regs[2].n)
  PROVE  AdvancedTo(Advance(c, b), c, b, next) /\ next \in Integers64
  <1>1. b.index + b.m.regs[2].n \in Int
    BY BatchFields, ControlsAreIntegers, IntegersAreIntegers
  <1>2. next \in Integers64 /\ next \in Int /\ Len(c) + 1 \in Nat
    BY <1>1, WrapInRange, IntegersAreIntegers, CodeFacts
  <1>3. CASE forIntegerLoopContinues(next, b.m.regs[1].n, b.m.regs[2].n)
    <2> DEFINE w == [b.m EXCEPT !.pc = 1]
               a == [b EXCEPT !.index = next, !.visible = next, !.n = @ + 1, !.m = w]
    <2>1. Advance(c, b) = a
      BY <1>3 DEF Advance, Batches
    <2>2. w \in Machines /\ w.regs = b.m.regs /\ w.table = b.m.table
          /\ w.upvalue = b.m.upvalue /\ w.pc = 1
      BY BatchFields DEF Machines
    <2> HIDE DEF w
    <2>3. b.n + 1 \in Nat /\ TRUE \in BOOLEAN /\ FALSE \in BOOLEAN
      BY BatchFields
    <2>4. a \in Batches
      BY <1>2, <2>2, <2>3 DEF Batches
    <2>5. /\ a.m = w /\ a.n = b.n + 1 /\ a.index = next
          /\ a.visible = next /\ a.on = b.on /\ a.sum = b.sum /\ a.temp = b.temp
          /\ a.mod = b.mod /\ a.callee = b.callee /\ a.ok = b.ok /\ a.cancelled = b.cancelled
      BY DEF Batches
    <2> HIDE DEF a
    <2>6. QED
      BY <1>2, <1>3, <2>1, <2>2, <2>4, <2>5 DEF AdvancedTo
  <1>4. CASE ~forIntegerLoopContinues(next, b.m.regs[1].n, b.m.regs[2].n)
    <2> DEFINE p == Len(c) + 1
               w == [b.m EXCEPT !.pc = p]
               a == [b EXCEPT !.n = @ + 1, !.on = FALSE, !.m = w]
    <2>1. Advance(c, b) = a
      BY <1>4 DEF Advance, Batches
    <2>2. w \in Machines /\ w.regs = b.m.regs /\ w.table = b.m.table
          /\ w.upvalue = b.m.upvalue /\ w.pc = p
      BY <1>2, BatchFields DEF Machines
    <2> HIDE DEF w
    <2>3. b.n + 1 \in Nat /\ TRUE \in BOOLEAN /\ FALSE \in BOOLEAN
      BY BatchFields
    <2>4. a \in Batches
      BY <1>2, <2>2, <2>3 DEF Batches
    <2>5. /\ a.m = w /\ a.n = b.n + 1 /\ a.index = b.index
          /\ a.visible = b.visible /\ ~a.on /\ a.sum = b.sum /\ a.temp = b.temp
          /\ a.mod = b.mod /\ a.callee = b.callee /\ a.ok = b.ok /\ a.cancelled = b.cancelled
      BY DEF Batches
    <2> HIDE DEF a
    <2>6. QED
      BY <1>2, <1>4, <2>1, <2>2, <2>4, <2>5 DEF AdvancedTo
  <1>5. QED
    BY <1>2, <1>3, <1>4

PublishedAs(p, b) ==
  /\ p \in Batches /\ p.index = b.index /\ p.visible = b.visible
  /\ p.sum = b.sum /\ p.temp = b.temp /\ p.mod = b.mod /\ p.callee = b.callee
  /\ p.n = b.n /\ p.on = b.on /\ p.ok = b.ok /\ p.cancelled = b.cancelled
  /\ p.m.pc = b.m.pc /\ p.m.table = b.m.table /\ p.m.upvalue = b.m.upvalue
  /\ \A q \in FrameRegisters :
       p.m.regs[q] = IF q = Visible THEN IntegerValue(b.visible)
                     ELSE IF q = 0 THEN IntegerValue(b.index) ELSE b.m.regs[q]

\* and Publish.
LEMMA PublishFields ==
  ASSUME HalfAssumption, NEW b \in Batches, b.visible \in Integers64
  PROVE  PublishedAs(Publish(b), b)
  <1> DEFINE w == Put(Put(b.m, 0, IntegerValue(b.index)), Visible, IntegerValue(b.visible))
  <1>1. IntegerValue(b.index) \in LoopValues /\ IntegerValue(b.visible) \in LoopValues
    BY BatchFields, IntegerFacts
  <1>2. 0 \in FrameRegisters /\ Visible \in FrameRegisters
    BY DEF FrameRegisters, Visible
  <1>3. /\ w \in Machines /\ w.pc = b.m.pc /\ w.table = b.m.table /\ w.upvalue = b.m.upvalue
        /\ \A q \in FrameRegisters :
             w.regs[q] = IF q = Visible THEN IntegerValue(b.visible)
                         ELSE IF q = 0 THEN IntegerValue(b.index) ELSE b.m.regs[q]
    <2> DEFINE u == Put(b.m, 0, IntegerValue(b.index))
    <2>1. /\ u \in Machines /\ u.pc = b.m.pc /\ u.table = b.m.table /\ u.upvalue = b.m.upvalue
          /\ \A q \in FrameRegisters : u.regs[q] = IF q = 0 THEN IntegerValue(b.index) ELSE b.m.regs[q]
      BY <1>1, <1>2, BatchFields, PutFields
    <2> HIDE DEF u
    <2>2. /\ Put(u, Visible, IntegerValue(b.visible)) \in Machines
          /\ Put(u, Visible, IntegerValue(b.visible)).pc = u.pc
          /\ Put(u, Visible, IntegerValue(b.visible)).table = u.table
          /\ Put(u, Visible, IntegerValue(b.visible)).upvalue = u.upvalue
          /\ \A q \in FrameRegisters : Put(u, Visible, IntegerValue(b.visible)).regs[q]
               = IF q = Visible THEN IntegerValue(b.visible) ELSE u.regs[q]
      BY <1>1, <1>2, <2>1, PutFields
    <2>3. w = Put(u, Visible, IntegerValue(b.visible))
      BY DEF u
    <2> HIDE DEF w
    <2>4. QED
      BY <2>1, <2>2, <2>3
  <1>4. Publish(b) = [b EXCEPT !.m = w]
    BY DEF Publish, Put, Batches, Machines
  <1> HIDE DEF w
  <1>5. /\ [b EXCEPT !.m = w] \in Batches /\ [b EXCEPT !.m = w].m = w
        /\ [b EXCEPT !.m = w].index = b.index /\ [b EXCEPT !.m = w].visible = b.visible
        /\ [b EXCEPT !.m = w].sum = b.sum /\ [b EXCEPT !.m = w].temp = b.temp
        /\ [b EXCEPT !.m = w].mod = b.mod /\ [b EXCEPT !.m = w].callee = b.callee
        /\ [b EXCEPT !.m = w].n = b.n /\ [b EXCEPT !.m = w].on = b.on
        /\ [b EXCEPT !.m = w].ok = b.ok /\ [b EXCEPT !.m = w].cancelled = b.cancelled
    BY <1>3 DEF Batches
  <1>6. QED
    BY <1>3, <1>4, <1>5 DEF PublishedAs

Shaped(c, k, t) ==
  /\ Len(c) = k /\ \A i \in 1 .. k : c[i].op = t[i]
  /\ \A i \in 1 .. k - 1 : c[i] \in BodyInstructions

\* The instructions of a body whose opcodes are known.
LEMMA OpsAre ==
  ASSUME NEW c \in Codes, NEW k \in Nat, NEW t, t = Ops(c), DOMAIN t = 1 .. k
  PROVE  Shaped(c, k, t)
  <1>1. DOMAIN c = 1 .. k /\ \A i \in 1 .. k : c[i].op = t[i]
    BY DEF Ops
  <1>2. Len(c) \in Nat /\ DOMAIN c = 1 .. Len(c) /\ \A i \in 1 .. Len(c) - 1 : c[i] \in BodyInstructions
    BY CodeFacts
  <1>3. Len(c) = k
    <2>1. Len(c) <= k
      <3>1. Len(c) >= 1 => Len(c) \in 1 .. k
        BY <1>1, <1>2
      <3>2. QED
        BY <1>2, <3>1
    <2>2. k <= Len(c)
      <3>1. k >= 1 => k \in 1 .. Len(c)
        BY <1>1, <1>2
      <3>2. QED
        BY <1>2, <3>1
    <2>3. Len(c) \in Nat
      BY <1>2
    <2>4. QED
      BY <2>1, <2>2, <2>3
  <1>4. QED
    BY <1>1, <1>2, <1>3 DEF Shaped

\* The next instruction of a machine on its way.
LEMMA OneMore ==
  ASSUME HalfAssumption, CapturedAssumption, NEW r \in RangeSet, NEW c \in Codes, NEW m,
         NEW n \in Nat, NEW x, x = Instructions(c, m, n), OnItsWay(r, c, x),
         x.pc \in 1 .. Len(c)
  PROVE  /\ ExecuteInstruction(c, x) = Instructions(c, m, n + 1)
         /\ OnItsWay(r, c, ExecuteInstruction(c, x))
         /\ x \in Machines
  BY InstructionsByOne, StepOnItsWay DEF OnItsWay

\* After whole rounds: the batch holds the machine of the instructions.
InStep(r, c, m, size, b) ==
  /\ b \in Batches /\ b.m = Instructions(c, m, b.n * size) /\ OnItsWay(r, c, b.m)
  /\ b.on => b.m.pc = 1 /\ b.index = b.m.regs[0].n /\ b.visible = b.m.regs[0].n

\* A round has written to a what its instructions have to p, up to FORLOOP.
Written(r, c, m, size, b, p, a) ==
  /\ size = Len(c) /\ size > 1
  /\ InStep(r, c, m, size, b) /\ b.on
  /\ p = Instructions(c, m, b.n * size + (size - 1)) /\ OnItsWay(r, c, p) /\ p.pc = size
  /\ p.regs[0] = b.m.regs[0] /\ p.regs[Visible] = b.m.regs[0]
  /\ a \in Batches /\ a.index = b.index /\ a.visible = b.visible /\ a.n = b.n /\ a.on
  /\ a.m.table = p.table /\ a.m.upvalue = p.upvalue
  /\ \A q \in FrameRegisters : a.m.regs[q] = p.regs[q]

RoundDone(r, c, m, size, b, p, a, e) ==
  /\ InStep(r, c, m, size, e) /\ e.n = b.n + 1
  /\ e.sum = a.sum /\ e.callee = a.callee /\ e.ok = a.ok
  /\ e.cancelled = a.cancelled
  /\ \A q \in FrameRegisters \ {0, Visible} : e.m.regs[q] = p.regs[q]
  /\ e.m.table = p.table /\ e.m.upvalue = p.upvalue

\* A round that has written what its instructions write ends as FORLOOP
\* would, and its batch is in step again.
LEMMA RoundInStep ==
  ASSUME HalfAssumption, CapturedAssumption, NEW r \in RangeSet, NEW c \in Codes, NEW m,
         NEW size \in Nat, NEW b, NEW p, NEW a, Written(r, c, m, size, b, p, a),
         NEW e, e = Publish(Advance(c, a))
  PROVE  RoundDone(r, c, m, size, b, p, a, e)
  <1> USE DEF Written, RoundDone
  <1>1. p \in Machines /\ Holds(p, 0 .. 2) /\ b.m \in Machines /\ Holds(b.m, 0 .. 2)
        /\ b \in Batches /\ b.m.pc = 1 /\ b.index = b.m.regs[0].n /\ b.visible = b.m.regs[0].n
    BY DEF InStep, OnItsWay
  <1>2. /\ p.regs[0].n \in Integers64 /\ p.regs[0] = IntegerValue(p.regs[0].n)
        /\ {0, 1, 2, Visible} \subseteq FrameRegisters
    BY <1>1, ControlsAreIntegers
  <1>3. b.index = p.regs[0].n /\ b.visible = p.regs[0].n
    BY <1>1
  <1>4. a.m.regs[0] = p.regs[0] /\ a.m.regs[1] = p.regs[1] /\ a.m.regs[2] = p.regs[2]
    BY <1>2
  <1>5. Holds(a.m, 0 .. 2)
    BY <1>1, <1>4 DEF Holds
  <1> DEFINE v == Advance(c, a)
             x == ExecuteInstruction(c, p)
  <1>6. PICK next : next = Wrap(a.index + a.m.regs[2].n)
    OBVIOUS
  <1>7. AdvancedTo(v, c, a, next) /\ next \in Integers64
    BY <1>5, <1>6, AdvanceFields
  <1> HIDE DEF v
  <1>8. v \in Batches /\ v.visible \in Integers64
    <2>1. b.visible \in Integers64
      BY <1>2, <1>3
    <2>2. QED
      BY <1>7, <2>1 DEF AdvancedTo
  <1>9. PublishedAs(e, v)
    BY <1>8, PublishFields DEF v
  <1>10. next = Wrap(p.regs[0].n + p.regs[2].n)
    BY <1>3, <1>4, <1>6
  <1>11. /\ x \in Machines /\ x.table = p.table /\ x.upvalue = p.upvalue
         /\ forIntegerLoopContinues(next, p.regs[1].n, p.regs[2].n) =>
              /\ x.pc = 1
              /\ \A q \in FrameRegisters :
                   x.regs[q] = IF q \in {0, Visible} THEN IntegerValue(next) ELSE p.regs[q]
         /\ ~forIntegerLoopContinues(next, p.regs[1].n, p.regs[2].n) =>
              x.pc = size + 1 /\ x.regs = p.regs
    BY <1>1, <1>10, ForLoopStep
  <1>12. b.n \in Nat /\ b.n * size \in Nat /\ (b.n + 1) * size = (b.n * size + (size - 1)) + 1
         /\ b.n * size + (size - 1) \in Nat
    <2>1. b.n \in Nat
      BY <1>1, BatchFields
    <2>2. (b.n + 1) * size = b.n * size + size /\ b.n * size \in Nat
      BY <2>1
    <2>3. QED
      BY <2>1, <2>2
  <1>13. x = Instructions(c, m, (b.n + 1) * size) /\ OnItsWay(r, c, x)
    <2>1. p.pc \in 1 .. Len(c)
      OBVIOUS
    <2>2. QED
      BY <1>12, <2>1, OneMore
  <1> HIDE DEF x
  <1>14. e \in Batches /\ e.n = b.n + 1 /\ e.sum = a.sum /\ e.callee = a.callee /\ e.ok = a.ok
         /\ e.cancelled = a.cancelled
    BY <1>7, <1>9 DEF AdvancedTo, PublishedAs
  <1>15. CASE forIntegerLoopContinues(next, p.regs[1].n, p.regs[2].n)
    <2>1. v.index = next /\ v.visible = next /\ v.m.pc = 1 /\ v.on
      BY <1>4, <1>7, <1>15 DEF AdvancedTo
    <2>2. /\ e.m.pc = x.pc /\ e.m.table = x.table /\ e.m.upvalue = x.upvalue
          /\ e.index = next /\ e.visible = next
          /\ \A q \in FrameRegisters : e.m.regs[q] = x.regs[q]
      BY <1>7, <1>9, <1>11, <1>15, <2>1 DEF AdvancedTo, PublishedAs
    <2>3. e.m = x
      BY <1>11, <1>14, <2>2, MachineEqual, BatchFields
    <2>4. IntegerValue(next).n = next /\ x.regs[0] = IntegerValue(next) /\ x.pc = 1
      BY <1>2, <1>7, <1>11, <1>15, IntegerFacts
    <2>5. InStep(r, c, m, size, e)
      BY <1>13, <1>14, <2>2, <2>3, <2>4 DEF InStep
    <2>6. \A q \in FrameRegisters \ {0, Visible} : e.m.regs[q] = p.regs[q]
      BY <1>11, <1>15, <2>3
    <2>7. QED
      BY <1>11, <1>14, <2>3, <2>5, <2>6
  <1>16. CASE ~forIntegerLoopContinues(next, p.regs[1].n, p.regs[2].n)
    <2>1. v.index = b.index /\ v.visible = b.visible /\ v.m.pc = Len(c) + 1 /\ ~v.on
      BY <1>4, <1>7, <1>16 DEF AdvancedTo
    <2>2. \A q \in FrameRegisters : e.m.regs[q] = x.regs[q]
      BY <1>2, <1>3, <1>7, <1>9, <1>11, <1>16, <2>1 DEF AdvancedTo, PublishedAs
    <2>3. e.m.pc = x.pc /\ e.m.table = x.table /\ e.m.upvalue = x.upvalue /\ ~e.on
      BY <1>7, <1>9, <1>11, <1>16, <2>1 DEF AdvancedTo, PublishedAs
    <2>4. e.m = x
      BY <1>11, <1>14, <2>2, <2>3, MachineEqual, BatchFields
    <2>5. InStep(r, c, m, size, e)
      BY <1>13, <1>14, <2>3, <2>4 DEF InStep
    <2>6. QED
      BY <1>11, <1>14, <1>16, <2>4, <2>5
  <1>17. QED
    BY <1>15, <1>16

-----------------------------------------------------------------------------
(* Add: sum = sum + i *)

\* Two operands that are two registers, in either order.
LEMMA PairValues ==
  ASSUME NEW x \in Operands, NEW y \in Operands, NEW a \in FrameRegisters, NEW b \in FrameRegisters,
         MatchPair(x, y, a, b), NEW m \in Machines
  PROVE  \/ Value(m, x) = m.regs[a] /\ Value(m, y) = m.regs[b]
         \/ Value(m, x) = m.regs[b] /\ Value(m, y) = m.regs[a]
  BY OperandValue DEF MatchPair

\* ADD and SUB and MUL of integers.
LEMMA PlainCalculationStep ==
  ASSUME HalfAssumption, NEW c, NEW m \in Machines, c[m.pc] \in BodyInstructions,
         c[m.pc].op \in {"ADD", "SUB", "MUL"},
         NEW x, x = Value(m, c[m.pc].b), NEW y, y = Value(m, c[m.pc].c),
         IsInteger(x), IsInteger(y)
  PROVE  /\ ExecuteInstruction(c, m) \in Machines
         /\ x.n \in Int /\ y.n \in Int
         /\ x.n \in Integers64 /\ y.n \in Integers64
         /\ Calculate(c[m.pc].op, x.n, y.n) \in Integers64
         /\ Writes(ExecuteInstruction(c, m), m, c[m.pc].a,
                   IntegerValue(Calculate(c[m.pc].op, x.n, y.n)))
  <1>1. x \in LoopValues /\ y \in LoopValues
    BY BodyFacts, OperandValue
  <1>2. x.n \in Integers64 /\ y.n \in Integers64 /\ x.n \in Int /\ y.n \in Int
    BY <1>1, IntegerFacts, IntegersAreIntegers
  <1>3. Calculable(c[m.pc].op, x, y) /\ c[m.pc].op \in Calculations /\ c[m.pc].op \notin Divisions
    BY DEF Calculable, Divisions, Calculations
  <1>4. QED
    BY <1>2, <1>3, CalculationStep, CalculateInRange

\* Each calculation by its opcode.
LEMMA CalculateIs ==
  ASSUME NEW x, NEW y
  PROVE  /\ Calculate("ADD", x, y) = Wrap(x + y)
         /\ Calculate("SUB", x, y) = Wrap(x - y)
         /\ Calculate("MUL", x, y) = Wrap(x * y)
         /\ Calculate("IDIV", x, y) = integerFloorDiv(x, y)
         /\ Calculate("MOD", x, y) = integerModulo(x, y)
  BY DEF Calculate

\* x + y, whichever way round the instruction has them.
LEMMA AddPairStep ==
  ASSUME HalfAssumption, NEW c, NEW m \in Machines, c[m.pc] \in BodyInstructions,
         c[m.pc].op = "ADD", NEW x \in FrameRegisters, NEW y \in FrameRegisters,
         MatchPair(c[m.pc].b, c[m.pc].c, x, y), IsInteger(m.regs[x]), IsInteger(m.regs[y])
  PROVE  /\ ExecuteInstruction(c, m) \in Machines
         /\ m.regs[x].n \in Int /\ m.regs[y].n \in Int
         /\ Wrap(m.regs[x].n + m.regs[y].n) \in Integers64
         /\ Writes(ExecuteInstruction(c, m), m, c[m.pc].a,
                   IntegerValue(Wrap(m.regs[x].n + m.regs[y].n)))
  <1> DEFINE i == c[m.pc]
             u == Value(m, i.b)
             v == Value(m, i.c)
  <1>1. (u = m.regs[x] /\ v = m.regs[y]) \/ (u = m.regs[y] /\ v = m.regs[x])
    BY BodyFacts, PairValues
  <1>2. IsInteger(u) /\ IsInteger(v)
    BY <1>1
  <1>3. /\ ExecuteInstruction(c, m) \in Machines /\ u.n \in Int /\ v.n \in Int
        /\ Calculate("ADD", u.n, v.n) \in Integers64
        /\ Writes(ExecuteInstruction(c, m), m, i.a, IntegerValue(Calculate("ADD", u.n, v.n)))
    BY <1>2, PlainCalculationStep
  <1>4. Calculate("ADD", u.n, v.n) = Wrap(u.n + v.n)
    BY CalculateIs
  <1>5. u.n + v.n = m.regs[x].n + m.regs[y].n /\ m.regs[x].n \in Int /\ m.regs[y].n \in Int
    BY <1>1, <1>3
  <1>6. QED
    BY <1>3, <1>4, <1>5

\* The body of Add.
LEMMA AddCode ==
  ASSUME NEW c \in Codes, MatchAdd(c)
  PROVE  Len(c) = 2 /\ c[1].op = "ADD" /\ c[1] \in BodyInstructions
  <1>1. PICK t : t = <<"ADD", "FORLOOP">>
    OBVIOUS
  <1>2. DOMAIN t = 1 .. 2 /\ t[1] = "ADD" /\ t = Ops(c)
    BY <1>1 DEF MatchAdd
  <1>3. Shaped(c, 2, t)
    BY <1>2, OpsAre
  <1>4. QED
    BY <1>2, <1>3 DEF Shaped

AddInStep(r, c, m, b) ==
  /\ InStep(r, c, m, 2, b)
  /\ IsInteger(b.m.regs[c[1].a]) /\ b.sum = b.m.regs[c[1].a].n

\* A round of Add is its two instructions.
LEMMA AddRoundInStep ==
  ASSUME HalfAssumption, CapturedAssumption, NEW r \in RangeSet, NEW c \in Codes, NEW m,
         MatchAdd(c), PrepareAddForLoopBatch(c), NEW b, AddInStep(r, c, m, b), b.on
  PROVE  AddInStep(r, c, m, AddRound(c, b)) /\ AddRound(c, b).n = b.n + 1
  <1> DEFINE t == c[1].a
             N == b.n * 2
  <1>1. Len(c) = 2 /\ c[1].op = "ADD" /\ c[1] \in BodyInstructions
    BY AddCode
  <1>2. /\ t \in FrameRegisters /\ t \notin {0, 1, 2, Visible}
        /\ MatchPair(c[1].b, c[1].c, t, Visible)
        /\ {0, 1, 2, Visible} \subseteq FrameRegisters
    BY <1>1, BodyFacts DEF PrepareAddForLoopBatch, Control, Visible, FrameRegisters
  <1>3. /\ b \in Batches /\ b.m \in Machines /\ b.n \in Nat /\ N \in Nat
        /\ b.m = Instructions(c, m, N) /\ OnItsWay(r, c, b.m) /\ b.m.pc = 1
        /\ b.index = b.m.regs[0].n /\ b.visible = b.m.regs[0].n
        /\ IsInteger(b.m.regs[t]) /\ b.sum = b.m.regs[t].n
    BY BatchFields DEF AddInStep, InStep
  <1>4. /\ b.m.regs[Visible] = b.m.regs[0] /\ Holds(b.m, 0 .. 2) /\ IsInteger(b.m.regs[Visible])
    BY <1>1, <1>3, ControlsAreIntegers DEF OnItsWay, Holds
  <1> DEFINE e1 == ExecuteInstruction(c, b.m)
             total == Wrap(b.sum + b.visible)
             a == [b EXCEPT !.sum = total, !.m = Put(@, t, IntegerValue(total))]
  <1>5. e1 \in Machines /\ Writes(e1, b.m, t, IntegerValue(total)) /\ total \in Integers64
    BY <1>1, <1>2, <1>3, <1>4, AddPairStep
  <1>6. e1 = Instructions(c, m, N + 1) /\ OnItsWay(r, c, e1)
    <2>1. b.m.pc \in 1 .. Len(c)
      BY <1>1, <1>3
    <2>2. QED
      BY <1>3, <2>1, OneMore
  <1>7. AddRound(c, b) = Publish(Advance(c, a))
    BY DEF AddRound
  <1> HIDE DEF total, e1, N, t
  <1> DEFINE w == Put(b.m, t, IntegerValue(total))
  <1>8. IntegerValue(total) \in LoopValues /\ IsInteger(IntegerValue(total))
        /\ IntegerValue(total).n = total /\ total \in Int
    BY <1>5, IntegerFacts, IntegersAreIntegers
  <1>9. /\ w \in Machines /\ w.pc = b.m.pc /\ w.table = b.m.table /\ w.upvalue = b.m.upvalue
        /\ \A q \in FrameRegisters : w.regs[q] = IF q = t THEN IntegerValue(total) ELSE b.m.regs[q]
    BY <1>2, <1>3, <1>8, PutFields
  <1>10. /\ a \in Batches /\ a.m = w /\ a.index = b.index /\ a.visible = b.visible /\ a.n = b.n
         /\ a.on /\ a.sum = total
    <2>1. a = [b EXCEPT !.sum = total, !.m = w]
      BY <1>3 DEF Batches
    <2> HIDE DEF w, a
    <2>2. QED
      BY <1>3, <1>8, <1>9, <2>1 DEF Batches
  <1> HIDE DEF w, a
  <1>11. /\ e1.pc = 2 /\ e1.table = a.m.table /\ e1.upvalue = a.m.upvalue
         /\ \A q \in FrameRegisters : a.m.regs[q] = e1.regs[q]
         /\ e1.regs[0] = b.m.regs[0] /\ e1.regs[Visible] = b.m.regs[0]
         /\ e1.regs[t] = IntegerValue(total)
    BY <1>2, <1>3, <1>4, <1>5, <1>9, <1>10 DEF Writes
  <1> DEFINE e == Publish(Advance(c, a))
  <1>12. /\ InStep(r, c, m, 2, e) /\ e.n = b.n + 1 /\ e.sum = a.sum
         /\ \A q \in FrameRegisters \ {0, Visible} : e.m.regs[q] = e1.regs[q]
    <2>1. InStep(r, c, m, 2, b) /\ e1 = Instructions(c, m, b.n * 2 + (2 - 1))
      BY <1>6 DEF AddInStep, N
    <2>2. Written(r, c, m, 2, b, e1, a)
      BY <1>1, <1>6, <1>10, <1>11, <2>1 DEF Written
    <2>3. RoundDone(r, c, m, 2, b, e1, a, e)
      BY <2>2, RoundInStep
    <2>4. QED
      BY <2>3 DEF RoundDone
  <1> HIDE DEF e
  <1>13. e.m.regs[t] = IntegerValue(total)
    BY <1>2, <1>11, <1>12
  <1>14. QED
    BY <1>7, <1>8, <1>10, <1>12, <1>13 DEF AddInStep, e, t

-----------------------------------------------------------------------------
(* Add, summed in one go *)

\* The sum of the first i numbers, by one more.
LEMMA Triangle ==
  ASSUME NEW i \in Nat
  PROVE  /\ (i * (i - 1)) \div 2 \in Int
         /\ ((i + 1) * ((i + 1) - 1)) \div 2 = (i * (i - 1)) \div 2 + i
  <1> DEFINE p == i * (i - 1)
  <1>1. p \in Int /\ (i + 1) * ((i + 1) - 1) = p + 2 * i
    <2>1. (i + 1) - 1 = i
      OBVIOUS
    <2>2. (i + 1) * i = i * (i - 1) + 2 * i /\ i * (i - 1) \in Int
      OBVIOUS
    <2>3. QED
      BY <2>1, <2>2
  <1> HIDE DEF p
  <1>2. (p + 2 * i) \div 2 = p \div 2 + i /\ p \div 2 \in Int
    BY <1>1
  <1>3. QED
    BY <1>1, <1>2 DEF p

\* The sum of i terms from start, by one more (addForLoopStepOneTermSum).
LEMMA TermSums ==
  ASSUME NEW start \in Int, NEW i \in Nat
  PROVE  /\ addForLoopStepOneTermSum(start, i) \in Int
         /\ addForLoopStepOneTermSum(start, 0) = 0
         /\ addForLoopStepOneTermSum(start, i + 1) = addForLoopStepOneTermSum(start, i) + (start + i)
  <1> DEFINE T(k) == (k * (k - 1)) \div 2
  <1>1. T(i) \in Int /\ T(i + 1) = T(i) + i
    BY Triangle
  <1>2. \A k \in Nat : addForLoopStepOneTermSum(start, k) = start * k + T(k)
    BY DEF addForLoopStepOneTermSum
  <1>3. T(0) = 0
    OBVIOUS
  <1> HIDE DEF T
  <1>4. start * i \in Int /\ start * (i + 1) = start * i + start /\ start * 0 = 0
    OBVIOUS
  <1>5. i + 1 \in Nat /\ 0 \in Nat
    OBVIOUS
  <1>6. QED
    BY <1>1, <1>2, <1>3, <1>4, <1>5

\* After i rounds of sum = sum + i from x on: the closed form.
SummedTo(x, m, a, i) ==
  /\ x.pc = 1 /\ x.table = m.table /\ x.upvalue = m.upvalue
  /\ x.regs[0] = IntegerValue(m.regs[0].n + i)
  /\ x.regs[Visible] = IntegerValue(m.regs[0].n + i)
  /\ x.regs[a] = IntegerValue(Wrap(m.regs[a].n + addForLoopStepOneTermSum(m.regs[0].n, i)))
  /\ \A q \in FrameRegisters \ {0, Visible, a} : x.regs[q] = m.regs[q]

\* What is known of a machine at the start of a body that adds.
Adding(r, c, m, a) ==
  /\ OnItsWay(r, c, m) /\ m.pc = 1
  /\ MatchAdd(c) /\ PrepareAddForLoopBatch(c) /\ a = c[1].a
  /\ IsInteger(m.regs[a]) /\ m.regs[2].n = 1

\* The addition of a body whose step is one.
LEMMA AddInstruction ==
  ASSUME HalfAssumption, CapturedAssumption, NEW r \in RangeSet, NEW c \in Codes, NEW a,
         NEW x, Adding(r, c, x, a), NEW e, e = ExecuteInstruction(c, x),
         NEW total, total = Wrap(x.regs[a].n + x.regs[0].n)
  PROVE  /\ e \in Machines /\ OnItsWay(r, c, e) /\ Writes(e, x, a, IntegerValue(total))
         /\ total \in Integers64 /\ e.pc = 2 /\ Len(c) = 2
         /\ a \in FrameRegisters \ {0, 1, 2, Visible} /\ {0, 1, 2, Visible} \subseteq FrameRegisters
         /\ x.regs[a].n \in Int /\ x.regs[0].n \in Int
  <1>1. Len(c) = 2 /\ c[1].op = "ADD" /\ c[1] \in BodyInstructions
    BY AddCode DEF Adding
  <1>2. /\ a \in FrameRegisters /\ a \notin {0, 1, 2, Visible}
        /\ MatchPair(c[1].b, c[1].c, a, Visible) /\ c[1].a = a
        /\ {0, 1, 2, Visible} \subseteq FrameRegisters
    BY <1>1, BodyFacts DEF Adding, PrepareAddForLoopBatch, Control, Visible, FrameRegisters
  <1>3. /\ x \in Machines /\ x.pc = 1 /\ IsInteger(x.regs[a]) /\ OnItsWay(r, c, x)
        /\ x.regs[Visible] = x.regs[0] /\ Holds(x, 0 .. 2)
    BY <1>1 DEF Adding, OnItsWay
  <1>4. IsInteger(x.regs[Visible])
    BY <1>3, ControlsAreIntegers DEF Holds
  <1>5. /\ e \in Machines /\ Writes(e, x, a, IntegerValue(total)) /\ total \in Integers64
        /\ x.regs[a].n \in Int /\ x.regs[0].n \in Int
    BY <1>1, <1>2, <1>3, <1>4, AddPairStep
  <1>6. x.pc \in 1 .. Len(c)
    BY <1>1, <1>3
  <1>7. OnItsWay(r, c, e)
    BY <1>3, <1>6, StepOnItsWay
  <1>8. QED
    BY <1>1, <1>2, <1>3, <1>5, <1>7 DEF Writes

\* One more round, before the limit.
LEMMA SumOneMore ==
  ASSUME HalfAssumption, CapturedAssumption, NEW r \in RangeSet, NEW c \in Codes, NEW a,
         NEW m, Adding(r, c, m, a), NEW i \in Nat, NEW x, x = Instructions(c, m, i * 2),
         OnItsWay(r, c, x), SummedTo(x, m, a, i), m.regs[0].n + i < m.regs[1].n
  PROVE  /\ OnItsWay(r, c, Instructions(c, m, (i + 1) * 2))
         /\ SummedTo(Instructions(c, m, (i + 1) * 2), m, a, i + 1)
  <1> DEFINE index == m.regs[0].n
             S(k)  == addForLoopStepOneTermSum(index, k)
             sum   == m.regs[a].n
             e     == ExecuteInstruction(c, x)
             f     == ExecuteInstruction(c, e)
             total == Wrap(x.regs[a].n + x.regs[0].n)
             next  == Wrap(e.regs[0].n + e.regs[2].n)
  <1>1. /\ index \in Int /\ sum \in Int /\ a \in FrameRegisters \ {0, 1, 2, Visible}
        /\ {0, 1, 2, Visible} \subseteq FrameRegisters
        /\ m.regs[1].n \in Integers64 /\ m.regs[1].n \in Int /\ index \in Integers64
        /\ m.regs[2].n = 1
    <2>1. m \in Machines /\ Holds(m, 0 .. 2)
      BY DEF Adding, OnItsWay
    <2>2. QED
      BY <2>1, AddInstruction, ControlsAreIntegers DEF Adding
  <1>2. /\ S(i) \in Int /\ S(i + 1) = S(i) + (index + i)
    BY <1>1, TermSums
  <1> HIDE DEF S, index, sum
  <1>3. index + i \in Integers64 /\ (index + i) + 1 \in Integers64 /\ (index + i) + 1 <= m.regs[1].n
        /\ index + (i + 1) = (index + i) + 1 /\ index + i \in Int
    BY <1>1, IntegersAreIntegers DEF index
  <1>4. Wrap(sum + S(i)) \in Integers64
    BY <1>1, <1>2, WrapInRange
  <1>5. /\ x.pc = 1 /\ x.regs[0] = IntegerValue(index + i) /\ x.regs[Visible] = IntegerValue(index + i)
        /\ x.regs[a] = IntegerValue(Wrap(sum + S(i)))
        /\ x.table = m.table /\ x.upvalue = m.upvalue
        /\ \A q \in FrameRegisters \ {0, Visible, a} : x.regs[q] = m.regs[q]
    BY DEF SummedTo, index, sum, S
  <1>6. /\ x.regs[0].n = index + i /\ x.regs[a].n = Wrap(sum + S(i)) /\ IsInteger(x.regs[a])
        /\ x.regs[1] = m.regs[1] /\ x.regs[2] = m.regs[2]
    <2>1. IntegerValue(index + i).n = index + i
      BY <1>3, IntegerFacts
    <2>2. /\ IntegerValue(Wrap(sum + S(i))).n = Wrap(sum + S(i))
          /\ IsInteger(IntegerValue(Wrap(sum + S(i))))
      BY <1>4, IntegerFacts
    <2>3. 1 \in FrameRegisters \ {0, Visible, a} /\ 2 \in FrameRegisters \ {0, Visible, a}
      BY <1>1 DEF Visible
    <2>4. QED
      BY <1>5, <2>1, <2>2, <2>3
  <1>7. Adding(r, c, x, a)
    BY <1>1, <1>5, <1>6 DEF Adding
  <1>8. /\ e \in Machines /\ OnItsWay(r, c, e) /\ Writes(e, x, a, IntegerValue(total))
        /\ total \in Integers64 /\ e.pc = 2 /\ Len(c) = 2
    BY <1>7, AddInstruction
  <1>9. total = Wrap(sum + S(i + 1))
    <2>1. total = Wrap(Wrap(sum + S(i)) + (index + i))
      BY <1>6
    <2>2. sum + S(i) \in Int /\ (sum + S(i)) + (index + i) = sum + S(i + 1)
      BY <1>1, <1>2, <1>3
    <2>3. QED
      BY <1>3, <2>1, <2>2, WrapLater
  <1>10. /\ x.pc \in 1 .. Len(c) /\ e.pc \in 1 .. Len(c) /\ i * 2 \in Nat
         /\ (i + 1) * 2 = (i * 2 + 1) + 1 /\ i * 2 + 1 \in Nat
    BY <1>5, <1>8
  <1>11. e = Instructions(c, m, i * 2 + 1)
    BY <1>10, OneMore
  <1> HIDE DEF e, total
  <1>12. f = Instructions(c, m, (i + 1) * 2) /\ OnItsWay(r, c, f)
    <2>1. PICK k \in Nat : k = i * 2 + 1
      BY <1>10
    <2>2. e = Instructions(c, m, k) /\ k + 1 = (i + 1) * 2
      BY <1>10, <1>11, <2>1
    <2>3. e = Instructions(c, m, k) /\ OnItsWay(r, c, e) /\ e.pc \in 1 .. Len(c)
      BY <1>8, <1>10, <2>2
    <2>4. ExecuteInstruction(c, e) = Instructions(c, m, k + 1)
          /\ OnItsWay(r, c, ExecuteInstruction(c, e))
      BY <2>3, OneMore
    <2>5. QED
      BY <2>2, <2>4
  <1>13. /\ \A q \in FrameRegisters : e.regs[q] = IF q = a THEN IntegerValue(total) ELSE x.regs[q]
         /\ e.table = x.table /\ e.upvalue = x.upvalue
    BY <1>8 DEF Writes
  <1>14. e.regs[0] = x.regs[0] /\ e.regs[1] = x.regs[1] /\ e.regs[2] = x.regs[2]
    BY <1>1, <1>13
  <1>15. next = (index + i) + 1
    BY <1>1, <1>3, <1>6, <1>14, WrapOfInteger
  <1>16. forIntegerLoopContinues(next, e.regs[1].n, e.regs[2].n)
    BY <1>1, <1>3, <1>6, <1>14, <1>15 DEF forIntegerLoopContinues
  <1>17. Holds(e, 0 .. 2)
    BY <1>8 DEF OnItsWay
  <1>18. /\ f.pc = 1 /\ f.table = e.table /\ f.upvalue = e.upvalue
         /\ \A q \in FrameRegisters : f.regs[q] = IF q \in {0, Visible} THEN IntegerValue(next) ELSE e.regs[q]
    BY <1>8, <1>16, <1>17, ForLoopStep
  <1> HIDE DEF f, next
  <1>19. SummedTo(f, m, a, i + 1)
    <2>1. f.regs[a] = IntegerValue(total) /\ f.regs[0] = IntegerValue(next) /\ f.regs[Visible] = IntegerValue(next)
      BY <1>1, <1>13, <1>18
    <2>2. \A q \in FrameRegisters \ {0, Visible, a} : f.regs[q] = m.regs[q]
      BY <1>5, <1>13, <1>18
    <2>3. next = m.regs[0].n + (i + 1) /\ total = Wrap(m.regs[a].n + addForLoopStepOneTermSum(m.regs[0].n, i + 1))
      BY <1>3, <1>9, <1>15 DEF index, sum, S
    <2>4. QED
      BY <1>5, <1>13, <1>18, <2>1, <2>2, <2>3 DEF SummedTo
  <1>20. QED
    BY <1>12, <1>19

\* What a batch of at most max rounds may be: as many instructions, or a loop
\* that has stopped where FORLOOP would have wrapped.
Outcome(r, c, m, size, max, b) ==
  /\ b.n \in Nat /\ b.n <= max
  /\ b.n > 0 => /\ OnItsWay(r, c, Instructions(c, m, b.n * size))
                /\ b.m = Instructions(c, m, b.n * size) \/ StopsAtEnd(c, b.m)

\* After many rounds by a step of one the sum has grown by that of so many
\* terms.
LEMMA SumTrace ==
  ASSUME HalfAssumption, CapturedAssumption, NEW r \in RangeSet, NEW c \in Codes, NEW a,
         NEW m, Adding(r, c, m, a), NEW many \in Nat, m.regs[0].n + many <= m.regs[1].n
  PROVE  /\ OnItsWay(r, c, Instructions(c, m, many * 2))
         /\ SummedTo(Instructions(c, m, many * 2), m, a, many)
  <1> DEFINE Reached == {i \in 0 .. many : /\ OnItsWay(r, c, Instructions(c, m, i * 2))
                                        /\ SummedTo(Instructions(c, m, i * 2), m, a, i)}
  <1>1. /\ m \in Machines /\ Holds(m, 0 .. 2) /\ m.pc = 1 /\ OnItsWay(r, c, m)
        /\ IsInteger(m.regs[a]) /\ a \in FrameRegisters /\ Len(c) = 2
    <2>1. OnItsWay(r, c, m)
      BY DEF Adding
    <2>2. Len(c) = 2 /\ a \in FrameRegisters
      BY AddInstruction
    <2>3. QED
      BY <2>1, <2>2 DEF Adding, OnItsWay
  <1>2. /\ m.regs[0].n \in Int /\ m.regs[1].n \in Int /\ m.regs[0] = IntegerValue(m.regs[0].n)
        /\ m.regs[a].n \in Integers64 /\ m.regs[a] = IntegerValue(m.regs[a].n)
        /\ m.regs[Visible] = m.regs[0] /\ m.regs[a].n \in Int
    <2>1. m.regs[a] \in LoopValues
      BY <1>1, MachineFields
    <2>2. m.regs[a].n \in Integers64 /\ m.regs[a] = IntegerValue(m.regs[a].n)
      BY <1>1, <2>1, IntegerFacts
    <2>3. m.regs[Visible] = m.regs[0]
      BY <1>1 DEF OnItsWay
    <2>4. m.regs[a].n \in Int
      BY <2>2, IntegersAreIntegers
    <2>5. /\ m.regs[0].n \in Int /\ m.regs[1].n \in Int /\ m.regs[0] = IntegerValue(m.regs[0].n)
      BY <1>1, ControlsAreIntegers
    <2>6. QED
      BY <2>2, <2>3, <2>4, <2>5
  <1>3. 0 \in Reached
    <2>1. Instructions(c, m, 0 * 2) = m
      <3>1. Instructions(c, m, 0) = m
        BY InstructionsByOne
      <3>2. 0 * 2 = 0
        OBVIOUS
      <3>3. QED
        BY <3>1, <3>2
    <2>2. addForLoopStepOneTermSum(m.regs[0].n, 0) = 0
      BY <1>2, TermSums
    <2>3. m.regs[0].n + 0 = m.regs[0].n /\ m.regs[a].n + 0 = m.regs[a].n
      BY <1>2
    <2>4. Wrap(m.regs[a].n) = m.regs[a].n
      BY <1>2, WrapOfInteger
    <2>5. SummedTo(m, m, a, 0)
      BY <1>1, <1>2, <2>2, <2>3, <2>4 DEF SummedTo
    <2>6. QED
      BY <1>1, <2>1, <2>5
  <1>4. ASSUME NEW i \in 0 .. many - 1, i \in Reached
        PROVE  i + 1 \in Reached
    <2>1. i \in Nat /\ m.regs[0].n + i < m.regs[1].n /\ i + 1 \in 0 .. many
      BY <1>2
    <2>2. PICK x : x = Instructions(c, m, i * 2)
      OBVIOUS
    <2>3. OnItsWay(r, c, x) /\ SummedTo(x, m, a, i)
      BY <1>4, <2>2
    <2>4. /\ OnItsWay(r, c, Instructions(c, m, (i + 1) * 2))
          /\ SummedTo(Instructions(c, m, (i + 1) * 2), m, a, i + 1)
      BY <2>1, <2>2, <2>3, SumOneMore
    <2>5. QED
      BY <2>1, <2>4
  <1>5. many \in Reached
    <2> HIDE DEF Reached
    <2>1. QED
      BY <1>3, <1>4, Induction
  <1>6. QED
    BY <1>5

\* What the closed form writes.
SummedUp(b, m, a, last, total) ==
  /\ b \in Machines /\ b.table = m.table /\ b.upvalue = m.upvalue
  /\ \A q \in FrameRegisters :
       b.regs[q] = IF q \in {0, Visible} THEN IntegerValue(last)
                   ELSE IF q = a THEN IntegerValue(total) ELSE m.regs[q]

\* The sum of the last term, and a FORLOOP that ends the loop or wraps.
LEMMA SumEnds ==
  ASSUME HalfAssumption, CapturedAssumption, NEW r \in RangeSet, NEW c \in Codes, NEW a,
         NEW m, Adding(r, c, m, a), NEW many \in Nat, m.regs[0].n + many = m.regs[1].n,
         NEW b, b.pc = Len(c) + 1,
         NEW total, total = Wrap(m.regs[a].n + addForLoopStepOneTermSum(m.regs[0].n, many + 1)),
         SummedUp(b, m, a, m.regs[1].n, total)
  PROVE  /\ OnItsWay(r, c, Instructions(c, m, (many + 1) * 2))
         /\ b = Instructions(c, m, (many + 1) * 2) \/ StopsAtEnd(c, b)
  <1> DEFINE x == Instructions(c, m, many * 2)
             e == ExecuteInstruction(c, x)
             f == ExecuteInstruction(c, e)
             S(k) == addForLoopStepOneTermSum(m.regs[0].n, k)
  <1> USE DEF SummedUp
  <1>1. OnItsWay(r, c, x) /\ SummedTo(x, m, a, many)
    <2>1. m.regs[0].n + many <= m.regs[1].n
      <3>1. m \in Machines /\ Holds(m, 0 .. 2)
        BY DEF Adding, OnItsWay
      <3>2. m.regs[1].n \in Int
        BY <3>1, ControlsAreIntegers
      <3>3. QED
        BY <3>2
    <2>2. QED
      BY <2>1, SumTrace
  <1>2. /\ m \in Machines /\ Holds(m, 0 .. 2) /\ MatchAdd(c) /\ Len(c) = 2
        /\ m.regs[0].n \in Int /\ m.regs[a].n \in Int /\ m.regs[2].n = 1
        /\ m.regs[1].n \in Integers64 /\ m.regs[1].n \in Int
        /\ a \in FrameRegisters \ {0, 1, 2, Visible} /\ {0, 1, 2, Visible} \subseteq FrameRegisters
    <2>1. m \in Machines /\ Holds(m, 0 .. 2) /\ MatchAdd(c) /\ m.regs[2].n = 1
      BY DEF Adding, OnItsWay
    <2>2. /\ m.regs[0].n \in Int /\ m.regs[1].n \in Integers64 /\ m.regs[1].n \in Int
      BY <2>1, ControlsAreIntegers
    <2>3. /\ m.regs[a].n \in Int /\ Len(c) = 2 /\ {0, 1, 2, Visible} \subseteq FrameRegisters
          /\ a \in FrameRegisters \ {0, 1, 2, Visible}
      BY AddInstruction
    <2>4. QED
      BY <2>1, <2>2, <2>3
  <1>3. S(many) \in Int /\ S(many + 1) = S(many) + (m.regs[0].n + many) /\ S(many + 1) \in Int
    <2>1. S(many) \in Int /\ S(many + 1) = S(many) + (m.regs[0].n + many)
      BY <1>2, TermSums
    <2>2. QED
      BY <1>2, <2>1
  <1> HIDE DEF S, x
  <1>4. Wrap(m.regs[a].n + S(many)) \in Integers64
    BY <1>2, <1>3, WrapInRange
  <1>5. /\ x.pc = 1 /\ x.table = m.table /\ x.upvalue = m.upvalue
        /\ x.regs[0] = IntegerValue(m.regs[1].n) /\ x.regs[Visible] = IntegerValue(m.regs[1].n)
        /\ x.regs[a] = IntegerValue(Wrap(m.regs[a].n + S(many)))
        /\ \A q \in FrameRegisters \ {0, Visible, a} : x.regs[q] = m.regs[q]
    BY <1>1 DEF SummedTo, S
  <1>6. /\ x.regs[0].n = m.regs[1].n /\ x.regs[a].n = Wrap(m.regs[a].n + S(many))
        /\ IsInteger(x.regs[a]) /\ x.regs[1] = m.regs[1] /\ x.regs[2] = m.regs[2]
    <2>1. IntegerValue(m.regs[1].n).n = m.regs[1].n
      BY <1>2, IntegerFacts
    <2>2. /\ IntegerValue(Wrap(m.regs[a].n + S(many))).n = Wrap(m.regs[a].n + S(many))
          /\ IsInteger(IntegerValue(Wrap(m.regs[a].n + S(many))))
      BY <1>4, IntegerFacts
    <2>3. 1 \in FrameRegisters \ {0, Visible, a} /\ 2 \in FrameRegisters \ {0, Visible, a}
      BY <1>2 DEF Visible
    <2>4. QED
      BY <1>5, <2>1, <2>2, <2>3
  <1>7. Adding(r, c, x, a)
    BY <1>1, <1>2, <1>5, <1>6 DEF Adding
  <1>8. PICK t : t = Wrap(x.regs[a].n + x.regs[0].n)
    OBVIOUS
  <1>9. /\ e \in Machines /\ OnItsWay(r, c, e) /\ Writes(e, x, a, IntegerValue(t))
        /\ t \in Integers64 /\ e.pc = 2
    BY <1>7, <1>8, AddInstruction
  <1>10. t = total
    <2>1. t = Wrap(Wrap(m.regs[a].n + S(many)) + m.regs[1].n)
      BY <1>6, <1>8
    <2>2. (m.regs[a].n + S(many)) + m.regs[1].n = m.regs[a].n + S(many + 1)
      BY <1>2, <1>3
    <2>3. total = Wrap(m.regs[a].n + S(many + 1))
      BY DEF S
    <2>4. m.regs[a].n + S(many) \in Int
      BY <1>2, <1>3
    <2>5. QED
      BY <1>2, <2>1, <2>2, <2>3, <2>4, WrapLater
  <1>11. f = Instructions(c, m, (many + 1) * 2) /\ OnItsWay(r, c, f)
    <2>1. PICK k \in Nat : k = many * 2
      OBVIOUS
    <2>2. x = Instructions(c, m, k) /\ x.pc \in 1 .. Len(c) /\ e.pc \in 1 .. Len(c)
      BY <1>2, <1>5, <1>9, <2>1 DEF x
    <2>3. e = Instructions(c, m, k + 1)
      BY <1>1, <2>2, OneMore
    <2>4. PICK l \in Nat : l = k + 1
      OBVIOUS
    <2> HIDE DEF e
    <2>5. ExecuteInstruction(c, e) = Instructions(c, m, l + 1) /\ OnItsWay(r, c, ExecuteInstruction(c, e))
      BY <1>9, <2>2, <2>3, <2>4, OneMore
    <2>6. l + 1 = (many + 1) * 2
      BY <2>1, <2>4
    <2>7. QED
      BY <2>5, <2>6
  <1> HIDE DEF e
  <1>12. /\ e.table = m.table /\ e.upvalue = m.upvalue
         /\ \A q \in FrameRegisters : e.regs[q] = IF q = a THEN IntegerValue(total) ELSE x.regs[q]
    BY <1>5, <1>9, <1>10 DEF Writes
  <1>13. e.regs[0] = x.regs[0] /\ e.regs[1] = m.regs[1] /\ e.regs[2] = m.regs[2] /\ Holds(e, 0 .. 2)
    <2>1. Holds(e, 0 .. 2)
      BY <1>9 DEF OnItsWay
    <2>2. QED
      BY <1>2, <1>6, <1>12, <2>1
  <1>14. PICK next : next = Wrap(e.regs[0].n + e.regs[2].n)
    OBVIOUS
  <1>15. next = Wrap(m.regs[1].n + 1)
    BY <1>2, <1>6, <1>13, <1>14
  <1>16. CASE m.regs[1].n = MaxInteger
    <2>1. b.regs[1] = m.regs[1] /\ b.regs[2] = m.regs[2]
      BY <1>2 DEF Visible
    <2>2. MaxInteger > MaxInteger - 1
      BY IntegersAreIntegers
    <2>3. StopsAtEnd(c, b)
      BY <1>2, <1>16, <2>1, <2>2 DEF StopsAtEnd
    <2>4. QED
      BY <1>11, <2>3
  <1>17. CASE m.regs[1].n # MaxInteger
    <2>1. m.regs[1].n + 1 \in Integers64
      BY <1>2, <1>17, IntegersAreIntegers
    <2>2. next = m.regs[1].n + 1
      BY <1>15, <2>1, WrapOfInteger
    <2>3. ~forIntegerLoopContinues(next, e.regs[1].n, e.regs[2].n)
      BY <1>2, <1>13, <2>2 DEF forIntegerLoopContinues
    <2>4. /\ f \in Machines /\ f.table = e.table /\ f.upvalue = e.upvalue
          /\ f.pc = Len(c) + 1 /\ f.regs = e.regs
      <3>1. e \in Machines /\ e.pc = Len(c) /\ Holds(e, 0 .. 2)
        BY <1>2, <1>9, <1>13
      <3>2. QED
        BY <1>14, <2>3, <3>1, ForLoopStep
    <2>5. \A q \in FrameRegisters : b.regs[q] = f.regs[q]
      BY <1>2, <1>5, <1>12, <2>4
    <2>6. b = f
      BY <1>12, <2>4, <2>5, MachineEqual
    <2>7. QED
      BY <1>11, <2>6
  <1>18. QED
    BY <1>16, <1>17

\* The batch that is summed in one go is as many instructions
\* (tryExecuteAddForLoopStepOneBatch), unless the limit is a step from the
\* last integer, where FORLOOP wraps and goes on.
LEMMA SumOutcome ==
  ASSUME HalfAssumption, CapturedAssumption, NEW r \in RangeSet, NEW c \in Codes, NEW a,
         NEW m, Adding(r, c, m, a), NEW max \in Nat, NEW ok \in Nat
  PROVE  Outcome(r, c, m, 2, max, tryExecuteAddForLoopStepOneBatch(c, m, max, ok))
  <1> DEFINE index == m.regs[0].n
             limit == m.regs[1].n
             count == addForLoopStepOneBatchIterations(index, limit, max)
             last  == index + count.n - (IF count.exits THEN 1 ELSE 0)
             total == Wrap(m.regs[a].n + addForLoopStepOneTermSum(index, count.n))
             b     == tryExecuteAddForLoopStepOneBatch(c, m, max, ok)
             p     == IF count.exits THEN Len(c) + 1 ELSE 1
             x     == Put(Put(Put(m, a, IntegerValue(total)), 0, IntegerValue(last)), Visible, IntegerValue(last))
  <1>1. /\ m \in Machines /\ Holds(m, 0 .. 2) /\ MatchAdd(c) /\ Len(c) = 2 /\ a = c[1].a
        /\ index \in Int /\ m.regs[a].n \in Int /\ m.regs[2].n = 1 /\ index \in Integers64
        /\ limit \in Integers64 /\ limit \in Int /\ index <= limit
        /\ a \in FrameRegisters \ {0, 1, 2, Visible} /\ {0, 1, 2, Visible} \subseteq FrameRegisters
    <2>1. m \in Machines /\ Holds(m, 0 .. 2) /\ MatchAdd(c) /\ m.regs[2].n = 1 /\ m.pc = 1
          /\ OnItsWay(r, c, m) /\ a = c[1].a
      BY DEF Adding, OnItsWay
    <2>2. /\ m.regs[0].n \in Int /\ m.regs[1].n \in Integers64 /\ m.regs[1].n \in Int
          /\ m.regs[0].n \in Integers64
      BY <2>1, ControlsAreIntegers
    <2>3. /\ m.regs[a].n \in Int /\ Len(c) = 2 /\ {0, 1, 2, Visible} \subseteq FrameRegisters
          /\ a \in FrameRegisters \ {0, 1, 2, Visible}
      BY AddInstruction
    <2>4. Continues(r, index) /\ limit = forIntegerLimitValue(r.limit, r.step) /\ r.step = 1
      BY <2>1, <2>3 DEF OnItsWay
    <2>5. index <= limit
      BY <2>4 DEF Continues, forIntegerLoopContinues
    <2>6. QED
      BY <2>1, <2>2, <2>3, <2>5
  <1>2. /\ count.n \in Nat /\ count.n <= max
        /\ count.exits => count.n = (limit - index) + 1 /\ last = limit
        /\ ~count.exits => count.n = max /\ index + count.n <= limit /\ last = index + count.n
        /\ count.exits \in BOOLEAN /\ last \in Integers64
    <2>1. CASE limit - index < max
      <3>1. count = [n |-> limit - index + 1, exits |-> TRUE]
        BY <1>1, <2>1 DEF addForLoopStepOneBatchIterations
      <3>2. QED
        BY <1>1, <2>1, <3>1
    <2>2. CASE ~(limit - index < max)
      <3>1. count = [n |-> max, exits |-> FALSE]
        BY <1>1, <2>2 DEF addForLoopStepOneBatchIterations
      <3>2. index + max <= limit
        BY <1>1, <2>2
      <3>3. index + max \in Integers64
        BY <1>1, <3>2, IntegersAreIntegers
      <3>4. QED
        BY <1>1, <3>1, <3>2, <3>3
    <2>3. QED
      BY <2>1, <2>2
  <1>3. total \in Integers64 /\ IntegerValue(total) \in LoopValues /\ IntegerValue(last) \in LoopValues
    <2>1. addForLoopStepOneTermSum(index, count.n) \in Int
      BY <1>1, <1>2, TermSums
    <2>2. total \in Integers64
      BY <1>1, <2>1, WrapInRange
    <2>3. QED
      BY <1>2, <2>2, IntegerFacts
  <1>4. b = [Batch(m, ok) EXCEPT !.n = count.n, !.m = [x EXCEPT !.pc = p]]
    BY <1>1 DEF tryExecuteAddForLoopStepOneBatch
  <1> HIDE DEF total, last, count, b
  <1>5. /\ x \in Machines /\ x.pc = m.pc /\ x.table = m.table /\ x.upvalue = m.upvalue
        /\ \A q \in FrameRegisters : x.regs[q] = IF q \in {0, Visible} THEN IntegerValue(last)
              ELSE IF q = a THEN IntegerValue(total) ELSE m.regs[q]
    <2> DEFINE u == Put(m, a, IntegerValue(total))
               v == Put(u, 0, IntegerValue(last))
    <2>1. /\ u \in Machines /\ u.pc = m.pc /\ u.table = m.table /\ u.upvalue = m.upvalue
          /\ \A q \in FrameRegisters : u.regs[q] = IF q = a THEN IntegerValue(total) ELSE m.regs[q]
      <3>1. m \in Machines /\ a \in FrameRegisters /\ IntegerValue(total) \in LoopValues
        BY <1>1, <1>3
      <3>2. QED
        BY <3>1, PutFields
    <2> HIDE DEF u
    <2>2. /\ v \in Machines /\ v.pc = u.pc /\ v.table = u.table /\ v.upvalue = u.upvalue
          /\ \A q \in FrameRegisters : v.regs[q] = IF q = 0 THEN IntegerValue(last) ELSE u.regs[q]
      BY <1>1, <1>3, <2>1, PutFields
    <2> HIDE DEF v
    <2>3. /\ Put(v, Visible, IntegerValue(last)) \in Machines
          /\ Put(v, Visible, IntegerValue(last)).pc = v.pc
          /\ Put(v, Visible, IntegerValue(last)).table = v.table
          /\ Put(v, Visible, IntegerValue(last)).upvalue = v.upvalue
          /\ \A q \in FrameRegisters : Put(v, Visible, IntegerValue(last)).regs[q]
                = IF q = Visible THEN IntegerValue(last) ELSE v.regs[q]
      BY <1>1, <1>3, <2>2, PutFields
    <2>4. x = Put(v, Visible, IntegerValue(last))
      BY DEF u, v
    <2>5. QED
      BY <1>1, <2>1, <2>2, <2>3, <2>4
  <1> HIDE DEF x
  <1> DEFINE y == [x EXCEPT !.pc = p]
  <1>6. p \in Nat
    BY <1>1, <1>2
  <1> HIDE DEF p
  <1>7. /\ y \in Machines /\ y.pc = p /\ y.table = m.table /\ y.upvalue = m.upvalue /\ y.regs = x.regs
    BY <1>5, <1>6 DEF Machines
  <1>8. b.n = count.n /\ b.m = y
    BY <1>4 DEF Batch
  <1> HIDE DEF y
  <1>9. CASE count.exits
    <2>1. PICK many \in Nat : many = limit - index
      BY <1>1
    <2>2. /\ index + many = limit /\ count.n = many + 1 /\ last = index + many
      BY <1>1, <1>2, <1>9, <2>1
    <2>3. y.pc = Len(c) + 1
      BY <1>7, <1>9 DEF p
    <2>4. total = Wrap(m.regs[a].n + addForLoopStepOneTermSum(m.regs[0].n, many + 1))
      BY <2>2 DEF total
    <2>5. SummedUp(y, m, a, m.regs[1].n, total)
      BY <1>5, <1>7, <2>1, <2>2 DEF SummedUp
    <2>6. /\ OnItsWay(r, c, Instructions(c, m, (many + 1) * 2))
          /\ y = Instructions(c, m, (many + 1) * 2) \/ StopsAtEnd(c, y)
      BY <2>1, <2>2, <2>3, <2>4, <2>5, SumEnds
    <2>7. QED
      BY <1>2, <1>8, <2>2, <2>6 DEF Outcome, b
  <1>10. CASE ~count.exits
    <2>1. PICK many \in Nat : many = count.n
      BY <1>2
    <2>2. /\ OnItsWay(r, c, Instructions(c, m, many * 2))
          /\ SummedTo(Instructions(c, m, many * 2), m, a, many)
      BY <1>2, <1>10, <2>1, SumTrace
    <2>3. PICK z : z = Instructions(c, m, many * 2)
      OBVIOUS
    <2>4. z \in Machines /\ SummedTo(z, m, a, many) /\ last = m.regs[0].n + many
      BY <1>2, <1>10, <2>1, <2>2, <2>3 DEF OnItsWay
    <2>5. total = Wrap(m.regs[a].n + addForLoopStepOneTermSum(m.regs[0].n, many)) /\ p = 1
      BY <1>10, <2>1 DEF total, p
    <2>6. z.pc = y.pc /\ z.table = y.table /\ z.upvalue = y.upvalue
          /\ \A q \in FrameRegisters : z.regs[q] = y.regs[q]
      BY <1>5, <1>7, <2>4, <2>5 DEF SummedTo
    <2>7. y = z
      BY <1>7, <2>4, <2>6, MachineEqual
    <2>8. QED
      BY <1>2, <1>8, <2>1, <2>2, <2>3, <2>7 DEF Outcome, b
  <1>11. QED
    BY <1>2, <1>9, <1>10

\* p is before FORLOOP; f is p after it, and e the batch a after it.
EndsAs(r, c, m, k, p, a, e, f) ==
  /\ f = Instructions(c, m, k + 1) /\ OnItsWay(r, c, f)
  /\ f.table = p.table /\ f.upvalue = p.upvalue
  /\ \A q \in FrameRegisters \ {0, Visible} : f.regs[q] = p.regs[q]
  /\ e \in Batches /\ e.n = a.n + 1
  /\ e.sum = a.sum /\ e.temp = a.temp /\ e.mod = a.mod /\ e.callee = a.callee
  /\ e.ok = a.ok /\ e.cancelled = a.cancelled
  /\ e.m.regs = a.m.regs /\ e.m.table = a.m.table /\ e.m.upvalue = a.m.upvalue
  /\ e.m.pc = f.pc
  /\ \/ /\ e.on /\ f.pc = 1 /\ e.visible = e.index
        /\ f.regs[0] = IntegerValue(e.index) /\ f.regs[Visible] = IntegerValue(e.index)
     \/ ~e.on /\ f.regs = p.regs /\ e.index = a.index /\ e.visible = a.visible

\* Advance decides and counts as the FORLOOP of the round does.
LEMMA EndOfRound ==
  ASSUME HalfAssumption, CapturedAssumption, NEW r \in RangeSet, NEW c \in Codes, NEW m,
         NEW k \in Nat, NEW p, p = Instructions(c, m, k), OnItsWay(r, c, p), p.pc = Len(c),
         NEW a \in Batches, a.on, a.index = p.regs[0].n,
         Holds(a.m, 0 .. 2), a.m.regs[1] = p.regs[1], a.m.regs[2] = p.regs[2],
         NEW e, e = Advance(c, a), NEW f, f = ExecuteInstruction(c, p)
  PROVE  EndsAs(r, c, m, k, p, a, e, f)
  <1>1. p \in Machines /\ Holds(p, 0 .. 2)
    BY DEF OnItsWay
  <1>2. {0, 1, 2, Visible} \subseteq FrameRegisters
    BY <1>1, ControlsAreIntegers
  <1>3. PICK next : next = Wrap(a.index + a.m.regs[2].n)
    OBVIOUS
  <1>4. AdvancedTo(e, c, a, next) /\ next \in Integers64
    BY <1>3, AdvanceFields
  <1>5. next = Wrap(p.regs[0].n + p.regs[2].n)
    BY <1>3
  <1>6. /\ f \in Machines /\ f.table = p.table /\ f.upvalue = p.upvalue
        /\ forIntegerLoopContinues(next, p.regs[1].n, p.regs[2].n) =>
             /\ f.pc = 1
             /\ \A q \in FrameRegisters :
                  f.regs[q] = IF q \in {0, Visible} THEN IntegerValue(next) ELSE p.regs[q]
        /\ ~forIntegerLoopContinues(next, p.regs[1].n, p.regs[2].n) =>
             f.pc = Len(c) + 1 /\ f.regs = p.regs
    BY <1>1, <1>5, ForLoopStep
  <1>7. p.pc \in 1 .. Len(c)
    BY CodeFacts
  <1>8. f = Instructions(c, m, k + 1) /\ OnItsWay(r, c, f)
    BY <1>7, OneMore
  <1>9. CASE forIntegerLoopContinues(next, p.regs[1].n, p.regs[2].n)
    <2>1. e.on /\ e.index = next /\ e.visible = next /\ e.m.pc = 1
      BY <1>4, <1>9 DEF AdvancedTo
    <2>2. /\ f.pc = 1 /\ f.regs[0] = IntegerValue(next) /\ f.regs[Visible] = IntegerValue(next)
          /\ \A q \in FrameRegisters \ {0, Visible} : f.regs[q] = p.regs[q]
      BY <1>2, <1>6, <1>9
    <2>3. QED
      BY <1>4, <1>6, <1>8, <2>1, <2>2 DEF AdvancedTo, EndsAs
  <1>10. CASE ~forIntegerLoopContinues(next, p.regs[1].n, p.regs[2].n)
    <2>1. ~e.on /\ e.index = a.index /\ e.visible = a.visible /\ e.m.pc = Len(c) + 1
      BY <1>4, <1>10 DEF AdvancedTo
    <2>2. f.pc = Len(c) + 1 /\ f.regs = p.regs
      BY <1>6, <1>10
    <2>3. QED
      BY <1>4, <1>6, <1>8, <2>1, <2>2 DEF AdvancedTo, EndsAs
  <1>11. QED
    BY <1>9, <1>10

\* A single round: the machine has what the instructions have written.
LEMMA SingleRound ==
  ASSUME HalfAssumption, CapturedAssumption, NEW r \in RangeSet, NEW c \in Codes, NEW m,
         NEW k \in Nat, k + 1 = Len(c), NEW p, p = Instructions(c, m, k), OnItsWay(r, c, p),
         p.pc = Len(c), NEW a \in Batches, a.on, a.index = p.regs[0].n, a.n = 0,
         a.m.table = p.table, a.m.upvalue = p.upvalue,
         \A q \in FrameRegisters : a.m.regs[q] = p.regs[q],
         NEW e, e = Advance(c, a), NEW max \in Nat, 1 <= max
  PROVE  Outcome(r, c, m, Len(c), max, IF e.on THEN Publish(e) ELSE e)
  <1>1. p \in Machines /\ Holds(p, 0 .. 2)
    BY DEF OnItsWay
  <1>2. {0, 1, 2, Visible} \subseteq FrameRegisters
    BY <1>1, ControlsAreIntegers
  <1>3. \A q \in 0 .. 2 : a.m.regs[q] = p.regs[q]
    BY <1>2
  <1>4. Holds(a.m, 0 .. 2) /\ a.m.regs[1] = p.regs[1] /\ a.m.regs[2] = p.regs[2]
    BY <1>1, <1>3 DEF Holds
  <1>5. PICK f : f = ExecuteInstruction(c, p)
    OBVIOUS
  <1>6. EndsAs(r, c, m, k, p, a, e, f)
    BY <1>4, <1>5, EndOfRound
  <1>7. f = Instructions(c, m, Len(c)) /\ OnItsWay(r, c, f) /\ f \in Machines
    BY <1>6 DEF EndsAs, OnItsWay
  <1>8. e \in Batches /\ e.n = 1 /\ e.m \in Machines /\ e.index \in Integers64
    BY <1>6, BatchFields DEF EndsAs
  <1>9. CASE e.on
    <2>1. PublishedAs(Publish(e), e)
      <3>1. e.visible \in Integers64
        BY <1>6, <1>8, <1>9 DEF EndsAs
      <3>2. QED
        BY <1>8, <3>1, PublishFields
    <2>2. /\ Publish(e).m.pc = f.pc /\ Publish(e).m.table = f.table
          /\ Publish(e).m.upvalue = f.upvalue
          /\ \A q \in FrameRegisters : Publish(e).m.regs[q] = f.regs[q]
      BY <1>6, <1>9, <2>1 DEF EndsAs, PublishedAs
    <2>3. Publish(e).m = f
      <3>1. Publish(e).m \in Machines
        BY <2>1, BatchFields DEF PublishedAs
      <3>2. QED
        BY <1>7, <2>2, <3>1, MachineEqual
    <2>4. Publish(e).n = 1
      BY <1>8, <2>1 DEF PublishedAs
    <2>5. 1 * Len(c) = Len(c)
      OBVIOUS
    <2>6. QED
      BY <1>7, <1>9, <2>3, <2>4, <2>5 DEF Outcome
  <1>10. CASE ~e.on
    <2>1. /\ e.m.pc = f.pc /\ e.m.table = f.table /\ e.m.upvalue = f.upvalue
          /\ \A q \in FrameRegisters : e.m.regs[q] = f.regs[q]
      BY <1>6, <1>10 DEF EndsAs
    <2>2. e.m = f
      BY <1>7, <1>8, <2>1, MachineEqual
    <2>3. 1 * Len(c) = Len(c)
      OBVIOUS
    <2>4. QED
      BY <1>7, <1>8, <1>10, <2>2, <2>3 DEF Outcome
  <1>11. QED
    BY <1>9, <1>10

\* Rounds keep what every round keeps, and there are no more than max.
LEMMA IterateKeeps ==
  ASSUME NEW batch, NEW c, NEW Kept, NEW b \in Kept, b.n = 0, NEW max \in Nat,
         \A x \in Kept : x.n \in Nat,
         \A x \in Kept : x.on =>
           Round(batch, c, x) \in Kept /\ Round(batch, c, x).n <= x.n + 1
  PROVE  Iterate(batch, c, b, max) \in Kept /\ Iterate(batch, c, b, max).n <= max
  <1> DEFINE At(i)   == Iterate(batch, c, b, i)
             Reached == {i \in 0 .. max : At(i) \in Kept /\ At(i).n <= i}
  <1>1. 0 \in Reached
    BY IterateByOne
  <1>2. ASSUME NEW i \in 0 .. max, i < max, i \in Reached
        PROVE  i + 1 \in Reached
    <2>1. PICK x : x = At(i)
      OBVIOUS
    <2>2. x \in Kept /\ x.n <= i /\ x.n \in Nat
      BY <1>2, <2>1
    <2>3. At(i + 1) = NextRound(batch, c, x)
      BY <1>2, <2>1, IterateByOne
    <2>4. At(i + 1) \in Kept /\ (At(i + 1).n <= x.n + 1 \/ At(i + 1).n = x.n)
      BY <2>2, <2>3 DEF NextRound
    <2> HIDE DEF At
    <2>5. At(i + 1).n \in Nat
      BY <2>4
    <2>6. At(i + 1).n <= i + 1
      BY <1>2, <2>2, <2>4, <2>5
    <2>7. QED
      BY <1>2, <2>4, <2>6
  <1>3. max \in Reached
    <2> HIDE DEF Reached
    <2>1. \A i \in 0 .. max : i < max /\ i \in Reached => i + 1 \in Reached
      BY <1>2
    <2>2. QED
      BY <1>1, <2>1, Induction
  <1>4. QED
    BY <1>3

\* Where every batch starts.
Started(r, c, m, b) ==
  /\ b \in Batches /\ b.m = m /\ b.n = 0 /\ b.on /\ ~b.cancelled
  /\ b.index = m.regs[0].n /\ b.visible = m.regs[0].n
  /\ m \in Machines /\ OnItsWay(r, c, m) /\ m.pc = 1 /\ m.regs[Visible] = m.regs[0]
  /\ Holds(m, 0 .. 2) /\ IsInteger(m.regs[Visible])
  /\ m.regs[0].n \in Integers64

\* A batch before its first round, with no more fields
LEMMA Starts ==
  ASSUME HalfAssumption, CapturedAssumption, NEW r \in RangeSet, NEW c \in Codes, Len(c) > 1,
         NEW m, OnItsWay(r, c, m), m.pc = 1, NEW ok \in Nat,
         NEW b, b = Batch(m, ok)
  PROVE  Started(r, c, m, b) /\ b.ok = ok
  <1>1. m \in Machines /\ Holds(m, 0 .. 2) /\ m.regs[Visible] = m.regs[0]
    BY DEF OnItsWay
  <1>2. m.regs[0].n \in Integers64 /\ IsInteger(m.regs[Visible])
    BY <1>1, ControlsAreIntegers DEF Holds
  <1>3. /\ b \in Batches /\ b.m = m /\ b.n = 0 /\ b.on /\ ~b.cancelled /\ b.ok = ok
        /\ b.index = m.regs[0].n /\ b.visible = m.regs[0].n
    BY <1>1, FreshBatch
  <1>4. QED
    BY <1>1, <1>2, <1>3 DEF Started

\* or with a sum read from its register.
LEMMA StartsWithSum ==
  ASSUME HalfAssumption, CapturedAssumption, NEW r \in RangeSet, NEW c \in Codes, Len(c) > 1,
         NEW m, OnItsWay(r, c, m), m.pc = 1, NEW ok \in Nat, NEW sum \in Int,
         NEW b, b = [Batch(m, ok) EXCEPT !.sum = sum]
  PROVE  Started(r, c, m, b) /\ b.ok = ok /\ b.sum = sum
  <1>1. PICK a : a = Batch(m, ok)
    OBVIOUS
  <1>2. Started(r, c, m, a) /\ a.ok = ok
    BY <1>1, Starts
  <1>3. b = [a EXCEPT !.sum = sum]
    BY <1>1
  <1>4. QED
    BY <1>2, <1>3 DEF Started, Batches

\* Before its first round a batch is in step.
LEMMA StartsInStep ==
  ASSUME NEW r, NEW c, NEW m, NEW b, Started(r, c, m, b), NEW size \in Nat
  PROVE  InStep(r, c, m, size, b)
  <1>1. 0 * size = 0
    OBVIOUS
  <1>2. Instructions(c, m, 0) = m
    BY InstructionsByOne
  <1>3. QED
    BY <1>1, <1>2 DEF Started, InStep

\* A batch in step may be published.
LEMMA InStepOutcome ==
  ASSUME NEW r, NEW c, NEW m, NEW size, NEW b, InStep(r, c, m, size, b),
         NEW max, b.n <= max
  PROVE  Outcome(r, c, m, size, max, b)
  BY BatchFields DEF InStep, Outcome

\* A batch that is refused has done nothing.
LEMMA RefusedOutcome ==
  ASSUME NEW r, NEW c, NEW m, NEW size, NEW max \in Nat, NEW ok
  PROVE  Outcome(r, c, m, size, max, Refused(m, ok)) /\ Refused(m, ok).n = 0
         /\ ~Refused(m, ok).cancelled
  BY DEF Outcome, Refused, Batch

-----------------------------------------------------------------------------
(* Add *)

\* A batch of Add is as many instructions, summed in one go or not.
LEMMA AddBatch ==
  ASSUME HalfAssumption, CapturedAssumption, NEW r \in RangeSet, NEW c \in Codes, NEW m,
         OnItsWay(r, c, m), m.pc = 1, MatchAdd(c), NEW max \in Nat, NEW ok \in Nat
  PROVE  Outcome(r, c, m, 2, max, TryExecuteAddForLoopBatch(c, m, max, ok))
  <1> DEFINE a == c[1].a
             B == TryExecuteAddForLoopBatch(c, m, max, ok)
  <1>1. /\ Len(c) = 2 /\ c[1].op = "ADD" /\ c[1] \in BodyInstructions /\ a \in FrameRegisters
    BY AddCode, BodyFacts
  <1>2. m \in Machines /\ Holds(m, 0 .. 2) /\ m.regs[Visible] = m.regs[0] /\ m.regs[a] \in LoopValues
    BY <1>1, MachineFields DEF OnItsWay
  <1>3. CASE ~PrepareAddForLoopBatch(c) \/ ~Holds(m, Control \cup {a})
    BY <1>3, RefusedOutcome DEF TryExecuteAddForLoopBatch
  <1>4. CASE /\ PrepareAddForLoopBatch(c) /\ Holds(m, Control \cup {a})
             /\ m.regs[2].n = 1 /\ m.regs[0].n >= 0
    <2>1. Adding(r, c, m, a)
      BY <1>4 DEF Adding, Holds
    <2>2. B = tryExecuteAddForLoopStepOneBatch(c, m, max, ok)
      BY <1>2, <1>4 DEF TryExecuteAddForLoopBatch
    <2>3. Outcome(r, c, m, 2, max, tryExecuteAddForLoopStepOneBatch(c, m, max, ok))
      BY <2>1, SumOutcome
    <2>4. QED
      BY <2>2, <2>3
  <1>5. CASE /\ PrepareAddForLoopBatch(c) /\ Holds(m, Control \cup {a})
             /\ ~(m.regs[2].n = 1 /\ m.regs[0].n >= 0)
    <2>1. IsInteger(m.regs[a]) /\ m.regs[a].n \in Int
      BY <1>2, <1>5, IntegerFacts, IntegersAreIntegers DEF Holds
    <2>2. PICK b : b = [Batch(m, ok) EXCEPT !.sum = m.regs[a].n]
      OBVIOUS
    <2>3. Started(r, c, m, b) /\ b.sum = m.regs[a].n
      <3>1. Len(c) > 1
        BY <1>1
      <3>2. QED
        BY <2>1, <2>2, <3>1, StartsWithSum
    <2>4. AddInStep(r, c, m, b) /\ b.n = 0
      BY <2>1, <2>3, StartsInStep DEF AddInStep, Started
    <2> DEFINE Kept == {x \in Batches : AddInStep(r, c, m, x)}
    <2>5. b \in Kept /\ \A x \in Kept : x.n \in Nat
      BY <2>3, <2>4, BatchFields DEF Started
    <2>6. ASSUME NEW x \in Kept, x.on
          PROVE  Round("Add", c, x) \in Kept /\ Round("Add", c, x).n <= x.n + 1
      <3>1. Round("Add", c, x) = AddRound(c, x)
        BY DEF Round
      <3>2. AddInStep(r, c, m, AddRound(c, x)) /\ AddRound(c, x).n = x.n + 1
        BY <1>5, <2>6, AddRoundInStep
      <3>3. AddRound(c, x) \in Batches /\ x.n \in Nat
        BY <3>2, BatchFields DEF AddInStep, InStep
      <3>4. QED
        BY <3>1, <3>2, <3>3
    <2> HIDE DEF Kept
    <2>7. Iterate("Add", c, b, max) \in Kept /\ Iterate("Add", c, b, max).n <= max
      BY <2>4, <2>5, <2>6, IterateKeeps
    <2>8. B = Iterate("Add", c, b, max)
      BY <1>2, <1>5, <2>2 DEF TryExecuteAddForLoopBatch
    <2>9. QED
      BY <2>7, <2>8, InStepOutcome DEF Kept, AddInStep
  <1>6. QED
    BY <1>3, <1>4, <1>5

\* With the machine of the round's instructions written to a batch.
LEMMA BatchWith ==
  ASSUME NEW b \in Batches, NEW w \in Machines, NEW a, a = [b EXCEPT !.m = w]
  PROVE  /\ a \in Batches /\ a.m = w /\ a.index = b.index /\ a.visible = b.visible
         /\ a.sum = b.sum /\ a.temp = b.temp /\ a.mod = b.mod /\ a.callee = b.callee
         /\ a.n = b.n /\ a.on = b.on /\ a.ok = b.ok /\ a.cancelled = b.cancelled
  BY DEF Batches

\* So is one round of Add, whatever its operands.
LEMMA AddRoundOutcome ==
  ASSUME HalfAssumption, CapturedAssumption, NEW r \in RangeSet, NEW c \in Codes, NEW m,
         OnItsWay(r, c, m), m.pc = 1, MatchAdd(c), NEW max \in Nat, 1 <= max, NEW ok \in Nat
  PROVE  Outcome(r, c, m, 2, max, TryExecuteAddForLoop(c, m, ok))
  <1> DEFINE x == Value(m, c[1].b)
             y == Value(m, c[1].c)
             one == TryExecuteAddForLoop(c, m, ok)
             b == Batch(m, ok)
             p == ExecuteInstruction(c, m)
             v == IntegerValue(Wrap(x.n + y.n))
             w == Put(m, c[1].a, v)
             a == [b EXCEPT !.m = w]
             e == Advance(c, a)
  <1>1. /\ Len(c) = 2 /\ c[1].op = "ADD" /\ c[1] \in BodyInstructions /\ c[1].a \in FrameRegisters
        /\ c[1].a >= Visible
    BY AddCode, BodyFacts
  <1>2. m \in Machines /\ Holds(m, 0 .. 2) /\ {0, 1, 2, Visible} \subseteq FrameRegisters
    <2>1. m \in Machines /\ Holds(m, 0 .. 2)
      BY DEF OnItsWay
    <2>2. QED
      BY <2>1, ControlsAreIntegers
  <1>3. CASE ~IsInteger(x) \/ ~IsInteger(y)
    <2>1. one = Refused(m, ok)
      BY <1>3 DEF TryExecuteAddForLoop, Refused
    <2>2. QED
      BY <2>1, RefusedOutcome
  <1>4. CASE IsInteger(x) /\ IsInteger(y)
    <2>1. /\ p \in Machines /\ Wrap(x.n + y.n) \in Integers64
          /\ Writes(p, m, c[1].a, v)
      BY <1>1, <1>2, <1>4, PlainCalculationStep, CalculateIs
    <2>2. v \in LoopValues
      BY <2>1, IntegerFacts
    <2>3. m.pc \in 1 .. Len(c) /\ m = Instructions(c, m, 0)
      BY <1>1, InstructionsByOne
    <2>4. p = Instructions(c, m, 1) /\ OnItsWay(r, c, p)
      <3>1. PICK k \in Nat : k = 0
        OBVIOUS
      <3>2. p = Instructions(c, m, k + 1) /\ OnItsWay(r, c, p)
        BY <2>3, <3>1, OneMore
      <3>3. QED
        BY <3>1, <3>2
    <2> HIDE DEF v
    <2>5. /\ w \in Machines /\ w.pc = m.pc /\ w.table = m.table /\ w.upvalue = m.upvalue
          /\ \A q \in FrameRegisters : w.regs[q] = IF q = c[1].a THEN v ELSE m.regs[q]
      BY <1>1, <1>2, <2>2, PutFields
    <2>6. Started(r, c, m, b)
      <3>1. Len(c) > 1
        BY <1>1
      <3>2. QED
        BY <3>1, Starts
    <2> HIDE DEF w, p, b
    <2>7. a \in Batches /\ a.m = w /\ a.index = m.regs[0].n /\ a.n = 0 /\ a.on
      <3>1. b \in Batches /\ b.index = m.regs[0].n /\ b.n = 0 /\ b.on
        BY <2>6 DEF Started
      <3>2. QED
        BY <2>5, <3>1, BatchWith
    <2> HIDE DEF a
    <2>8. /\ p.pc = Len(c) /\ a.m.table = p.table /\ a.m.upvalue = p.upvalue
          /\ \A q \in FrameRegisters : a.m.regs[q] = p.regs[q]
          /\ p.regs[0] = m.regs[0]
      BY <1>1, <1>2, <2>1, <2>5, <2>7 DEF Writes, Visible
    <2>9. Outcome(r, c, m, Len(c), max, IF e.on THEN Publish(e) ELSE e)
      <3>1. a.index = p.regs[0].n
        BY <2>7, <2>8
      <3>2. PICK k \in Nat : k = 1
        OBVIOUS
      <3>3. k + 1 = Len(c) /\ p = Instructions(c, m, k)
        BY <1>1, <2>4, <3>2
      <3>4. PICK g : g = Advance(c, a)
        OBVIOUS
      <3>5. OnItsWay(r, c, p) /\ a \in Batches /\ a.on /\ a.n = 0 /\ p.pc = Len(c)
        BY <2>4, <2>7, <2>8
      <3>6. /\ a.m.table = p.table /\ a.m.upvalue = p.upvalue
            /\ \A q \in FrameRegisters : a.m.regs[q] = p.regs[q]
        BY <2>8
      <3> HIDE DEF one
      <3>7. Outcome(r, c, m, Len(c), max, IF g.on THEN Publish(g) ELSE g)
        BY <3>1, <3>3, <3>4, <3>5, <3>6, SingleRound
      <3>8. QED
        BY <3>4, <3>7
    <2>10. one = IF e.on THEN Publish(e) ELSE e
      BY <1>2, <1>4 DEF TryExecuteAddForLoop, a, b, w, v
    <2>11. QED
      BY <1>1, <2>9, <2>10
  <1>5. QED
    BY <1>3, <1>4

-----------------------------------------------------------------------------
(* t[i] = i *)

\* The body of TableWrite.
LEMMA WriteCode ==
  ASSUME NEW c \in Codes, MatchTableWrite(c)
  PROVE  Len(c) = 2 /\ c[1].op = "SETTABLE" /\ c[1] \in BodyInstructions
  <1>1. PICK t : t = <<"SETTABLE", "FORLOOP">>
    OBVIOUS
  <1>2. DOMAIN t = 1 .. 2 /\ t[1] = "SETTABLE" /\ t = Ops(c)
    BY <1>1 DEF MatchTableWrite
  <1>3. Shaped(c, 2, t)
    BY <1>2, OpsAre
  <1>4. QED
    BY <1>2, <1>3 DEF Shaped

\* A batch whose rounds have been done is still in step when it is over.
LEMMA OverInStep ==
  ASSUME NEW r, NEW c, NEW m, NEW size, NEW b, InStep(r, c, m, size, b),
         NEW a, a = [b EXCEPT !.on = FALSE]
  PROVE  InStep(r, c, m, size, a) /\ a.n = b.n /\ a.m = b.m /\ a.sum = b.sum
  BY DEF InStep, Batches

\* At the start of a round.
AtStart(r, c, m, size, b) ==
  /\ b \in Batches /\ b.m \in Machines /\ b.n \in Nat /\ b.n * size \in Nat
  /\ b.m = Instructions(c, m, b.n * size) /\ OnItsWay(r, c, b.m) /\ b.m.pc = 1
  /\ b.m.pc \in 1 .. Len(c)
  /\ b.index = b.m.regs[0].n /\ b.visible = b.m.regs[0].n
  /\ b.visible \in Integers64 /\ b.visible \in Int
  /\ b.m.regs[Visible] = b.m.regs[0] /\ b.m.regs[0] = IntegerValue(b.visible)
  /\ Holds(b.m, 0 .. 2) /\ IsInteger(b.m.regs[Visible])
  /\ {0, 1, 2, Visible} \subseteq FrameRegisters

\* A batch whose loop goes on is at the start of the body.
LEMMA RoundStarts ==
  ASSUME HalfAssumption, NEW r, NEW c \in Codes, Len(c) > 1, NEW m, NEW size \in Nat,
         NEW b, InStep(r, c, m, size, b), b.on
  PROVE  AtStart(r, c, m, size, b)
  <1>1. /\ b \in Batches /\ b.m \in Machines /\ b.n \in Nat
        /\ b.m = Instructions(c, m, b.n * size) /\ OnItsWay(r, c, b.m) /\ b.m.pc = 1
        /\ b.index = b.m.regs[0].n /\ b.visible = b.m.regs[0].n
    BY BatchFields DEF InStep
  <1>2. b.m.regs[Visible] = b.m.regs[0] /\ Holds(b.m, 0 .. 2)
    BY <1>1 DEF OnItsWay
  <1>3. /\ b.visible \in Integers64 /\ b.visible \in Int /\ b.m.regs[0] = IntegerValue(b.visible)
        /\ IsInteger(b.m.regs[Visible]) /\ {0, 1, 2, Visible} \subseteq FrameRegisters
    BY <1>1, <1>2, ControlsAreIntegers DEF Holds
  <1>4. b.n * size \in Nat /\ 1 \in 1 .. Len(c)
    BY <1>1, CodeFacts
  <1>5. QED
    BY <1>1, <1>2, <1>3, <1>4 DEF AtStart

WriteInStep(r, c, m, b) ==
  InStep(r, c, m, 2, b) /\ b.m.regs[c[1].a] = TableValue(0)

\* A round of TableWrite is its two instructions.
LEMMA WriteRoundInStep ==
  ASSUME HalfAssumption, CapturedAssumption, NEW r \in RangeSet, NEW c \in Codes, NEW m,
         MatchTableWrite(c), NEW b, WriteInStep(r, c, m, b), b.on
  PROVE  WriteInStep(r, c, m, WriteRound(c, b)) /\ WriteRound(c, b).n = b.n + 1
  <1> DEFINE t  == c[1].a
             N  == b.n * 2
             e1 == ExecuteInstruction(c, b.m)
             i  == b.visible
             s  == RawSet(b.m.table, i, IntegerValue(i))
             w  == [b.m EXCEPT !.table = s]
             a  == [b EXCEPT !.m = w]
             e  == Publish(Advance(c, a))
  <1>1. /\ Len(c) = 2 /\ c[1].op = "SETTABLE" /\ c[1] \in BodyInstructions /\ t \in FrameRegisters
        /\ t \notin {0, 1, 2, Visible} /\ c[1].b = R(Visible) /\ c[1].c = R(Visible)
    BY WriteCode, BodyFacts DEF MatchTableWrite, Control, Visible
  <1>2. InStep(r, c, m, 2, b) /\ b.m.regs[t] = TableValue(0)
    BY DEF WriteInStep
  <1>3. /\ b \in Batches /\ b.m \in Machines /\ b.n \in Nat /\ N \in Nat
        /\ b.m = Instructions(c, m, N) /\ OnItsWay(r, c, b.m) /\ b.m.pc = 1
        /\ b.m.pc \in 1 .. Len(c)
        /\ i \in Integers64
        /\ b.m.regs[Visible] = b.m.regs[0] /\ b.m.regs[0] = IntegerValue(i)
        /\ IsInteger(b.m.regs[Visible])
        /\ {0, 1, 2, Visible} \subseteq FrameRegisters
    <2>1. Len(c) > 1 /\ 2 \in Nat
      BY <1>1
    <2>2. AtStart(r, c, m, 2, b)
      BY <1>2, <2>1, RoundStarts
    <2>3. QED
      BY <2>2 DEF AtStart
  <1>4. Value(b.m, c[1].b) = IntegerValue(i) /\ Value(b.m, c[1].c) = IntegerValue(i)
    BY <1>1, <1>3 DEF Value, R
  <1>5. IntegerValue(i) \in LoopValues /\ IsInteger(IntegerValue(i)) /\ IntegerValue(i).n = i
    BY <1>3, IntegerFacts
  <1>6. /\ e1 \in Machines /\ e1.pc = 2 /\ e1.regs = b.m.regs /\ e1.upvalue = b.m.upvalue
        /\ e1.table = s
    <2>1. c[b.m.pc] = c[1]
      BY <1>3
    <2>2. IsInteger(Value(b.m, c[b.m.pc].b)) /\ b.m.regs[c[b.m.pc].a] = TableValue(0)
      BY <1>2, <1>4, <1>5, <2>1
    <2>3. /\ e1 \in Machines /\ e1.pc = b.m.pc + 1 /\ e1.regs = b.m.regs /\ e1.upvalue = b.m.upvalue
          /\ e1.table = RawSet(b.m.table, Value(b.m, c[b.m.pc].b).n, Value(b.m, c[b.m.pc].c))
      BY <1>1, <1>3, <2>1, <2>2, SetTableStep
    <2>4. QED
      BY <1>3, <1>4, <1>5, <2>1, <2>3
  <1>7. e1 = Instructions(c, m, N + 1) /\ OnItsWay(r, c, e1)
    BY <1>3, OneMore
  <1>8. s \in LoopTables
    BY <1>3, <1>5, MachineFields, RawSetTable
  <1>9. WriteRound(c, b) = e
    BY <1>3 DEF WriteRound, Batches, Machines
  <1> HIDE DEF s, e1, N, t
  <1>10. w \in Machines /\ w.pc = b.m.pc /\ w.table = s /\ w.upvalue = b.m.upvalue /\ w.regs = b.m.regs
    BY <1>3, <1>8 DEF Machines
  <1> HIDE DEF w
  <1>11. /\ a \in Batches /\ a.m = w /\ a.index = b.index /\ a.visible = b.visible /\ a.n = b.n
         /\ a.on
    BY <1>3, <1>10, BatchWith
  <1> HIDE DEF a
  <1>12. InStep(r, c, m, 2, e) /\ e.n = b.n + 1 /\ \A q \in FrameRegisters \ {0, Visible} : e.m.regs[q] = e1.regs[q]
    <2>1. e1 = Instructions(c, m, b.n * 2 + (2 - 1))
      BY <1>7 DEF N
    <2>2. /\ e1.regs[0] = b.m.regs[0] /\ e1.regs[Visible] = b.m.regs[0]
          /\ a.m.table = e1.table /\ a.m.upvalue = e1.upvalue
          /\ \A q \in FrameRegisters : a.m.regs[q] = e1.regs[q]
      BY <1>3, <1>6, <1>10, <1>11
    <2>3. Written(r, c, m, 2, b, e1, a)
      BY <1>1, <1>2, <1>6, <1>7, <1>11, <2>1, <2>2 DEF Written
    <2>4. RoundDone(r, c, m, 2, b, e1, a, e)
      BY <2>3, RoundInStep
    <2>5. QED
      BY <2>4 DEF RoundDone
  <1> HIDE DEF e
  <1>13. e.m.regs[t] = TableValue(0)
    BY <1>1, <1>2, <1>6, <1>12
  <1>14. QED
    BY <1>9, <1>12, <1>13 DEF WriteInStep, t

\* A batch of TableWrite is as many instructions, of a compact table too.
LEMMA WriteBatch ==
  ASSUME HalfAssumption, CapturedAssumption, NEW r \in RangeSet, NEW c \in Codes, NEW m,
         OnItsWay(r, c, m), m.pc = 1, MatchTableWrite(c), NEW max \in Nat, NEW ok \in Nat
  PROVE  Outcome(r, c, m, 2, max, TryExecuteTableWriteForLoopBatch(c, m, max, ok))
  <1> DEFINE B == TryExecuteTableWriteForLoopBatch(c, m, max, ok)
             b == Batch(m, ok)
             Kept == {x \in Batches : WriteInStep(r, c, m, x)}
             Dense == Iterate("DenseTableWrite", c, b, max)
             Any   == Iterate("TableWrite", c, b, max)
  <1>1. Len(c) > 1
    <2>1. Len(c) = 2
      BY WriteCode
    <2>2. QED
      BY <2>1
  <1>2. Started(r, c, m, b)
    BY <1>1, Starts
  <1>3. CASE m.regs[c[1].a] # TableValue(0) \/ ~Holds(m, Control)
    BY <1>3, RefusedOutcome DEF TryExecuteTableWriteForLoopBatch
  <1>4. CASE m.regs[c[1].a] = TableValue(0) /\ Holds(m, Control)
    <2>1. b \in Kept /\ b.n = 0 /\ \A x \in Kept : x.n \in Nat
      <3>1. InStep(r, c, m, 2, b) /\ b.m = m /\ b \in Batches /\ b.n = 0
        BY <1>2, StartsInStep DEF Started
      <3>2. WriteInStep(r, c, m, b)
        BY <1>4, <3>1 DEF WriteInStep
      <3>3. QED
        BY <3>1, <3>2, BatchFields
    <2>2. ASSUME NEW x \in Kept, x.on
          PROVE  WriteRound(c, x) \in Kept /\ WriteRound(c, x).n <= x.n + 1
      <3>1. WriteInStep(r, c, m, WriteRound(c, x)) /\ WriteRound(c, x).n = x.n + 1
        BY <2>2, WriteRoundInStep
      <3>2. WriteRound(c, x) \in Batches /\ x.n \in Nat
        BY <3>1, BatchFields DEF WriteInStep, InStep
      <3>3. QED
        BY <3>1, <3>2
    <2>3. ASSUME NEW x \in Kept, x.on
          PROVE  DenseWriteRound(c, x) \in Kept /\ DenseWriteRound(c, x).n <= x.n + 1
      <3>1. PICK y : y = [x EXCEPT !.on = FALSE]
        OBVIOUS
      <3>2. y.n = x.n /\ x.n \in Nat /\ y.m = x.m /\ InStep(r, c, m, 2, y)
        BY <3>1, BatchFields, OverInStep DEF WriteInStep
      <3>3. y \in Kept /\ y.n <= x.n + 1
        BY <3>2 DEF WriteInStep, InStep
      <3>4. DenseWriteRound(c, x) = WriteRound(c, x) \/ DenseWriteRound(c, x) = y
        BY <3>1 DEF DenseWriteRound
      <3>5. QED
        BY <2>2, <2>3, <3>3, <3>4
    <2>4. \A x : Round("TableWrite", c, x) = WriteRound(c, x)
                 /\ Round("DenseTableWrite", c, x) = DenseWriteRound(c, x)
      BY DEF Round
    <2> HIDE DEF Kept, b
    <2>5. Any \in Kept /\ Any.n <= max
      BY <2>1, <2>2, <2>4, IterateKeeps
    <2>6. Dense \in Kept /\ Dense.n <= max
      BY <2>1, <2>3, <2>4, IterateKeeps
    <2>7. Outcome(r, c, m, 2, max, Any) /\ Outcome(r, c, m, 2, max, Dense)
      BY <2>5, <2>6, InStepOutcome DEF Kept, WriteInStep
    <2>8. B = Any \/ B = Dense
      BY <1>4 DEF TryExecuteTableWriteForLoopBatch, b
    <2>9. QED
      BY <2>7, <2>8
  <1>5. QED
    BY <1>3, <1>4

-----------------------------------------------------------------------------
(* sum = sum + t[i] *)

\* The body of TableReadAdd.
LEMMA ReadAddCode ==
  ASSUME NEW c \in Codes, MatchTableReadAdd(c)
  PROVE  /\ Len(c) = 3 /\ c[1].op = "GETTABLE" /\ c[2].op = "ADD"
         /\ c[1] \in BodyInstructions /\ c[2] \in BodyInstructions
         /\ c[1].a \in FrameRegisters /\ c[2].a \in FrameRegisters
         /\ ~c[1].b.constant /\ c[1].b.index \in FrameRegisters /\ c[1].b \in Operands
  <1>1. PICK t : t = <<"GETTABLE", "ADD", "FORLOOP">>
    OBVIOUS
  <1>2. DOMAIN t = 1 .. 3 /\ t[1] = "GETTABLE" /\ t[2] = "ADD" /\ t = Ops(c)
    BY <1>1 DEF MatchTableReadAdd
  <1>3. Shaped(c, 3, t)
    BY <1>2, OpsAre
  <1>4. /\ Len(c) = 3 /\ c[1].op = "GETTABLE" /\ c[2].op = "ADD"
        /\ c[1] \in BodyInstructions /\ c[2] \in BodyInstructions
    BY <1>2, <1>3 DEF Shaped
  <1>5. QED
    BY <1>4, BodyFacts DEF Operands

ReadAddInStep(r, c, m, b) ==
  /\ InStep(r, c, m, 3, b)
  /\ b.m.regs[c[1].b.index] = TableValue(0)
  /\ IsInteger(b.m.regs[c[2].a]) /\ b.sum = b.m.regs[c[2].a].n

\* A round of TableReadAdd is its three instructions, or none if the entry
\* is no integer.
LEMMA ReadAddRoundInStep ==
  ASSUME HalfAssumption, CapturedAssumption, NEW r \in RangeSet, NEW c \in Codes, NEW m,
         MatchTableReadAdd(c), NEW b, ReadAddInStep(r, c, m, b), b.on
  PROVE  ReadAddInStep(r, c, m, ReadAddRound(c, b)) /\ ReadAddRound(c, b).n <= b.n + 1
  <1> DEFINE t   == c[1].b.index
             get == c[1].a
             sum == c[2].a
             N   == b.n * 3
             i   == b.visible
             entry == b.m.table.at[i]
             total == Wrap(b.sum + entry.n)
             v   == IntegerValue(total)
             e1  == ExecuteInstruction(c, b.m)
             e2  == ExecuteInstruction(c, e1)
             w   == Put(Put(b.m, get, entry), sum, v)
             a   == [b EXCEPT !.sum = total, !.m = w]
             e   == Publish(Advance(c, a))
  <1>1. /\ Len(c) = 3 /\ c[1].op = "GETTABLE" /\ c[2].op = "ADD"
        /\ c[1] \in BodyInstructions /\ c[2] \in BodyInstructions
        /\ {t, get, sum} \subseteq FrameRegisters /\ {t, get, sum} \cap {0, 1, 2, Visible} = {}
        /\ t # sum /\ t # get /\ sum # get
        /\ c[1].c = R(Visible) /\ MatchPair(c[2].b, c[2].c, sum, get)
        /\ ~c[1].b.constant
    BY ReadAddCode DEF MatchTableReadAdd, Control, Visible
  <1>2. /\ InStep(r, c, m, 3, b) /\ b.m.regs[t] = TableValue(0)
        /\ IsInteger(b.m.regs[sum]) /\ b.sum = b.m.regs[sum].n
    BY DEF ReadAddInStep
  <1>3. /\ b \in Batches /\ b.m \in Machines /\ b.n \in Nat /\ N \in Nat
        /\ b.m = Instructions(c, m, N) /\ OnItsWay(r, c, b.m) /\ b.m.pc = 1
        /\ b.m.pc \in 1 .. Len(c)
        /\ i \in Integers64
        /\ b.m.regs[Visible] = b.m.regs[0] /\ b.m.regs[0] = IntegerValue(i)
        /\ IsInteger(b.m.regs[Visible])
        /\ {0, 1, 2, Visible} \subseteq FrameRegisters
    <2>1. Len(c) > 1 /\ 3 \in Nat
      BY <1>1
    <2>2. AtStart(r, c, m, 3, b)
      BY <1>2, <2>1, RoundStarts
    <2>3. QED
      BY <2>2 DEF AtStart
  <1>4. CASE ~IsInteger(entry)
    <2>1. PICK y : y = [b EXCEPT !.on = FALSE]
      OBVIOUS
    <2>2. InStep(r, c, m, 3, y) /\ y.n = b.n /\ y.m = b.m /\ y.sum = b.sum
      BY <1>2, <2>1, OverInStep
    <2>3. ReadAddRound(c, b) = y
      BY <1>4, <2>1 DEF ReadAddRound
    <2>4. QED
      BY <1>2, <1>3, <2>2, <2>3 DEF ReadAddInStep
  <1>5. CASE IsInteger(entry)
    <2>1. /\ e1 \in Machines /\ Writes(e1, b.m, get, entry) /\ entry \in LoopValues
      <3>1. c[b.m.pc] = c[1] /\ Value(b.m, c[1].b) = TableValue(0)
            /\ Value(b.m, c[1].c) = IntegerValue(i)
        BY <1>1, <1>2, <1>3 DEF Value, R
      <3>2. IsInteger(IntegerValue(i)) /\ IntegerValue(i).n = i
        BY <1>3, IntegerFacts
      <3>3. /\ e1 \in Machines
            /\ Writes(e1, b.m, c[b.m.pc].a, b.m.table.at[Value(b.m, c[b.m.pc].c).n])
            /\ b.m.table.at[Value(b.m, c[b.m.pc].c).n] \in LoopValues
        BY <1>1, <1>3, <3>1, <3>2, GetTableStep
      <3>4. QED
        BY <3>1, <3>2, <3>3
    <2>2. PICK k \in Nat : k = N
      BY <1>3
    <2>3. e1 = Instructions(c, m, k + 1) /\ OnItsWay(r, c, e1)
      BY <1>3, <2>2, OneMore
    <2> HIDE DEF e1
    <2>4. /\ e1.pc = 2 /\ e1.table = b.m.table /\ e1.upvalue = b.m.upvalue
          /\ \A q \in FrameRegisters : e1.regs[q] = IF q = get THEN entry ELSE b.m.regs[q]
      BY <1>3, <2>1 DEF Writes
    <2>5. e1.regs[get] = entry /\ e1.regs[sum] = b.m.regs[sum] /\ IsInteger(e1.regs[get])
          /\ IsInteger(e1.regs[sum])
      BY <1>1, <1>2, <1>5, <2>4
    <2>6. /\ e2 \in Machines /\ total \in Integers64 /\ Writes(e2, e1, sum, v)
      <3>1. c[e1.pc] = c[2]
        BY <2>4
      <3>2. /\ e2 \in Machines /\ Wrap(e1.regs[sum].n + e1.regs[get].n) \in Integers64
            /\ Writes(e2, e1, c[e1.pc].a, IntegerValue(Wrap(e1.regs[sum].n + e1.regs[get].n)))
        BY <1>1, <2>1, <2>5, <3>1, AddPairStep
      <3>3. Wrap(e1.regs[sum].n + e1.regs[get].n) = total
        BY <1>2, <2>5
      <3>4. QED
        BY <3>1, <3>2, <3>3
    <2>7. e2 = Instructions(c, m, N + 2) /\ OnItsWay(r, c, e2)
      <3>1. PICK l \in Nat : l = k + 1
        OBVIOUS
      <3>2. e1 = Instructions(c, m, l) /\ e1.pc \in 1 .. Len(c)
        BY <1>1, <2>3, <2>4, <3>1
      <3>3. e2 = Instructions(c, m, l + 1) /\ OnItsWay(r, c, e2)
        BY <2>3, <3>2, OneMore
      <3>4. l + 1 = N + 2
        BY <2>2, <3>1
      <3>5. QED
        BY <3>3, <3>4
    <2>8. v \in LoopValues /\ IsInteger(v) /\ v.n = total /\ total \in Int
      BY <2>6, IntegerFacts, IntegersAreIntegers
    <2>9. ReadAddRound(c, b) = e
      BY <1>5 DEF ReadAddRound
    <2> HIDE DEF e2, N, total, v, entry, get, sum, t
    <2>10. /\ e2.pc = 3 /\ e2.table = b.m.table /\ e2.upvalue = b.m.upvalue
           /\ \A q \in FrameRegisters : e2.regs[q] = IF q = sum THEN v ELSE
                                IF q = get THEN entry ELSE b.m.regs[q]
      BY <2>4, <2>6 DEF Writes
    <2>11. /\ w \in Machines /\ w.pc = b.m.pc /\ w.table = b.m.table /\ w.upvalue = b.m.upvalue
           /\ \A q \in FrameRegisters : w.regs[q] = IF q = sum THEN v ELSE
                                IF q = get THEN entry ELSE b.m.regs[q]
      <3> DEFINE u == Put(b.m, get, entry)
      <3>0. /\ get \in FrameRegisters /\ sum \in FrameRegisters /\ b.m \in Machines
            /\ entry \in LoopValues
        BY <1>1, <1>3, <2>1
      <3>1. /\ u \in Machines /\ u.pc = b.m.pc /\ u.table = b.m.table /\ u.upvalue = b.m.upvalue
            /\ \A q \in FrameRegisters : u.regs[q] = IF q = get THEN entry ELSE b.m.regs[q]
        BY <3>0, PutFields
      <3> HIDE DEF u
      <3>2. /\ Put(u, sum, v) \in Machines /\ Put(u, sum, v).pc = u.pc /\ Put(u, sum, v).table = u.table
            /\ Put(u, sum, v).upvalue = u.upvalue
            /\ \A q \in FrameRegisters : Put(u, sum, v).regs[q] = IF q = sum THEN v ELSE u.regs[q]
        BY <2>8, <3>0, <3>1, PutFields
      <3>3. w = Put(u, sum, v)
        BY DEF u
      <3>4. QED
        BY <3>1, <3>2, <3>3
    <2> HIDE DEF w
    <2>12. /\ a \in Batches /\ a.m = w /\ a.index = b.index /\ a.visible = b.visible /\ a.n = b.n
           /\ a.on /\ a.sum = total
      BY <1>3, <2>8, <2>11 DEF Batches
    <2> HIDE DEF a
    <2>13. /\ InStep(r, c, m, 3, e) /\ e.n = b.n + 1 /\ e.sum = total
           /\ \A q \in FrameRegisters \ {0, Visible} : e.m.regs[q] = e2.regs[q]
      <3>1. e2 = Instructions(c, m, b.n * 3 + (3 - 1))
        BY <2>7 DEF N
      <3>2. /\ e2.regs[0] = b.m.regs[0] /\ e2.regs[Visible] = b.m.regs[0]
            /\ a.m.table = e2.table /\ a.m.upvalue = e2.upvalue
            /\ \A q \in FrameRegisters : a.m.regs[q] = e2.regs[q]
        BY <1>1, <1>3, <2>10, <2>11, <2>12
      <3>3. Written(r, c, m, 3, b, e2, a)
        BY <1>1, <1>2, <2>7, <2>10, <2>12, <3>1, <3>2 DEF Written
      <3>4. RoundDone(r, c, m, 3, b, e2, a, e)
        BY <3>3, RoundInStep
      <3>5. QED
        BY <2>12, <3>4 DEF RoundDone
    <2> HIDE DEF e
    <2>14. e.m.regs[t] = TableValue(0) /\ e.m.regs[sum] = v
      BY <1>1, <1>2, <2>10, <2>13
    <2>15. e.n <= b.n + 1
      BY <1>3, <2>13
    <2>16. QED
      BY <2>8, <2>9, <2>13, <2>14, <2>15 DEF ReadAddInStep, t, sum
  <1>6. QED
    BY <1>4, <1>5

\* A batch of TableReadAdd is as many instructions.
LEMMA ReadAddBatch ==
  ASSUME HalfAssumption, CapturedAssumption, NEW r \in RangeSet, NEW c \in Codes, NEW m,
         OnItsWay(r, c, m), m.pc = 1, MatchTableReadAdd(c), NEW max \in Nat, NEW ok \in Nat
  PROVE  Outcome(r, c, m, 3, max, TryExecuteTableReadAddForLoopBatch(c, m, max, ok))
  <1> DEFINE sum == c[2].a
             B == TryExecuteTableReadAddForLoopBatch(c, m, max, ok)
             b == [Batch(m, ok) EXCEPT !.sum = m.regs[sum].n]
             Kept == {x \in Batches : ReadAddInStep(r, c, m, x)}
  <1>1. Len(c) > 1 /\ sum \in FrameRegisters
    <2>1. Len(c) = 3 /\ sum \in FrameRegisters
      BY ReadAddCode
    <2>2. QED
      BY <2>1
  <1>2. m \in Machines /\ m.regs[sum] \in LoopValues
    BY <1>1, MachineFields DEF OnItsWay
  <1>3. CASE m.regs[c[1].b.index] # TableValue(0) \/ ~Holds(m, Control \cup {sum})
    BY <1>3, RefusedOutcome DEF TryExecuteTableReadAddForLoopBatch
  <1>4. CASE m.regs[c[1].b.index] = TableValue(0) /\ Holds(m, Control \cup {sum})
    <2>1. IsInteger(m.regs[sum]) /\ m.regs[sum].n \in Int
      BY <1>2, <1>4, IntegerFacts, IntegersAreIntegers DEF Holds
    <2>2. Started(r, c, m, b) /\ b.sum = m.regs[sum].n
      BY <1>1, <2>1, StartsWithSum
    <2>3. b \in Kept /\ b.n = 0 /\ \A x \in Kept : x.n \in Nat
      <3>1. InStep(r, c, m, 3, b) /\ b.m = m /\ b \in Batches /\ b.n = 0
        BY <2>2, StartsInStep DEF Started
      <3>2. ReadAddInStep(r, c, m, b)
        BY <1>4, <2>1, <2>2, <3>1 DEF ReadAddInStep
      <3>3. QED
        BY <3>1, <3>2, BatchFields
    <2>4. ASSUME NEW x \in Kept, x.on
          PROVE  Round("TableReadAdd", c, x) \in Kept /\ Round("TableReadAdd", c, x).n <= x.n + 1
      <3>1. ReadAddInStep(r, c, m, ReadAddRound(c, x)) /\ ReadAddRound(c, x).n <= x.n + 1
        BY <2>4, ReadAddRoundInStep
      <3>2. Round("TableReadAdd", c, x) = ReadAddRound(c, x)
        BY DEF Round
      <3>3. ReadAddRound(c, x) \in Batches
        BY <3>1 DEF ReadAddInStep, InStep
      <3>4. QED
        BY <3>1, <3>2, <3>3
    <2> HIDE DEF Kept, b
    <2>5. Iterate("TableReadAdd", c, b, max) \in Kept /\ Iterate("TableReadAdd", c, b, max).n <= max
      BY <2>3, <2>4, IterateKeeps
    <2>6. B = Iterate("TableReadAdd", c, b, max)
      BY <1>4 DEF TryExecuteTableReadAddForLoopBatch, b
    <2>7. QED
      BY <2>5, <2>6, InStepOutcome DEF Kept, ReadAddInStep
  <1>5. QED
    BY <1>3, <1>4

-----------------------------------------------------------------------------
(* Rounds of several instructions *)

\* x is m after k instructions.
At(r, c, m, k, x) ==
  k \in Nat /\ x = Instructions(c, m, k) /\ OnItsWay(r, c, x) /\ x \in Machines

\* The instruction at i takes x to y, and writes v to a.
Stepped(r, c, m, k, i, x, y, a, v) ==
  /\ At(r, c, m, k + 1, y) /\ y.pc = i + 1 /\ Writes(y, x, a, v) /\ v \in LoopValues

\* The machine after the next instruction.
LEMMA NextAt ==
  ASSUME HalfAssumption, CapturedAssumption, NEW r \in RangeSet, NEW c \in Codes, NEW m,
         NEW k, NEW x, At(r, c, m, k, x), x.pc \in 1 .. Len(c),
         NEW y, y = ExecuteInstruction(c, x)
  PROVE  At(r, c, m, k + 1, y)
  <1>1. y = Instructions(c, m, k + 1) /\ OnItsWay(r, c, y)
    BY OneMore DEF At
  <1>2. y \in Machines
    BY <1>1 DEF OnItsWay
  <1>3. QED
    BY <1>1, <1>2 DEF At

\* The instruction at i of a machine on its way.
Executes(r, c, m, k, i, x, y) ==
  /\ At(r, c, m, k, x) /\ x.pc = i /\ i \in 1 .. Len(c) /\ c[i] \in BodyInstructions
  /\ y = ExecuteInstruction(c, x)

\* An instruction whose effect is known.
LEMMA StepsTo ==
  ASSUME HalfAssumption, CapturedAssumption, NEW r \in RangeSet, NEW c \in Codes, NEW m,
         NEW k, NEW i, NEW x, NEW y, Executes(r, c, m, k, i, x, y),
         NEW a, NEW v \in LoopValues, Writes(y, x, a, v)
  PROVE  Stepped(r, c, m, k, i, x, y, a, v)
  <1>1. At(r, c, m, k + 1, y)
    BY NextAt DEF Executes
  <1>2. y.pc = i + 1
    BY DEF Writes, Executes
  <1>3. QED
    BY <1>1, <1>2 DEF Stepped

\* MOVE and LOADK.
LEMMA Moves ==
  ASSUME HalfAssumption, CapturedAssumption, NEW r \in RangeSet, NEW c \in Codes, NEW m,
         NEW k, NEW i, NEW x, NEW y, Executes(r, c, m, k, i, x, y),
         c[i].op \in {"MOVE", "LOADK"}, NEW v, v = Value(x, c[i].b)
  PROVE  Stepped(r, c, m, k, i, x, y, c[i].a, v)
  <1>1. x \in Machines /\ x.pc = i /\ c[i] \in BodyInstructions /\ y = ExecuteInstruction(c, x)
    BY DEF Executes, At
  <1>2. Writes(y, x, c[i].a, v)
    BY <1>1, MoveStep
  <1>3. v \in LoopValues
    BY <1>1, BodyFacts, OperandValue
  <1>4. QED
    BY <1>2, <1>3, StepsTo

\* The addition of two registers, in either order.
LEMMA AddsPair ==
  ASSUME HalfAssumption, CapturedAssumption, NEW r \in RangeSet, NEW c \in Codes, NEW m,
         NEW k, NEW i, NEW x, NEW y, Executes(r, c, m, k, i, x, y), c[i].op = "ADD",
         NEW p \in FrameRegisters, NEW q \in FrameRegisters, MatchPair(c[i].b, c[i].c, p, q),
         IsInteger(x.regs[p]), IsInteger(x.regs[q]),
         NEW total, total = Wrap(x.regs[p].n + x.regs[q].n)
  PROVE  /\ Stepped(r, c, m, k, i, x, y, c[i].a, IntegerValue(total))
         /\ total \in Integers64
  <1>1. x \in Machines /\ x.pc = i /\ c[i] \in BodyInstructions /\ y = ExecuteInstruction(c, x)
    BY DEF Executes, At
  <1>2. Writes(y, x, c[i].a, IntegerValue(total)) /\ total \in Integers64
    BY <1>1, AddPairStep
  <1>3. IntegerValue(total) \in LoopValues
    BY <1>2, IntegerFacts
  <1>4. QED
    BY <1>2, <1>3, StepsTo

\* Any calculation of integers.
LEMMA Calculates ==
  ASSUME HalfAssumption, CapturedAssumption, NEW r \in RangeSet, NEW c \in Codes, NEW m,
         NEW k, NEW i, NEW x, NEW y, Executes(r, c, m, k, i, x, y), c[i].op \in Calculations,
         NEW p, p = Value(x, c[i].b), NEW q, q = Value(x, c[i].c),
         IsInteger(p), IsInteger(q), c[i].op \in Divisions => q.n # 0,
         NEW total, total = Calculate(c[i].op, p.n, q.n)
  PROVE  /\ Stepped(r, c, m, k, i, x, y, c[i].a, IntegerValue(total))
         /\ total \in Integers64 /\ p.n \in Integers64 /\ q.n \in Integers64
  <1>1. x \in Machines /\ x.pc = i /\ c[i] \in BodyInstructions /\ y = ExecuteInstruction(c, x)
    BY DEF Executes, At
  <1>2. p \in LoopValues /\ q \in LoopValues
    BY <1>1, BodyFacts, OperandValue
  <1>3. p.n \in Integers64 /\ q.n \in Integers64
    BY <1>2, IntegerFacts
  <1>4. total \in Integers64
    BY <1>3, CalculateInRange
  <1>5. IntegerValue(total) \in LoopValues
    BY <1>4, IntegerFacts
  <1>6. Writes(y, x, c[i].a, IntegerValue(total))
    <2>1. Calculable(c[i].op, p, q)
      BY DEF Calculable
    <2>2. QED
      BY <1>1, <2>1, CalculationStep
  <1>7. QED
    BY <1>3, <1>4, <1>5, <1>6, StepsTo

\* The call of a function that adds.
LEMMA CallsAdder ==
  ASSUME HalfAssumption, CapturedAssumption, NEW r \in RangeSet, NEW c \in Codes, NEW m,
         NEW k, NEW i, NEW x, NEW y, Executes(r, c, m, k, i, x, y), c[i].op = "CALL",
         NEW slot, slot = c[i].a, x.regs[slot] = Adder,
         IsInteger(x.regs[slot + 1]), IsInteger(x.regs[slot + 2]),
         NEW total, total = Wrap(x.regs[slot + 1].n + x.regs[slot + 2].n)
  PROVE  /\ Stepped(r, c, m, k, i, x, y, slot, IntegerValue(total))
         /\ total \in Integers64
  <1>1. x \in Machines /\ x.pc = i /\ c[i] \in BodyInstructions /\ y = ExecuteInstruction(c, x)
    BY DEF Executes, At
  <1>2. Holds(x, {slot + 1, slot + 2})
    BY DEF Holds
  <1>3. Writes(y, x, slot, IntegerValue(total))
    BY <1>1, <1>2, CallAdderStep
  <1>4. total \in Integers64
    <2>1. {slot + 1, slot + 2} \subseteq FrameRegisters
      <3>1. slot .. slot + 2 \subseteq FrameRegisters /\ slot \in FrameRegisters
        BY <1>1, BodyFacts
      <3>2. slot \in Int
        BY <3>1 DEF FrameRegisters
      <3>3. QED
        BY <3>1, <3>2
    <2>2. x.regs[slot + 1] \in LoopValues /\ x.regs[slot + 2] \in LoopValues
      BY <1>1, <2>1, MachineFields
    <2>3. x.regs[slot + 1].n \in Int /\ x.regs[slot + 2].n \in Int
      BY <2>2, IntegerFacts, IntegersAreIntegers
    <2>4. QED
      BY <2>3, WrapInRange
  <1>5. IntegerValue(total) \in LoopValues
    BY <1>4, IntegerFacts
  <1>6. QED
    BY <1>3, <1>4, <1>5, StepsTo

-----------------------------------------------------------------------------
(* The check before a round of calls *)

Same(x, b) ==
  /\ x.m = b.m /\ x.index = b.index /\ x.visible = b.visible /\ x.sum = b.sum
  /\ x.temp = b.temp /\ x.mod = b.mod /\ x.callee = b.callee /\ x.n = b.n

CheckedAs(x, b, next) ==
  /\ x \in Batches
  /\ \/ Same(x, b) /\ ~x.on
     \/ Same(x, next) /\ x.on = next.on

\* A check that fails leaves a batch as it was.
LEMMA ChecksRound ==
  ASSUME NEW b \in Batches, NEW next \in Batches, next.ok = b.ok
  PROVE  CheckedAs(Checked(b, next), b, next)
  <1>1. CASE b.ok = 0
    <2>1. PICK x : x = [b EXCEPT !.on = FALSE, !.cancelled = TRUE]
      OBVIOUS
    <2>2. x \in Batches /\ Same(x, b) /\ ~x.on
      BY <2>1 DEF Batches, Same
    <2>3. Checked(b, next) = x
      BY <1>1, <2>1 DEF Checked
    <2>4. QED
      BY <2>2, <2>3 DEF CheckedAs
  <1>2. CASE b.ok # 0
    <2>1. PICK x : x = [next EXCEPT !.ok = @ - 1]
      OBVIOUS
    <2>2. next.ok \in Nat /\ next.ok # 0
      BY <1>2, BatchFields
    <2>3. next.ok - 1 \in Nat
      BY <2>2
    <2>4. x \in Batches /\ Same(x, next) /\ x.on = next.on
      BY <2>1, <2>3 DEF Batches, Same
    <2>5. Checked(b, next) = x
      BY <1>2, <2>1 DEF Checked
    <2>6. QED
      BY <2>4, <2>5 DEF CheckedAs
  <1>3. QED
    BY <1>1, <1>2

\* A round that begins with a check is in step if it is without.
LEMMA CheckedInStep ==
  ASSUME NEW r, NEW c, NEW m, NEW size, NEW b, NEW next, InStep(r, c, m, size, b), b.on,
         InStep(r, c, m, size, next), next.n <= b.n + 1, next.ok = b.ok,
         NEW x, x = Checked(b, next)
  PROVE  /\ InStep(r, c, m, size, x) /\ x.n <= b.n + 1
         /\ Same(x, b) \/ Same(x, next)
  <1>1. CheckedAs(x, b, next)
    BY ChecksRound DEF InStep
  <1>2. b.n \in Nat /\ b.n <= b.n + 1
    BY BatchFields DEF InStep
  <1>3. QED
    BY <1>1, <1>2 DEF CheckedAs, Same, InStep

-----------------------------------------------------------------------------
(* sum = sum + f(i, K) *)

\* A call's registers, and what the batch knows of the others.
LEMMA KeptFunction ==
  ASSUME NEW i \in BodyInstructions, i.op = "CALL", NEW source, NEW result, NEW n \in {1, 2},
         NEW slots, slots = i.a .. i.a + n, FunctionKept(source, slots, result)
  PROVE  /\ i.a \in FrameRegisters /\ i.a + 1 \in FrameRegisters /\ i.a + 2 \in FrameRegisters
         /\ i.a \in Int /\ i.a > 3 /\ Visible = 3
         /\ source \notin {0, 1, 2, 3, i.a, i.a + 1} /\ result \notin {0, 1, 2, 3, i.a, i.a + 1}
         /\ n = 2 => source # i.a + 2 /\ result # i.a + 2
         /\ source # result
         /\ i.a \notin Captured /\ i.a + 1 \notin Captured
  <1>1. i.a > Visible /\ i.a .. i.a + 2 \subseteq FrameRegisters \ Captured /\ i.a \in FrameRegisters
    BY BodyFacts
  <1>2. i.a \in Int /\ i.a > 3 /\ Visible = 3
    BY <1>1 DEF FrameRegisters, Visible
  <1>3. i.a \in i.a .. i.a + 2 /\ i.a + 1 \in i.a .. i.a + 2 /\ i.a + 2 \in i.a .. i.a + 2
    BY <1>2
  <1>4. /\ i.a \in i.a .. i.a + n /\ i.a + 1 \in i.a .. i.a + n
        /\ n = 2 => i.a + 2 \in i.a .. i.a + n
    BY <1>2
  <1>5. {0, 1, 2, 3} \subseteq Control
    BY DEF Control, Visible
  <1>6. {source, result} \cap (Control \cup (i.a .. i.a + n)) = {} /\ source # result
    BY DEF FunctionKept
  <1>7. QED
    BY <1>1, <1>2, <1>3, <1>4, <1>5, <1>6

\* The body of FunctionCallAdd,
LEMMA CallAddCode ==
  ASSUME NEW c \in Codes, MatchFunctionCallAdd(c)
  PROVE  /\ Len(c) = 6 /\ \A i \in 1 .. 5 : c[i] \in BodyInstructions
         /\ c[1].op = "MOVE" /\ c[2].op = "MOVE" /\ c[3].op = "LOADK"
         /\ c[4].op = "CALL" /\ c[5].op = "ADD"
  <1>1. PICK t : t = <<"MOVE", "MOVE", "LOADK", "CALL", "ADD", "FORLOOP">>
    OBVIOUS
  <1>2. /\ DOMAIN t = 1 .. 6 /\ t = Ops(c) /\ t[1] = "MOVE" /\ t[2] = "MOVE" /\ t[3] = "LOADK"
        /\ t[4] = "CALL" /\ t[5] = "ADD"
    BY <1>1 DEF MatchFunctionCallAdd
  <1>3. Shaped(c, 6, t)
    BY <1>2, OpsAre
  <1>4. QED
    BY <1>2, <1>3 DEF Shaped

\* and its registers.
LEMMA CallAddOperands ==
  ASSUME NEW c \in Codes, MatchFunctionCallAdd(c), NEW slot, slot = c[4].a,
         NEW source, source = c[1].b.index, NEW sum, sum = c[5].a
  PROVE  /\ c[1].a = slot /\ c[2].a = slot + 1 /\ c[3].a = slot + 2
         /\ {slot, slot + 1, slot + 2, source, sum} \subseteq FrameRegisters
         /\ slot \in Int /\ slot > 3 /\ Visible = 3
         /\ source \notin {0, 1, 2, 3, slot, slot + 1, slot + 2}
         /\ sum \notin {0, 1, 2, 3, slot, slot + 1, slot + 2} /\ source # sum
         /\ ~c[1].b.constant /\ c[2].b = R(Visible) /\ IntegerConstant(c[3].b)
         /\ MatchPair(c[5].b, c[5].c, sum, slot)
         /\ c[3].b.value \in LoopValues /\ c[3].b.constant
  <1>1. /\ \A i \in 1 .. 5 : c[i] \in BodyInstructions
        /\ c[1].op = "MOVE" /\ c[4].op = "CALL" /\ c[1] \in BodyInstructions
        /\ c[3] \in BodyInstructions /\ c[4] \in BodyInstructions /\ c[5] \in BodyInstructions
    BY CallAddCode
  <1>2. /\ <<c[1].a, c[2].a, c[3].a>> = <<slot, slot + 1, slot + 2>>
        /\ RegisterPlus(c[5].b, c[5].c, slot) = sum
        /\ c[2].b = R(Visible) /\ IntegerConstant(c[3].b)
        /\ FunctionKept(source, slot .. slot + 2, sum)
    BY DEF MatchFunctionCallAdd
  <1>3. /\ slot \in FrameRegisters /\ slot + 1 \in FrameRegisters /\ slot + 2 \in FrameRegisters
        /\ slot \in Int /\ slot > 3 /\ Visible = 3
        /\ source \notin {0, 1, 2, 3, slot, slot + 1, slot + 2} /\ sum \notin {0, 1, 2, 3, slot, slot + 1, slot + 2}
        /\ source # sum
    <2>1. PICK n \in {1, 2} : n = 2
      OBVIOUS
    <2>2. PICK slots : slots = slot .. slot + n
      OBVIOUS
    <2>3. FunctionKept(source, slots, sum)
      BY <1>2, <2>1, <2>2
    <2>4. PICK call \in BodyInstructions : call = c[4]
      BY <1>1
    <2>5. /\ call.op = "CALL" /\ call.a = slot /\ slots = call.a .. call.a + n
      BY <1>1, <2>2, <2>4
    <2>6. /\ call.a \in FrameRegisters /\ call.a + 1 \in FrameRegisters /\ call.a + 2 \in FrameRegisters
          /\ call.a \in Int /\ call.a > 3 /\ Visible = 3
          /\ source \notin {0, 1, 2, 3, call.a, call.a + 1}
          /\ sum \notin {0, 1, 2, 3, call.a, call.a + 1}
          /\ n = 2 => source # call.a + 2 /\ sum # call.a + 2
          /\ source # sum
      BY <2>3, <2>5, KeptFunction
    <2>7. QED
      BY <2>1, <2>5, <2>6
  <1>4. ~c[1].b.constant /\ source \in FrameRegisters /\ sum \in FrameRegisters
    BY <1>1, BodyFacts DEF Operands
  <1>5. c[5].b \in Operands /\ c[5].c \in Operands
    BY <1>1, BodyFacts
  <1>6. MatchPair(c[5].b, c[5].c, sum, slot)
    <2>1. sum # NoRegister
      BY <1>4 DEF NoRegister, FrameRegisters
    <2>2. QED
      BY <1>2, <2>1 DEF RegisterPlus, MatchPair
  <1>7. c[3].b \in Operands /\ c[3].b.constant /\ c[3].b.value \in LoopValues
    BY <1>1, <1>2, BodyFacts DEF IntegerConstant, Operands
  <1>8. c[1].a = slot /\ c[2].a = slot + 1 /\ c[3].a = slot + 2
    BY <1>2
  <1>9. QED
    BY <1>2, <1>3, <1>4, <1>6, <1>7, <1>8

CallAddInStep(r, c, m, b) ==
  /\ InStep(r, c, m, 6, b)
  /\ b.m.regs[c[1].b.index] = Adder
  /\ IsInteger(b.m.regs[c[5].a]) /\ b.sum = b.m.regs[c[5].a].n

\* A round of FunctionCallAdd is its six instructions.
LEMMA CallAddRoundInStep ==
  ASSUME HalfAssumption, CapturedAssumption, NEW r \in RangeSet, NEW c \in Codes, NEW m,
         MatchFunctionCallAdd(c), NEW b, CallAddInStep(r, c, m, b), b.on
  PROVE  /\ CallAddInStep(r, c, m, CallAddRound(c, b)) /\ CallAddRound(c, b).n = b.n + 1
         /\ CallAddRound(c, b).ok = b.ok
  <1> DEFINE slot == c[4].a
             source == c[1].b.index
             sum == c[5].a
             K2  == c[3].b.value
             N   == b.n * 6
             i   == b.visible
             result == Wrap(i + K2.n)
             total  == Wrap(b.sum + result)
             e1  == ExecuteInstruction(c, b.m)
             e2  == ExecuteInstruction(c, e1)
             e3  == ExecuteInstruction(c, e2)
             e4  == ExecuteInstruction(c, e3)
             e5  == ExecuteInstruction(c, e4)
             w   == Put(Put(Put(Put(b.m, slot + 1, IntegerValue(i)), slot + 2, K2),
                            slot, IntegerValue(result)), sum, IntegerValue(total))
             a   == [b EXCEPT !.sum = total, !.m = w]
             e   == Publish(Advance(c, a))
  <1>1. /\ Len(c) = 6 /\ \A k \in 1 .. 5 : c[k] \in BodyInstructions
        /\ c[1].op = "MOVE" /\ c[2].op = "MOVE" /\ c[3].op = "LOADK"
        /\ c[4].op = "CALL" /\ c[5].op = "ADD"
    BY CallAddCode
  <1>2. /\ c[1].a = slot /\ c[2].a = slot + 1 /\ c[3].a = slot + 2
        /\ {slot, slot + 1, slot + 2, source, sum} \subseteq FrameRegisters
        /\ slot \in Int /\ slot > 3 /\ Visible = 3
        /\ source \notin {0, 1, 2, 3, slot, slot + 1, slot + 2}
        /\ sum \notin {0, 1, 2, 3, slot, slot + 1, slot + 2} /\ source # sum
        /\ ~c[1].b.constant /\ c[2].b = R(Visible) /\ IntegerConstant(c[3].b)
        /\ MatchPair(c[5].b, c[5].c, sum, slot)
        /\ K2 \in LoopValues /\ c[3].b.constant
    BY CallAddOperands
  <1>3. /\ InStep(r, c, m, 6, b) /\ b.m.regs[source] = Adder
        /\ IsInteger(b.m.regs[sum]) /\ b.sum = b.m.regs[sum].n
    BY DEF CallAddInStep
  <1>4. /\ b \in Batches /\ b.m \in Machines /\ b.n \in Nat
        /\ At(r, c, m, N, b.m) /\ b.m.pc = 1
        /\ i \in Integers64
        /\ b.m.regs[Visible] = b.m.regs[0] /\ b.m.regs[0] = IntegerValue(i)
        /\ {0, 1, 2, Visible} \subseteq FrameRegisters
    <2>1. Len(c) > 1 /\ 6 \in Nat
      BY <1>1
    <2>2. AtStart(r, c, m, 6, b)
      BY <1>3, <2>1, RoundStarts
    <2>3. QED
      BY <2>2 DEF AtStart, At
  <1>5. CallAddRound(c, b) = e
    BY DEF CallAddRound
  <1>6. /\ IntegerValue(i) \in LoopValues /\ IsInteger(IntegerValue(i)) /\ IntegerValue(i).n = i
        /\ IsInteger(K2)
    BY <1>2, <1>4, IntegerFacts DEF IntegerConstant
  <1> HIDE DEF N, e
  <1>7. Stepped(r, c, m, N, 1, b.m, e1, slot, Adder)
    <2>1. Executes(r, c, m, N, 1, b.m, e1) /\ Adder = Value(b.m, c[1].b)
      BY <1>1, <1>2, <1>3, <1>4 DEF Executes, Value
    <2>2. QED
      BY <1>1, <1>2, <2>1, Moves
  <1> HIDE DEF e1
  <1>8. /\ At(r, c, m, N + 1, e1) /\ e1.pc = 2 /\ e1.table = b.m.table /\ e1.upvalue = b.m.upvalue
        /\ \A q \in FrameRegisters : e1.regs[q] = IF q = slot THEN Adder ELSE b.m.regs[q]
    BY <1>7 DEF Stepped, Writes
  <1>9. Stepped(r, c, m, N + 1, 2, e1, e2, slot + 1, IntegerValue(i))
    <2>1. Executes(r, c, m, N + 1, 2, e1, e2) /\ IntegerValue(i) = Value(e1, c[2].b)
      BY <1>1, <1>2, <1>4, <1>8 DEF Executes, Value, R
    <2>2. QED
      BY <1>1, <1>2, <2>1, Moves
  <1> HIDE DEF e2
  <1>10. /\ At(r, c, m, (N + 1) + 1, e2) /\ e2.pc = 3 /\ e2.table = b.m.table /\ e2.upvalue = b.m.upvalue
         /\ \A q \in FrameRegisters : e2.regs[q] = IF q = slot + 1 THEN IntegerValue(i) ELSE
              IF q = slot THEN Adder ELSE b.m.regs[q]
    BY <1>8, <1>9 DEF Stepped, Writes
  <1>11. Stepped(r, c, m, (N + 1) + 1, 3, e2, e3, slot + 2, K2)
    <2>1. Executes(r, c, m, (N + 1) + 1, 3, e2, e3) /\ K2 = Value(e2, c[3].b)
      BY <1>1, <1>2, <1>10 DEF Executes, Value
    <2>2. QED
      BY <1>1, <1>2, <2>1, Moves
  <1> HIDE DEF e3
  <1>12. /\ At(r, c, m, ((N + 1) + 1) + 1, e3) /\ e3.pc = 4 /\ e3.table = b.m.table
         /\ e3.upvalue = b.m.upvalue
         /\ \A q \in FrameRegisters : e3.regs[q] = IF q = slot + 2 THEN K2 ELSE
              IF q = slot + 1 THEN IntegerValue(i) ELSE IF q = slot THEN Adder ELSE b.m.regs[q]
    BY <1>10, <1>11 DEF Stepped, Writes
  <1>13. /\ Stepped(r, c, m, ((N + 1) + 1) + 1, 4, e3, e4, slot, IntegerValue(result))
         /\ result \in Integers64
    <2>1. Executes(r, c, m, ((N + 1) + 1) + 1, 4, e3, e4)
      BY <1>1, <1>12 DEF Executes
    <2>2. e3.regs[slot] = Adder /\ e3.regs[slot + 1] = IntegerValue(i) /\ e3.regs[slot + 2] = K2
      BY <1>2, <1>12
    <2>3. /\ IsInteger(e3.regs[slot + 1]) /\ IsInteger(e3.regs[slot + 2])
          /\ result = Wrap(e3.regs[slot + 1].n + e3.regs[slot + 2].n)
      BY <1>6, <2>2
    <2> HIDE DEF result
    <2>4. QED
      BY <1>1, <2>1, <2>2, <2>3, CallsAdder
  <1> HIDE DEF e4
  <1>14. /\ At(r, c, m, (((N + 1) + 1) + 1) + 1, e4) /\ e4.pc = 5 /\ e4.table = b.m.table
         /\ e4.upvalue = b.m.upvalue /\ IntegerValue(result) \in LoopValues
         /\ \A q \in FrameRegisters : e4.regs[q] = IF q = slot THEN IntegerValue(result) ELSE
              IF q = slot + 2 THEN K2 ELSE IF q = slot + 1 THEN IntegerValue(i) ELSE b.m.regs[q]
    BY <1>2, <1>12, <1>13 DEF Stepped, Writes
  <1>15. /\ Stepped(r, c, m, (((N + 1) + 1) + 1) + 1, 5, e4, e5, sum, IntegerValue(total))
         /\ total \in Integers64
    <2>1. Executes(r, c, m, (((N + 1) + 1) + 1) + 1, 5, e4, e5)
      BY <1>1, <1>14 DEF Executes
    <2>2. e4.regs[slot] = IntegerValue(result) /\ e4.regs[sum] = b.m.regs[sum]
      BY <1>2, <1>14
    <2>3. IsInteger(IntegerValue(result)) /\ IntegerValue(result).n = result
      BY <1>13, IntegerFacts
    <2>4. /\ IsInteger(e4.regs[slot]) /\ IsInteger(e4.regs[sum])
          /\ total = Wrap(e4.regs[sum].n + e4.regs[slot].n)
      BY <1>3, <2>2, <2>3
    <2> HIDE DEF total
    <2>5. slot \in FrameRegisters /\ sum \in FrameRegisters
      BY <1>2
    <2>6. QED
      BY <1>1, <1>2, <2>1, <2>4, <2>5, AddsPair
  <1> HIDE DEF e5
  <1>16. /\ At(r, c, m, ((((N + 1) + 1) + 1) + 1) + 1, e5) /\ e5.pc = 6 /\ e5.table = b.m.table
         /\ e5.upvalue = b.m.upvalue /\ IntegerValue(total) \in LoopValues
         /\ \A q \in FrameRegisters : e5.regs[q] = IF q = sum THEN IntegerValue(total) ELSE
              IF q = slot THEN IntegerValue(result) ELSE
              IF q = slot + 2 THEN K2 ELSE IF q = slot + 1 THEN IntegerValue(i) ELSE b.m.regs[q]
    BY <1>14, <1>15 DEF Stepped, Writes
  <1>17. /\ IsInteger(IntegerValue(total)) /\ IntegerValue(total).n = total /\ total \in Int
    BY <1>15, IntegerFacts, IntegersAreIntegers
  <1> HIDE DEF total, result, K2, i
  <1>18. /\ w \in Machines /\ w.pc = b.m.pc /\ w.table = b.m.table /\ w.upvalue = b.m.upvalue
         /\ \A q \in FrameRegisters : w.regs[q] = IF q = sum THEN IntegerValue(total) ELSE
              IF q = slot THEN IntegerValue(result) ELSE
              IF q = slot + 2 THEN K2 ELSE IF q = slot + 1 THEN IntegerValue(i) ELSE b.m.regs[q]
    <2> DEFINE u1 == Put(b.m, slot + 1, IntegerValue(i))
               u2 == Put(u1, slot + 2, K2)
               u3 == Put(u2, slot, IntegerValue(result))
    <2> HIDE DEF slot, sum
    <2>1. /\ slot + 1 \in FrameRegisters /\ slot + 2 \in FrameRegisters /\ slot \in FrameRegisters
          /\ sum \in FrameRegisters /\ b.m \in Machines
      BY <1>2, <1>4
    <2>2. /\ u1 \in Machines /\ u1.pc = b.m.pc /\ u1.table = b.m.table /\ u1.upvalue = b.m.upvalue
          /\ \A q \in FrameRegisters : u1.regs[q] = IF q = slot + 1 THEN IntegerValue(i) ELSE b.m.regs[q]
      BY <1>6, <2>1, PutFields
    <2> HIDE DEF u1
    <2>3. /\ u2 \in Machines /\ u2.pc = u1.pc /\ u2.table = u1.table /\ u2.upvalue = u1.upvalue
          /\ \A q \in FrameRegisters : u2.regs[q] = IF q = slot + 2 THEN K2 ELSE u1.regs[q]
      BY <1>2, <2>1, <2>2, PutFields
    <2> HIDE DEF u2
    <2>4. /\ u3 \in Machines /\ u3.pc = u2.pc /\ u3.table = u2.table /\ u3.upvalue = u2.upvalue
          /\ \A q \in FrameRegisters : u3.regs[q] = IF q = slot THEN IntegerValue(result) ELSE u2.regs[q]
      BY <1>14, <2>1, <2>3, PutFields
    <2>5. w = Put(u3, sum, IntegerValue(total))
      BY DEF u1, u2, u3
    <2> HIDE DEF u3, w
    <2>6. /\ w \in Machines /\ w.pc = u3.pc /\ w.table = u3.table /\ w.upvalue = u3.upvalue
          /\ \A q \in FrameRegisters : w.regs[q] = IF q = sum THEN IntegerValue(total) ELSE u3.regs[q]
      BY <1>16, <2>1, <2>4, <2>5, PutFields
    <2>7. QED
      BY <2>2, <2>3, <2>4, <2>6
  <1> HIDE DEF w
  <1>19. /\ a \in Batches /\ a.m = w /\ a.index = b.index /\ a.visible = b.visible /\ a.n = b.n
         /\ a.on /\ a.sum = total /\ a.ok = b.ok
    BY <1>4, <1>17, <1>18 DEF Batches
  <1> HIDE DEF a
  <1>20. /\ InStep(r, c, m, 6, e) /\ e.n = b.n + 1 /\ e.sum = total /\ e.ok = b.ok
         /\ \A q \in FrameRegisters \ {0, Visible} : e.m.regs[q] = e5.regs[q]
    <2>1. e5 = Instructions(c, m, b.n * 6 + (6 - 1)) /\ OnItsWay(r, c, e5)
      <3>1. ((((N + 1) + 1) + 1) + 1) + 1 = b.n * 6 + (6 - 1)
        BY <1>4 DEF N
      <3>2. QED
        BY <1>16, <3>1 DEF At
    <2>2. /\ e5.regs[0] = b.m.regs[0] /\ e5.regs[Visible] = b.m.regs[0]
          /\ a.m.table = e5.table /\ a.m.upvalue = e5.upvalue
          /\ \A q \in FrameRegisters : a.m.regs[q] = e5.regs[q]
      BY <1>2, <1>4, <1>16, <1>18, <1>19
    <2>3. Written(r, c, m, 6, b, e5, a)
      BY <1>1, <1>3, <1>16, <1>19, <2>1, <2>2 DEF Written
    <2>4. RoundDone(r, c, m, 6, b, e5, a, e)
      BY <2>3, RoundInStep DEF e
    <2>5. QED
      BY <1>19, <2>4 DEF RoundDone
  <1>21. e.m.regs[source] = Adder /\ e.m.regs[sum] = IntegerValue(total)
    BY <1>2, <1>3, <1>16, <1>20
  <1>22. QED
    BY <1>5, <1>17, <1>20, <1>21 DEF CallAddInStep

\* A batch of calls also holds that machine when it is cancelled at once.
CallOutcome(r, c, m, size, max, b) ==
  /\ b.n \in Nat /\ b.n <= max
  /\ b.m = Instructions(c, m, b.n * size) /\ OnItsWay(r, c, b.m)

\* A batch of calls in step may be published, cancelled or not.
LEMMA InStepCallOutcome ==
  ASSUME NEW r, NEW c, NEW m, NEW size, NEW b, InStep(r, c, m, size, b),
         NEW max, b.n <= max
  PROVE  CallOutcome(r, c, m, size, max, b)
  BY BatchFields DEF InStep, CallOutcome

\* A batch of calls that is refused has done nothing.
LEMMA RefusedCall ==
  ASSUME NEW r, NEW c, NEW m, OnItsWay(r, c, m), NEW size \in Nat, NEW max \in Nat, NEW ok
  PROVE  CallOutcome(r, c, m, size, max, Refused(m, ok))
  <1>1. Refused(m, ok).n = 0 /\ Refused(m, ok).m = m /\ 0 * size = 0
    BY DEF Refused, Batch
  <1>2. Instructions(c, m, 0) = m
    BY InstructionsByOne
  <1>3. QED
    BY <1>1, <1>2 DEF CallOutcome

\* A batch of FunctionCallAdd is as many instructions.
LEMMA CallAddBatch ==
  ASSUME HalfAssumption, CapturedAssumption, NEW r \in RangeSet, NEW c \in Codes, NEW m,
         OnItsWay(r, c, m), m.pc = 1, MatchFunctionCallAdd(c),
         m.regs[c[1].b.index] = Adder, NEW max \in Nat, NEW ok \in Nat
  PROVE  CallOutcome(r, c, m, 6, max, TryExecuteFunctionCallAddForLoopBatch(c, m, max, ok))
  <1> DEFINE sum == c[5].a
             B == TryExecuteFunctionCallAddForLoopBatch(c, m, max, ok)
             b == [Batch(m, ok) EXCEPT !.sum = m.regs[sum].n]
             Kept == {x \in Batches : CallAddInStep(r, c, m, x)}
  <1>1. Len(c) > 1 /\ sum \in FrameRegisters
    <2>1. Len(c) = 6 /\ sum \in FrameRegisters
      BY CallAddCode, CallAddOperands
    <2>2. QED
      BY <2>1
  <1>2. m \in Machines /\ m.regs[sum] \in LoopValues
    BY <1>1, MachineFields DEF OnItsWay
  <1>3. CASE ~Holds(m, Control \cup {sum})
    BY <1>3, RefusedCall DEF TryExecuteFunctionCallAddForLoopBatch
  <1>4. CASE Holds(m, Control \cup {sum})
    <2>1. IsInteger(m.regs[sum]) /\ m.regs[sum].n \in Int
      BY <1>2, <1>4, IntegerFacts, IntegersAreIntegers DEF Holds
    <2>2. Started(r, c, m, b) /\ b.sum = m.regs[sum].n
      BY <1>1, <2>1, StartsWithSum
    <2>3. b \in Kept /\ b.n = 0 /\ \A x \in Kept : x.n \in Nat
      <3>1. InStep(r, c, m, 6, b) /\ b.m = m /\ b \in Batches /\ b.n = 0
        BY <2>2, StartsInStep DEF Started
      <3>2. CallAddInStep(r, c, m, b)
        BY <2>1, <2>2, <3>1 DEF CallAddInStep
      <3>3. QED
        BY <3>1, <3>2, BatchFields
    <2>4. ASSUME NEW x \in Kept, x.on
          PROVE  Round("FunctionCallAdd", c, x) \in Kept /\ Round("FunctionCallAdd", c, x).n <= x.n + 1
      <3>1. PICK next : next = CallAddRound(c, x)
        OBVIOUS
      <3>2. /\ CallAddInStep(r, c, m, next) /\ next.n = x.n + 1 /\ next.ok = x.ok
            /\ CallAddInStep(r, c, m, x) /\ x.n \in Nat
        BY <2>4, <3>1, CallAddRoundInStep, BatchFields
      <3>3. PICK y : y = Checked(x, next)
        OBVIOUS
      <3>4. Round("FunctionCallAdd", c, x) = y
        BY <3>1, <3>3 DEF Round
      <3>5. InStep(r, c, m, 6, y) /\ y.n <= x.n + 1 /\ (Same(y, x) \/ Same(y, next))
        <4>1. InStep(r, c, m, 6, x) /\ InStep(r, c, m, 6, next) /\ next.n <= x.n + 1
          BY <3>2 DEF CallAddInStep
        <4>2. QED
          BY <2>4, <3>2, <3>3, <4>1, CheckedInStep
      <3>6. CallAddInStep(r, c, m, y) /\ y \in Batches
        BY <3>2, <3>5 DEF CallAddInStep, Same, InStep
      <3>7. QED
        BY <3>4, <3>5, <3>6
    <2> HIDE DEF Kept, b
    <2>5. Iterate("FunctionCallAdd", c, b, max) \in Kept /\ Iterate("FunctionCallAdd", c, b, max).n <= max
      BY <2>3, <2>4, IterateKeeps
    <2>6. B = Iterate("FunctionCallAdd", c, b, max)
      BY <1>4 DEF TryExecuteFunctionCallAddForLoopBatch, b
    <2>7. QED
      BY <2>5, <2>6, InStepCallOutcome DEF Kept, CallAddInStep
  <1>5. QED
    BY <1>3, <1>4

-----------------------------------------------------------------------------
(* x = f(K), where f adds to its upvalue *)

\* The call of a function that adds to its upvalue.
LEMMA CallsCounter ==
  ASSUME HalfAssumption, CapturedAssumption, NEW r \in RangeSet, NEW c \in Codes, NEW m,
         NEW k, NEW i, NEW x, NEW y, Executes(r, c, m, k, i, x, y), c[i].op = "CALL",
         NEW slot, slot = c[i].a, NEW f, f = x.regs[slot], f.kind = "counter",
         IsInteger(Upvalue(x, f)), IsInteger(x.regs[slot + 1]),
         NEW v, v = IntegerValue(Wrap(Upvalue(x, f).n + x.regs[slot + 1].n))
  PROVE  /\ At(r, c, m, k + 1, y) /\ y.pc = i + 1 /\ v \in LoopValues
         /\ UpvalueSet(SetUpvalue(x, f, v), x, f, v)
         /\ Writes(y, SetUpvalue(x, f, v), slot, v)
  <1>1. x \in Machines /\ x.pc = i /\ c[i] \in BodyInstructions /\ y = ExecuteInstruction(c, x)
        /\ At(r, c, m, k, x) /\ x.pc \in 1 .. Len(c)
    BY DEF Executes, At
  <1>2. v \in LoopValues /\ Writes(y, SetUpvalue(x, f, v), slot, v)
    BY <1>1, CallCounterStep
  <1>3. f \in LoopValues
    BY <1>1, BodyFacts, MachineFields
  <1>4. UpvalueSet(SetUpvalue(x, f, v), x, f, v)
    BY <1>1, <1>2, <1>3, UpvalueFacts
  <1>5. At(r, c, m, k + 1, y)
    BY <1>1, NextAt
  <1>6. y.pc = i + 1
    BY <1>1, <1>2, <1>4 DEF Writes, UpvalueSet
  <1>7. QED
    BY <1>2, <1>4, <1>5, <1>6

\* The body of ClosureUpvalue,
LEMMA ClosureCode ==
  ASSUME NEW c \in Codes, MatchClosureUpvalue(c)
  PROVE  /\ Len(c) = 5 /\ \A i \in 1 .. 4 : c[i] \in BodyInstructions
         /\ c[1].op = "MOVE" /\ c[2].op = "LOADK" /\ c[3].op = "CALL" /\ c[4].op = "MOVE"
  <1>1. PICK t : t = <<"MOVE", "LOADK", "CALL", "MOVE", "FORLOOP">>
    OBVIOUS
  <1>2. /\ DOMAIN t = 1 .. 5 /\ t = Ops(c) /\ t[1] = "MOVE" /\ t[2] = "LOADK" /\ t[3] = "CALL"
        /\ t[4] = "MOVE"
    BY <1>1 DEF MatchClosureUpvalue
  <1>3. Shaped(c, 5, t)
    BY <1>2, OpsAre
  <1>4. QED
    BY <1>2, <1>3 DEF Shaped

\* and its registers.
LEMMA ClosureOperands ==
  ASSUME NEW c \in Codes, MatchClosureUpvalue(c), NEW slot, slot = c[3].a,
         NEW source, source = c[1].b.index, NEW target, target = c[4].a
  PROVE  /\ c[1].a = slot /\ c[2].a = slot + 1
         /\ {slot, slot + 1, source, target} \subseteq FrameRegisters
         /\ slot \in Int /\ slot > 3 /\ Visible = 3
         /\ slot \notin Captured /\ slot + 1 \notin Captured
         /\ source \notin {0, 1, 2, 3, slot, slot + 1}
         /\ target \notin {0, 1, 2, 3, slot, slot + 1} /\ source # target
         /\ ~c[1].b.constant /\ c[4].b = R(slot) /\ IntegerConstant(c[2].b)
         /\ c[2].b.value \in LoopValues /\ c[2].b.constant
  <1>1. /\ \A i \in 1 .. 4 : c[i] \in BodyInstructions
        /\ c[1].op = "MOVE" /\ c[3].op = "CALL" /\ c[1] \in BodyInstructions
        /\ c[2] \in BodyInstructions /\ c[3] \in BodyInstructions /\ c[4] \in BodyInstructions
    BY ClosureCode
  <1>2. /\ <<c[1].a, c[2].a>> = <<slot, slot + 1>>
        /\ c[4].b = R(slot) /\ IntegerConstant(c[2].b)
        /\ FunctionKept(source, slot .. slot + 1, target)
    BY DEF MatchClosureUpvalue
  <1>3. /\ slot \in FrameRegisters /\ slot + 1 \in FrameRegisters
        /\ slot \in Int /\ slot > 3 /\ Visible = 3
        /\ slot \notin Captured /\ slot + 1 \notin Captured
        /\ source \notin {0, 1, 2, 3, slot, slot + 1} /\ target \notin {0, 1, 2, 3, slot, slot + 1}
        /\ source # target
    <2>1. PICK n \in {1, 2} : n = 1
      OBVIOUS
    <2>2. PICK slots : slots = slot .. slot + n
      OBVIOUS
    <2>3. FunctionKept(source, slots, target)
      BY <1>2, <2>1, <2>2
    <2>4. PICK call \in BodyInstructions : call = c[3]
      BY <1>1
    <2>5. /\ call.op = "CALL" /\ call.a = slot /\ slots = call.a .. call.a + n
      BY <1>1, <2>2, <2>4
    <2>6. /\ call.a \in FrameRegisters /\ call.a + 1 \in FrameRegisters
          /\ call.a \in Int /\ call.a > 3 /\ Visible = 3
          /\ call.a \notin Captured /\ call.a + 1 \notin Captured
          /\ source \notin {0, 1, 2, 3, call.a, call.a + 1}
          /\ target \notin {0, 1, 2, 3, call.a, call.a + 1}
          /\ source # target
      BY <2>3, <2>5, KeptFunction
    <2>7. QED
      BY <2>5, <2>6
  <1>4. ~c[1].b.constant /\ source \in FrameRegisters /\ target \in FrameRegisters
    BY <1>1, BodyFacts DEF Operands
  <1>5. c[2].b \in Operands /\ c[2].b.constant /\ c[2].b.value \in LoopValues
    BY <1>1, <1>2, BodyFacts DEF IntegerConstant, Operands
  <1>6. c[1].a = slot /\ c[2].a = slot + 1
    BY <1>2
  <1>7. QED
    BY <1>2, <1>3, <1>4, <1>5, <1>6

UpvalueInStep(r, c, m, b) ==
  /\ InStep(r, c, m, 5, b)
  /\ b.callee.kind = "counter" /\ b.m.regs[c[1].b.index] = b.callee
  /\ b.sum \in Integers64 /\ Upvalue(b.m, b.callee) = IntegerValue(b.sum)

\* A round of ClosureUpvalue is its five instructions, whether the upvalue
\* is the counter's own or a register of the frame.
LEMMA UpvalueRoundInStep ==
  ASSUME HalfAssumption, CapturedAssumption, NEW r \in RangeSet, NEW c \in Codes, NEW m,
         MatchClosureUpvalue(c), NEW b, UpvalueInStep(r, c, m, b), b.on
  PROVE  /\ UpvalueInStep(r, c, m, UpvalueRound(c, b)) /\ UpvalueRound(c, b).n = b.n + 1
         /\ UpvalueRound(c, b).ok = b.ok
  <1> DEFINE slot == c[3].a
             source == c[1].b.index
             target == c[4].a
             K1  == c[2].b.value
             N   == b.n * 5
             f   == b.callee
             total == Wrap(b.sum + K1.n)
             v   == IntegerValue(total)
             e1  == ExecuteInstruction(c, b.m)
             e2  == ExecuteInstruction(c, e1)
             e3  == ExecuteInstruction(c, e2)
             e4  == ExecuteInstruction(c, e3)
             s   == SetUpvalue(b.m, f, v)
             w   == Put(Put(Put(s, slot, v), slot + 1, K1), target, v)
             a   == [b EXCEPT !.sum = v.n, !.m = w]
             e   == Publish(Advance(c, a))
  <1>1. /\ Len(c) = 5 /\ \A k \in 1 .. 4 : c[k] \in BodyInstructions
        /\ c[1].op = "MOVE" /\ c[2].op = "LOADK" /\ c[3].op = "CALL" /\ c[4].op = "MOVE"
    BY ClosureCode
  <1>2. /\ c[1].a = slot /\ c[2].a = slot + 1
        /\ {slot, slot + 1, source, target} \subseteq FrameRegisters
        /\ slot \in Int /\ slot > 3 /\ Visible = 3
        /\ slot \notin Captured /\ slot + 1 \notin Captured
        /\ source \notin {0, 1, 2, 3, slot, slot + 1}
        /\ target \notin {0, 1, 2, 3, slot, slot + 1} /\ source # target
        /\ ~c[1].b.constant /\ c[4].b = R(slot) /\ IntegerConstant(c[2].b)
        /\ K1 \in LoopValues /\ c[2].b.constant
    BY ClosureOperands
  <1>3. /\ InStep(r, c, m, 5, b) /\ f.kind = "counter" /\ b.m.regs[source] = f
        /\ b.sum \in Integers64 /\ Upvalue(b.m, f) = IntegerValue(b.sum)
    BY DEF UpvalueInStep
  <1>4. /\ b \in Batches /\ b.m \in Machines /\ b.n \in Nat
        /\ At(r, c, m, N, b.m) /\ b.m.pc = 1
        /\ b.m.regs[Visible] = b.m.regs[0] /\ f \in LoopValues
        /\ {0, 1, 2, Visible} \subseteq FrameRegisters
    <2>1. Len(c) > 1 /\ 5 \in Nat
      BY <1>1
    <2>2. AtStart(r, c, m, 5, b)
      BY <1>3, <2>1, RoundStarts
    <2>3. QED
      BY <2>2, BatchFields DEF AtStart, At
  <1>5. UpvalueRound(c, b) = e
    BY DEF UpvalueRound
  <1>6. /\ IsInteger(K1) /\ K1.n \in Int /\ b.sum \in Int
        /\ IsInteger(IntegerValue(b.sum)) /\ IntegerValue(b.sum).n = b.sum
    BY <1>2, <1>3, IntegerFacts, IntegersAreIntegers DEF IntegerConstant
  <1>7. /\ total \in Integers64 /\ v \in LoopValues /\ v.n = total /\ total \in Int
    <2>1. total \in Integers64
      BY <1>6, WrapInRange
    <2> HIDE DEF total
    <2>2. QED
      BY <2>1, IntegerFacts, IntegersAreIntegers
  <1> HIDE DEF N, e
  <1>8. Stepped(r, c, m, N, 1, b.m, e1, slot, f)
    <2>1. Executes(r, c, m, N, 1, b.m, e1) /\ f = Value(b.m, c[1].b)
      BY <1>1, <1>2, <1>3, <1>4 DEF Executes, Value
    <2>2. QED
      BY <1>1, <1>2, <2>1, Moves
  <1> HIDE DEF e1
  <1>9. /\ At(r, c, m, N + 1, e1) /\ e1.pc = 2 /\ e1.table = b.m.table /\ e1.upvalue = b.m.upvalue
        /\ \A q \in FrameRegisters : e1.regs[q] = IF q = slot THEN f ELSE b.m.regs[q]
    BY <1>8 DEF Stepped, Writes
  <1>10. Stepped(r, c, m, N + 1, 2, e1, e2, slot + 1, K1)
    <2>1. Executes(r, c, m, N + 1, 2, e1, e2) /\ K1 = Value(e1, c[2].b)
      BY <1>1, <1>2, <1>9 DEF Executes, Value
    <2>2. QED
      BY <1>1, <1>2, <2>1, Moves
  <1> HIDE DEF e2
  <1>11. /\ At(r, c, m, (N + 1) + 1, e2) /\ e2.pc = 3 /\ e2.table = b.m.table /\ e2.upvalue = b.m.upvalue
         /\ \A q \in FrameRegisters : e2.regs[q] = IF q = slot + 1 THEN K1 ELSE
              IF q = slot THEN f ELSE b.m.regs[q]
    BY <1>9, <1>10 DEF Stepped, Writes
  \* The register the counter has captured is none of the call's.
  <1>12. UpvalueSet(s, b.m, f, v)
    <2> HIDE DEF v
    <2>1. QED
      BY <1>3, <1>4, <1>7, UpvalueFacts
  <1>13. /\ f.n \in {0} \cup Captured /\ f.n \in FrameRegisters /\ (f.n \in Captured => f.n > 3)
         /\ f.n # slot /\ f.n # slot + 1 /\ f.n # source
    <2>1. f.n \in {0} \cup Captured /\ f.n \in FrameRegisters /\ (f.n \in Captured => f.n > 3)
      BY <1>2, <1>12 DEF UpvalueSet
    <2>2. f.n # slot /\ f.n # slot + 1
      BY <1>2, <2>1
    <2>3. f.n # source
      <3>1. f.n = source => f.n # 0
        BY <1>2
      <3>2. f.n = source => Upvalue(b.m, f) = f
        BY <1>3, <3>1 DEF Upvalue
      <3>3. ~IsInteger(f)
        BY <1>3 DEF IsInteger
      <3>4. QED
        BY <1>3, <1>6, <3>2, <3>3
    <2>4. QED
      BY <2>1, <2>2, <2>3
  <1>14. Upvalue(e2, f) = IntegerValue(b.sum) /\ e2.regs[slot] = f /\ e2.regs[slot + 1] = K1
    <2>1. Upvalue(e2, f) = Upvalue(b.m, f)
      BY <1>11, <1>13 DEF Upvalue
    <2>2. QED
      BY <1>2, <1>3, <1>11, <2>1
  <1>15. /\ At(r, c, m, ((N + 1) + 1) + 1, e3) /\ e3.pc = 4
         /\ UpvalueSet(SetUpvalue(e2, f, v), e2, f, v)
         /\ Writes(e3, SetUpvalue(e2, f, v), slot, v)
    <2>1. Executes(r, c, m, (N + 1) + 1, 3, e2, e3)
      BY <1>1, <1>11 DEF Executes
    <2>2. v = IntegerValue(Wrap(Upvalue(e2, f).n + e2.regs[slot + 1].n))
      BY <1>6, <1>14
    <2>3. IsInteger(Upvalue(e2, f)) /\ IsInteger(e2.regs[slot + 1])
      BY <1>6, <1>14
    <2> HIDE DEF v, f
    <2>4. f = e2.regs[slot] /\ f.kind = "counter" /\ c[3].op = "CALL"
      BY <1>1, <1>3, <1>14
    <2>5. QED
      BY <2>1, <2>2, <2>3, <2>4, CallsCounter
  <1> HIDE DEF e3
  <1>16. /\ e3.table = b.m.table
         /\ (f.n = 0 => e3.upvalue = v) /\ (f.n # 0 => e3.upvalue = b.m.upvalue)
         /\ \A q \in FrameRegisters : e3.regs[q] =
              IF q = slot \/ (q = f.n /\ f.n # 0) THEN v ELSE
              IF q = slot + 1 THEN K1 ELSE b.m.regs[q]
    BY <1>2, <1>11, <1>13, <1>15 DEF Writes, UpvalueSet
  <1>17. Stepped(r, c, m, ((N + 1) + 1) + 1, 4, e3, e4, target, v)
    <2>1. v = Value(e3, c[4].b)
      BY <1>2, <1>16 DEF Value, R
    <2>2. Executes(r, c, m, ((N + 1) + 1) + 1, 4, e3, e4)
      BY <1>1, <1>15 DEF Executes
    <2> HIDE DEF v
    <2>3. QED
      BY <1>1, <2>1, <2>2, Moves
  <1> HIDE DEF e4
  <1>18. /\ At(r, c, m, (((N + 1) + 1) + 1) + 1, e4) /\ e4.pc = 5 /\ e4.table = b.m.table
         /\ e4.upvalue = e3.upvalue
         /\ \A q \in FrameRegisters : e4.regs[q] =
              IF q = target \/ q = slot \/ (q = f.n /\ f.n # 0) THEN v ELSE
              IF q = slot + 1 THEN K1 ELSE b.m.regs[q]
    BY <1>2, <1>13, <1>16, <1>17 DEF Stepped, Writes
  <1> HIDE DEF v, total, K1
  <1>19. /\ w \in Machines /\ w.pc = b.m.pc /\ w.table = b.m.table /\ w.upvalue = e3.upvalue
         /\ \A q \in FrameRegisters : w.regs[q] =
              IF q = target \/ q = slot \/ (q = f.n /\ f.n # 0) THEN v ELSE
              IF q = slot + 1 THEN K1 ELSE b.m.regs[q]
    <2> DEFINE u1 == Put(s, slot, v)
               u2 == Put(u1, slot + 1, K1)
    <2>1. /\ slot + 1 \in FrameRegisters /\ slot \in FrameRegisters /\ target \in FrameRegisters
          /\ slot # slot + 1
      BY <1>2
    <2>2. /\ s \in Machines /\ s.pc = b.m.pc /\ s.table = b.m.table /\ s.upvalue = e3.upvalue
          /\ \A q \in FrameRegisters : s.regs[q] = IF q = f.n /\ f.n # 0 THEN v ELSE b.m.regs[q]
      BY <1>12, <1>16 DEF UpvalueSet
    <2> HIDE DEF slot, target, s
    <2>3. /\ u1 \in Machines /\ u1.pc = s.pc /\ u1.table = s.table /\ u1.upvalue = s.upvalue
          /\ \A q \in FrameRegisters : u1.regs[q] = IF q = slot THEN v ELSE s.regs[q]
      BY <1>7, <2>1, <2>2, PutFields
    <2> HIDE DEF u1
    <2>4. /\ u2 \in Machines /\ u2.pc = u1.pc /\ u2.table = u1.table /\ u2.upvalue = u1.upvalue
          /\ \A q \in FrameRegisters : u2.regs[q] = IF q = slot + 1 THEN K1 ELSE u1.regs[q]
      BY <1>2, <2>1, <2>3, PutFields
    <2>5. w = Put(u2, target, v)
      BY DEF u1, u2
    <2> HIDE DEF u2, w
    <2>6. /\ w \in Machines /\ w.pc = u2.pc /\ w.table = u2.table /\ w.upvalue = u2.upvalue
          /\ \A q \in FrameRegisters : w.regs[q] = IF q = target THEN v ELSE u2.regs[q]
      BY <1>7, <2>1, <2>4, <2>5, PutFields
    <2>7. f.n # slot + 1 /\ slot + 1 # target
      BY <1>2, <1>13 DEF slot, target
    <2>8. QED
      BY <2>1, <2>2, <2>3, <2>4, <2>6, <2>7
  <1> HIDE DEF w, s
  <1>20. /\ a \in Batches /\ a.m = w /\ a.index = b.index /\ a.visible = b.visible /\ a.n = b.n
         /\ a.on /\ a.sum = total /\ a.ok = b.ok /\ a.callee = f
    BY <1>4, <1>7, <1>19 DEF Batches
  <1> HIDE DEF a
  <1>21. /\ InStep(r, c, m, 5, e) /\ e.n = b.n + 1 /\ e.sum = total /\ e.ok = b.ok /\ e.callee = f
         /\ e.m.upvalue = e4.upvalue
         /\ \A q \in FrameRegisters \ {0, Visible} : e.m.regs[q] = e4.regs[q]
    <2>1. e4 = Instructions(c, m, b.n * 5 + (5 - 1)) /\ OnItsWay(r, c, e4)
      <3>1. (((N + 1) + 1) + 1) + 1 = b.n * 5 + (5 - 1)
        BY <1>4 DEF N
      <3>2. QED
        BY <1>18, <3>1 DEF At
    <2>2. /\ e4.regs[0] = b.m.regs[0] /\ e4.regs[Visible] = b.m.regs[0]
          /\ a.m.table = e4.table /\ a.m.upvalue = e4.upvalue
          /\ \A q \in FrameRegisters : a.m.regs[q] = e4.regs[q]
      <3>1. \A q \in {0, Visible} : e4.regs[q] = b.m.regs[q]
        BY <1>2, <1>4, <1>13, <1>18
      <3>2. QED
        BY <1>4, <1>18, <1>19, <1>20, <3>1
    <2>3. Written(r, c, m, 5, b, e4, a)
      BY <1>1, <1>3, <1>18, <1>20, <2>1, <2>2 DEF Written
    <2>4. RoundDone(r, c, m, 5, b, e4, a, e)
      BY <2>3, RoundInStep DEF e
    <2>5. QED
      BY <1>20, <2>4 DEF RoundDone
  <1>22. e.m.regs[source] = f /\ Upvalue(e.m, f) = v
    <2>1. e.m.regs[source] = f
      BY <1>2, <1>3, <1>13, <1>18, <1>21
    <2>2. CASE f.n = 0
      <3>1. e.m.upvalue = v
        BY <1>16, <1>18, <1>21, <2>2
      <3> HIDE DEF f
      <3>2. QED
        BY <2>1, <2>2, <3>1 DEF Upvalue
    <2>3. CASE f.n # 0
      <3>1. f.n \in FrameRegisters \ {0, Visible}
        BY <1>2, <1>13, <2>3
      <3>2. e.m.regs[f.n] = v
        BY <1>18, <1>21, <2>3, <3>1
      <3> HIDE DEF f
      <3>3. QED
        BY <2>1, <2>3, <3>2 DEF Upvalue
    <2>4. QED
      BY <2>1, <2>2, <2>3
  <1>23. QED
    BY <1>3, <1>5, <1>7, <1>21, <1>22 DEF UpvalueInStep, v

\* A batch of ClosureUpvalue is as many instructions.
LEMMA UpvalueBatch ==
  ASSUME HalfAssumption, CapturedAssumption, NEW r \in RangeSet, NEW c \in Codes, NEW m,
         OnItsWay(r, c, m), m.pc = 1, MatchClosureUpvalue(c),
         m.regs[c[1].b.index].kind = "counter", NEW max \in Nat, NEW ok \in Nat
  PROVE  CallOutcome(r, c, m, 5, max, TryExecuteClosureUpvalueForLoopBatch(c, m, max, ok))
  <1> DEFINE f == m.regs[c[1].b.index]
             B == TryExecuteClosureUpvalueForLoopBatch(c, m, max, ok)
             b == [Batch(m, ok) EXCEPT !.callee = f, !.sum = Upvalue(m, f).n]
             Kept == {x \in Batches : UpvalueInStep(r, c, m, x)}
  <1>1. Len(c) > 1
    <2>1. Len(c) = 5
      BY ClosureCode
    <2>2. QED
      BY <2>1
  <1>2. m \in Machines /\ Holds(m, 0 .. 2) /\ f \in LoopValues
    <2>1. c[1].b.index \in FrameRegisters
      BY ClosureOperands
    <2>2. QED
      BY <2>1, MachineFields DEF OnItsWay
  <1>3. CASE ~IsInteger(Upvalue(m, f))
    BY <1>3, RefusedCall DEF TryExecuteClosureUpvalueForLoopBatch
  <1>4. CASE IsInteger(Upvalue(m, f))
    <2>1. /\ Upvalue(m, f).n \in Int /\ Upvalue(m, f).n \in Integers64
          /\ Upvalue(m, f) = IntegerValue(Upvalue(m, f).n)
      <3>1. Upvalue(m, f) \in LoopValues
        BY <1>2, UpvalueFacts
      <3>2. QED
        BY <1>4, <3>1, IntegerFacts, IntegersAreIntegers
    <2>2. Started(r, c, m, b) /\ b.sum = Upvalue(m, f).n /\ b.callee = f
      <3>1. PICK g \in LoopValues : g = f
        BY <1>2
      <3>2. PICK u \in Int : u = Upvalue(m, f).n
        BY <2>1
      <3>3. PICK a, y : a = Batch(m, ok) /\ y = [a EXCEPT !.callee = g, !.sum = u]
        OBVIOUS
      <3>4. Started(r, c, m, y) /\ y.sum = u /\ y.callee = g
        <4>1. Started(r, c, m, a)
          BY <1>1, <3>3, Starts
        <4>2. QED
          BY <3>3, <4>1 DEF Started, Batches
      <3>5. y = b
        BY <3>1, <3>2, <3>3
      <3> HIDE DEF b, f
      <3>6. QED
        BY <3>1, <3>2, <3>4, <3>5
    <2>3. b \in Kept /\ b.n = 0 /\ \A x \in Kept : x.n \in Nat
      <3>1. InStep(r, c, m, 5, b) /\ b.m = m /\ b \in Batches /\ b.n = 0
        BY <2>2, StartsInStep DEF Started
      <3>2. UpvalueInStep(r, c, m, b)
        BY <2>1, <2>2, <3>1 DEF UpvalueInStep
      <3>3. QED
        BY <3>1, <3>2, BatchFields
    <2>4. ASSUME NEW x \in Kept, x.on
          PROVE  Round("ClosureUpvalue", c, x) \in Kept /\ Round("ClosureUpvalue", c, x).n <= x.n + 1
      <3>1. PICK next : next = UpvalueRound(c, x)
        OBVIOUS
      <3>2. /\ UpvalueInStep(r, c, m, next) /\ next.n = x.n + 1 /\ next.ok = x.ok
            /\ UpvalueInStep(r, c, m, x) /\ x.n \in Nat
        <4>1. UpvalueInStep(r, c, m, x) /\ x.n \in Nat
          BY BatchFields
        <4>2. QED
          BY <2>4, <3>1, <4>1, UpvalueRoundInStep
      <3>3. PICK y : y = Checked(x, next)
        OBVIOUS
      <3>4. Round("ClosureUpvalue", c, x) = y
        BY <3>1, <3>3 DEF Round
      <3>5. InStep(r, c, m, 5, y) /\ y.n <= x.n + 1 /\ (Same(y, x) \/ Same(y, next))
        <4>1. InStep(r, c, m, 5, x) /\ InStep(r, c, m, 5, next) /\ next.n <= x.n + 1
          BY <3>2 DEF UpvalueInStep
        <4>2. QED
          BY <2>4, <3>2, <3>3, <4>1, CheckedInStep
      <3>6. UpvalueInStep(r, c, m, y) /\ y \in Batches
        BY <3>2, <3>5 DEF UpvalueInStep, Same, InStep
      <3>7. QED
        BY <3>4, <3>5, <3>6
    <2> HIDE DEF Kept, b
    <2>5. Iterate("ClosureUpvalue", c, b, max) \in Kept /\ Iterate("ClosureUpvalue", c, b, max).n <= max
      BY <2>3, <2>4, IterateKeeps
    <2>6. B = Iterate("ClosureUpvalue", c, b, max)
      BY <1>2, <1>4 DEF TryExecuteClosureUpvalueForLoopBatch, b
    <2>7. QED
      BY <2>5, <2>6, InStepCallOutcome DEF Kept, UpvalueInStep
  <1>5. QED
    BY <1>3, <1>4
=============================================================================
