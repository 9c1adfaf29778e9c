---------------------------- MODULE LoopsProofs -----------------------------
(***************************************************************************)
(* Theorems about Loops for integers of any width, any interval between    *)
(* checks and any loop of the recognised instructions: a super-instruction *)
(* is the instructions it stands for, and a cancellation stops it between  *)
(* two of them.                                                            *)
(***************************************************************************)
EXTENDS LoopBatchesProofs

-----------------------------------------------------------------------------
(* Batches that are computed in locals, and committed *)

\* x is the machine after the rounds of b, whose own registers are still m's.
Local(r, c, m, size, b, x) ==
  /\ b \in Batches /\ x = Instructions(c, m, b.n * size) /\ OnItsWay(r, c, x)
  /\ b.m.regs = m.regs /\ b.m.table = m.table /\ b.m.upvalue = m.upvalue
  /\ b.m.pc = x.pc /\ x.table = m.table /\ x.upvalue = m.upvalue
  /\ x.regs[0] = IntegerValue(b.index) /\ x.regs[Visible] = IntegerValue(b.visible)
  /\ b.visible \in Integers64
  /\ b.on => x.pc = 1 /\ b.visible = b.index

\* Before its first round a batch that is computed in locals is at its
\* machine.
LEMMA StartsLocal ==
  ASSUME HalfAssumption, NEW r, NEW c, NEW m, NEW b, Started(r, c, m, b), NEW size \in Nat
  PROVE  Local(r, c, m, size, b, m)
  <1>1. 0 * size = 0 /\ Instructions(c, m, 0) = m
    BY InstructionsByOne
  <1>2. m.regs[0] = IntegerValue(m.regs[0].n)
    BY ControlsAreIntegers DEF Started
  <1>3. QED
    BY <1>1, <1>2 DEF Started, Local

\* A round has written to the locals of a what its instructions have to p.
LocallyWritten(r, c, m, size, b, x, p, a) ==
  /\ size = Len(c) /\ size > 1 /\ Local(r, c, m, size, b, x) /\ b.on
  /\ p = Instructions(c, m, b.n * size + (size - 1)) /\ OnItsWay(r, c, p) /\ p.pc = size
  /\ p.table = x.table /\ p.upvalue = x.upvalue
  /\ p.regs[0] = x.regs[0] /\ p.regs[Visible] = x.regs[Visible]
  /\ a \in Batches /\ a.m = b.m /\ a.index = b.index /\ a.visible = b.visible
  /\ a.n = b.n /\ a.on

LocallyDone(r, c, m, size, b, p, a, e, f) ==
  /\ Local(r, c, m, size, e, f) /\ e.n = b.n + 1
  /\ e.sum = a.sum /\ e.temp = a.temp /\ e.mod = a.mod /\ e.ok = a.ok
  /\ \A q \in FrameRegisters \ {0, Visible} : f.regs[q] = p.regs[q]

\* A round that is computed in locals ends as its FORLOOP does.
LEMMA LocalRound ==
  ASSUME HalfAssumption, CapturedAssumption, NEW r \in RangeSet, NEW c \in Codes, NEW m \in Machines,
         Holds(m, 0 .. 2), m.regs[1].n = forIntegerLimitValue(r.limit, r.step),
         m.regs[2].n = r.step,
         NEW size \in Nat, NEW b, NEW x, NEW p, NEW a, LocallyWritten(r, c, m, size, b, x, p, a),
         NEW e, e = Advance(c, a), NEW f, f = ExecuteInstruction(c, p)
  PROVE  LocallyDone(r, c, m, size, b, p, a, e, f)
  <1>1. /\ p \in Machines /\ Holds(p, 0 .. 2) /\ p.regs[1].n = m.regs[1].n
        /\ p.regs[2].n = m.regs[2].n /\ p.pc = Len(c) /\ b \in Batches
    BY DEF LocallyWritten, OnItsWay, Local
  <1>2. \A q \in {1, 2} : p.regs[q] = m.regs[q]
    BY <1>1, ControlsAreIntegers
  <1>3. a.m.regs = m.regs /\ Holds(a.m, 0 .. 2)
    BY DEF LocallyWritten, Local, Holds
  <1>4. b.n \in Nat /\ b.n * size \in Nat
    <2>1. b.n \in Nat
      BY <1>1, BatchFields
    <2>2. QED
      BY <2>1
  <1>5. PICK k \in Nat : k = b.n * size + (size - 1)
    BY <1>4 DEF LocallyWritten
  <1>6. k + 1 = (b.n + 1) * size
    BY <1>4, <1>5
  <1>7. /\ p = Instructions(c, m, k) /\ OnItsWay(r, c, p) /\ p.regs[0] = IntegerValue(a.index)
        /\ a.visible = a.index /\ p.regs[Visible] = IntegerValue(a.visible)
        /\ a.visible \in Integers64 /\ a \in Batches /\ a.on
    BY <1>5 DEF LocallyWritten, Local
  <1>8. EndsAs(r, c, m, k, p, a, e, f)
    <2>1. a.index = p.regs[0].n
      BY <1>7 DEF IntegerValue
    <2>2. a.m.regs[1] = p.regs[1] /\ a.m.regs[2] = p.regs[2]
      BY <1>2, <1>3
    <2>3. QED
      BY <1>1, <1>3, <1>7, <2>1, <2>2, EndOfRound
  <1>9. /\ e \in Batches /\ e.n = b.n + 1 /\ e.sum = a.sum /\ e.temp = a.temp /\ e.mod = a.mod
        /\ e.ok = a.ok /\ \A q \in FrameRegisters \ {0, Visible} : f.regs[q] = p.regs[q]
        /\ e.m.regs = m.regs /\ e.m.table = m.table /\ e.m.upvalue = m.upvalue
        /\ f.table = m.table /\ f.upvalue = m.upvalue /\ e.m.pc = f.pc
    BY <1>3, <1>8 DEF EndsAs, LocallyWritten, Local
  <1>10. f = Instructions(c, m, e.n * size) /\ OnItsWay(r, c, f)
    BY <1>6, <1>8, <1>9 DEF EndsAs
  <1>11. /\ f.regs[0] = IntegerValue(e.index) /\ f.regs[Visible] = IntegerValue(e.visible)
         /\ e.visible \in Integers64 /\ (e.on => f.pc = 1 /\ e.visible = e.index)
    <2>1. CASE e.on
      <3>1. e.index \in Integers64
        BY <1>9, BatchFields
      <3>2. QED
        BY <1>8, <2>1, <3>1 DEF EndsAs
    <2>2. CASE ~e.on
      BY <1>7, <1>8, <2>2 DEF EndsAs
    <2>3. QED
      BY <2>1, <2>2
  <1>12. Local(r, c, m, size, e, f)
    BY <1>9, <1>10, <1>11 DEF Local
  <1>13. QED
    BY <1>9, <1>12 DEF LocallyDone

\* The registers that the locals stand for are written, and then published.
LEMMA Commit ==
  ASSUME HalfAssumption, NEW r, NEW c, NEW m, NEW size, NEW b, NEW x, Local(r, c, m, size, b, x),
         NEW w \in Machines, w.pc = b.m.pc, w.table = b.m.table, w.upvalue = b.m.upvalue,
         \A q \in FrameRegisters \ {0, Visible} : w.regs[q] = x.regs[q],
         NEW d, d = [b EXCEPT !.m = w]
  PROVE  Publish(d).m = x /\ Publish(d).n = b.n /\ Publish(d).ok = b.ok
         /\ Publish(d).cancelled = b.cancelled
  <1>1. b \in Batches /\ b.visible \in Integers64 /\ x \in Machines
    BY DEF Local, OnItsWay
  <1>2. /\ d \in Batches /\ d.m = w /\ d.visible = b.visible /\ d.index = b.index
        /\ d.n = b.n /\ d.ok = b.ok /\ d.cancelled = b.cancelled
    BY <1>1 DEF Batches
  <1>3. PublishedAs(Publish(d), d)
    BY <1>1, <1>2, PublishFields
  <1>4. PICK y : y = Publish(d)
    OBVIOUS
  <1>5. /\ y.m \in Machines /\ y.m.pc = x.pc /\ y.m.table = x.table /\ y.m.upvalue = x.upvalue
        /\ \A q \in FrameRegisters : y.m.regs[q] = x.regs[q]
    <2>1. y.m \in Machines
      BY <1>3, <1>4, BatchFields DEF PublishedAs
    <2>2. y.m.pc = x.pc /\ y.m.table = x.table /\ y.m.upvalue = x.upvalue
      BY <1>2, <1>3, <1>4 DEF PublishedAs, Local
    <2>3. \A q \in FrameRegisters : y.m.regs[q] = x.regs[q]
      BY <1>2, <1>3, <1>4 DEF PublishedAs, Local
    <2>4. QED
      BY <2>1, <2>2, <2>3
  <1>6. y.m = x
    BY <1>1, <1>5, MachineEqual
  <1>7. QED
    BY <1>2, <1>3, <1>4, <1>6 DEF PublishedAs

\* The machine that stands for a batch whose loop goes on.
LEMMA LocalAt ==
  ASSUME HalfAssumption, NEW r, NEW c, NEW m, NEW size \in Nat, NEW b, NEW x,
         Local(r, c, m, size, b, x), b.on
  PROVE  /\ At(r, c, m, b.n * size, x) /\ x.pc = 1 /\ b \in Batches /\ b.n \in Nat
         /\ b.visible \in Integers64 /\ x.regs[0] = IntegerValue(b.visible)
         /\ x.regs[Visible] = IntegerValue(b.visible)
         /\ IntegerValue(b.visible) \in LoopValues /\ IsInteger(IntegerValue(b.visible))
         /\ IntegerValue(b.visible).n = b.visible
  <1>1. b \in Batches /\ b.n \in Nat /\ b.n * size \in Nat
    <2>1. b \in Batches /\ b.n \in Nat
      BY BatchFields DEF Local
    <2>2. QED
      BY <2>1
  <1>2. At(r, c, m, b.n * size, x)
    BY <1>1 DEF Local, At, OnItsWay
  <1>3. b.visible \in Integers64 /\ b.visible = b.index
    BY DEF Local
  <1>4. QED
    BY <1>1, <1>2, <1>3, IntegerFacts DEF Local

-----------------------------------------------------------------------------
(* sum = f(sum, i) *)

\* The body of FunctionCallAssign,
LEMMA AssignCode ==
  ASSUME NEW c \in Codes, MatchFunctionCallAssign(c)
  PROVE  /\ Len(c) = 6 /\ \A i \in 1 .. 5 : c[i] \in BodyInstructions
         /\ c[1].op = "MOVE" /\ c[2].op = "MOVE" /\ c[3].op = "MOVE"
         /\ c[4].op = "CALL" /\ c[5].op = "MOVE"
  <1>1. PICK t : t = <<"MOVE", "MOVE", "MOVE", "CALL", "MOVE", "FORLOOP">>
    OBVIOUS
  <1>2. /\ DOMAIN t = 1 .. 6 /\ t = Ops(c) /\ t[1] = "MOVE" /\ t[2] = "MOVE" /\ t[3] = "MOVE"
        /\ t[4] = "CALL" /\ t[5] = "MOVE"
    BY <1>1 DEF MatchFunctionCallAssign
  <1>3. Shaped(c, 6, t)
    BY <1>2, OpsAre
  <1>4. QED
    BY <1>2, <1>3 DEF Shaped

\* and its registers.
LEMMA AssignOperands ==
  ASSUME NEW c \in Codes, MatchFunctionCallAssign(c), NEW slot, slot = c[4].a,
         NEW source, source = c[1].b.index, NEW sum, sum = c[5].a
  PROVE  /\ c[1].a = slot /\ c[2].a = slot + 1 /\ c[3].a = slot + 2
         /\ {slot, slot + 1, slot + 2, source, sum} \subseteq FrameRegisters
         /\ slot \in Int /\ slot > 3 /\ Visible = 3
         /\ source \notin {0, 1, 2, 3, slot, slot + 1, slot + 2}
         /\ sum \notin {0, 1, 2, 3, slot, slot + 1, slot + 2} /\ source # sum
         /\ ~c[1].b.constant /\ c[2].b = R(sum) /\ c[3].b = R(Visible) /\ c[5].b = R(slot)
  <1>1. /\ \A i \in 1 .. 5 : c[i] \in BodyInstructions
        /\ c[1].op = "MOVE" /\ c[4].op = "CALL" /\ c[1] \in BodyInstructions
        /\ c[4] \in BodyInstructions /\ c[5] \in BodyInstructions
    BY AssignCode
  <1>2. /\ <<c[1].a, c[2].a, c[3].a>> = <<slot, slot + 1, slot + 2>>
        /\ c[5].b = R(slot) /\ c[2].b = R(sum) /\ c[3].b = R(Visible)
        /\ FunctionKept(source, slot .. slot + 2, sum)
    BY DEF MatchFunctionCallAssign
  <1>3. /\ slot \in FrameRegisters /\ slot + 1 \in FrameRegisters /\ slot + 2 \in FrameRegisters
        /\ slot \in Int /\ slot > 3 /\ Visible = 3
        /\ source \notin {0, 1, 2, 3, slot, slot + 1, slot + 2} /\ sum \notin {0, 1, 2, 3, slot, slot + 1, slot + 2}
        /\ source # sum
    <2>1. PICK n \in {1, 2} : n = 2
      OBVIOUS
    <2>2. PICK slots : slots = slot .. slot + n
      OBVIOUS
    <2>3. FunctionKept(source, slots, sum)
      BY <1>2, <2>1, <2>2
    <2>4. PICK call \in BodyInstructions : call = c[4]
      BY <1>1
    <2>5. /\ call.op = "CALL" /\ call.a = slot /\ slots = call.a .. call.a + n
      BY <1>1, <2>2, <2>4
    <2>6. /\ call.a \in FrameRegisters /\ call.a + 1 \in FrameRegisters /\ call.a + 2 \in FrameRegisters
          /\ call.a \in Int /\ call.a > 3 /\ Visible = 3
          /\ source \notin {0, 1, 2, 3, call.a, call.a + 1}
          /\ sum \notin {0, 1, 2, 3, call.a, call.a + 1}
          /\ n = 2 => source # call.a + 2 /\ sum # call.a + 2
          /\ source # sum
      BY <2>3, <2>5, KeptFunction
    <2>7. QED
      BY <2>1, <2>5, <2>6
  <1>4. ~c[1].b.constant /\ source \in FrameRegisters /\ sum \in FrameRegisters
    BY <1>1, BodyFacts DEF Operands
  <1>5. c[1].a = slot /\ c[2].a = slot + 1 /\ c[3].a = slot + 2
    BY <1>2
  <1>6. QED
    BY <1>2, <1>3, <1>4, <1>5

AssignRegisters(c) == {c[4].a, c[4].a + 1, c[4].a + 2, c[5].a}

AssignInStep(r, c, m, b, x) ==
  /\ Local(r, c, m, 6, b, x) /\ b.sum \in Integers64
  /\ x.regs[c[1].b.index] = Adder /\ x.regs[c[5].a] = IntegerValue(b.sum)
  /\ b.n > 0 => /\ x.regs[c[4].a] = IntegerValue(b.sum)
                /\ x.regs[c[4].a + 1] = b.temp /\ x.regs[c[4].a + 2] = b.mod
  /\ \A q \in FrameRegisters \ ({0, Visible} \cup AssignRegisters(c)) : x.regs[q] = m.regs[q]

\* A round of FunctionCallAssign is its six instructions.
LEMMA AssignRoundInStep ==
  ASSUME HalfAssumption, CapturedAssumption, NEW r \in RangeSet, NEW c \in Codes,
         NEW m, OnItsWay(r, c, m),
         MatchFunctionCallAssign(c), NEW b, NEW x, AssignInStep(r, c, m, b, x), b.on,
         NEW e, e = CallAssignRound(c, b)
  PROVE  /\ \E f : AssignInStep(r, c, m, e, f)
         /\ e.n = b.n + 1 /\ e.ok = b.ok
  <1> DEFINE slot == c[4].a
             source == c[1].b.index
             sum == c[5].a
             N   == b.n * 6
             i   == b.visible
             old == IntegerValue(b.sum)
             total == Wrap(b.sum + i)
             new == IntegerValue(total)
             e1  == ExecuteInstruction(c, x)
             e2  == ExecuteInstruction(c, e1)
             e3  == ExecuteInstruction(c, e2)
             e4  == ExecuteInstruction(c, e3)
             e5  == ExecuteInstruction(c, e4)
             a   == [b EXCEPT !.sum = total, !.temp = old, !.mod = IntegerValue(i)]
             f   == ExecuteInstruction(c, e5)
  <1>1. /\ Len(c) = 6 /\ \A k \in 1 .. 5 : c[k] \in BodyInstructions
        /\ c[1].op = "MOVE" /\ c[2].op = "MOVE" /\ c[3].op = "MOVE"
        /\ c[4].op = "CALL" /\ c[5].op = "MOVE"
    BY AssignCode
  <1>2. /\ c[1].a = slot /\ c[2].a = slot + 1 /\ c[3].a = slot + 2
        /\ {slot, slot + 1, slot + 2, source, sum} \subseteq FrameRegisters
        /\ slot \in Int /\ slot > 3 /\ Visible = 3
        /\ source \notin {0, 1, 2, 3, slot, slot + 1, slot + 2}
        /\ sum \notin {0, 1, 2, 3, slot, slot + 1, slot + 2} /\ source # sum
        /\ ~c[1].b.constant /\ c[2].b = R(sum) /\ c[3].b = R(Visible) /\ c[5].b = R(slot)
    BY AssignOperands
  <1>3. /\ Local(r, c, m, 6, b, x) /\ x.regs[source] = Adder /\ x.regs[sum] = old
        /\ b.sum \in Integers64
        /\ \A q \in FrameRegisters \ ({0, Visible} \cup AssignRegisters(c)) : x.regs[q] = m.regs[q]
    BY DEF AssignInStep
  <1>4. /\ At(r, c, m, N, x) /\ x.pc = 1 /\ b \in Batches /\ b.n \in Nat
        /\ i \in Integers64 /\ x.regs[0] = IntegerValue(i) /\ x.regs[Visible] = IntegerValue(i)
        /\ IntegerValue(i) \in LoopValues /\ IsInteger(IntegerValue(i)) /\ IntegerValue(i).n = i
    <2>1. 6 \in Nat
      OBVIOUS
    <2>2. QED
      BY <1>3, <2>1, LocalAt
  <1>5. e = Advance(c, a)
    BY DEF CallAssignRound
  <1>6. /\ old \in LoopValues /\ IsInteger(old) /\ old.n = b.sum /\ b.sum \in Int /\ i \in Int
        /\ {0, Visible} \subseteq FrameRegisters
    BY <1>3, <1>4, IntegerFacts, IntegersAreIntegers DEF FrameRegisters, Visible
  <1> HIDE DEF N, i, old
  <1>7. Stepped(r, c, m, N, 1, x, e1, slot, Adder)
    <2>1. Executes(r, c, m, N, 1, x, e1) /\ Adder = Value(x, c[1].b)
      BY <1>1, <1>2, <1>3, <1>4 DEF Executes, Value
    <2>2. QED
      BY <1>1, <1>2, <2>1, Moves
  <1> HIDE DEF e1
  <1>8. /\ At(r, c, m, N + 1, e1) /\ e1.pc = 2 /\ e1.table = x.table /\ e1.upvalue = x.upvalue
        /\ \A q \in FrameRegisters : e1.regs[q] = IF q = slot THEN Adder ELSE x.regs[q]
    BY <1>7 DEF Stepped, Writes
  <1>9. Stepped(r, c, m, N + 1, 2, e1, e2, slot + 1, old)
    <2>1. Executes(r, c, m, N + 1, 2, e1, e2) /\ old = Value(e1, c[2].b)
      BY <1>1, <1>2, <1>3, <1>8 DEF Executes, Value, R
    <2>2. QED
      BY <1>1, <1>2, <2>1, Moves
  <1> HIDE DEF e2
  <1>10. /\ At(r, c, m, (N + 1) + 1, e2) /\ e2.pc = 3 /\ e2.table = x.table /\ e2.upvalue = x.upvalue
         /\ \A q \in FrameRegisters : e2.regs[q] = IF q = slot + 1 THEN old ELSE
              IF q = slot THEN Adder ELSE x.regs[q]
    BY <1>8, <1>9 DEF Stepped, Writes
  <1>11. Stepped(r, c, m, (N + 1) + 1, 3, e2, e3, slot + 2, IntegerValue(i))
    <2>1. Executes(r, c, m, (N + 1) + 1, 3, e2, e3) /\ IntegerValue(i) = Value(e2, c[3].b)
      BY <1>1, <1>2, <1>4, <1>6, <1>10 DEF Executes, Value, R
    <2>2. QED
      BY <1>1, <1>2, <2>1, Moves
  <1> HIDE DEF e3
  <1>12. /\ At(r, c, m, ((N + 1) + 1) + 1, e3) /\ e3.pc = 4 /\ e3.table = x.table
         /\ e3.upvalue = x.upvalue
         /\ \A q \in FrameRegisters : e3.regs[q] = IF q = slot + 2 THEN IntegerValue(i) ELSE
              IF q = slot + 1 THEN old ELSE IF q = slot THEN Adder ELSE x.regs[q]
    BY <1>10, <1>11 DEF Stepped, Writes
  <1>13. /\ Stepped(r, c, m, ((N + 1) + 1) + 1, 4, e3, e4, slot, new) /\ total \in Integers64
    <2>1. Executes(r, c, m, ((N + 1) + 1) + 1, 4, e3, e4)
      BY <1>1, <1>12 DEF Executes
    <2>2. e3.regs[slot] = Adder /\ e3.regs[slot + 1] = old /\ e3.regs[slot + 2] = IntegerValue(i)
      BY <1>2, <1>12
    <2>3. /\ IsInteger(e3.regs[slot + 1]) /\ IsInteger(e3.regs[slot + 2])
          /\ total = Wrap(e3.regs[slot + 1].n + e3.regs[slot + 2].n)
      BY <1>4, <1>6, <2>2
    <2> HIDE DEF total
    <2>4. QED
      BY <1>1, <2>1, <2>2, <2>3, CallsAdder
  <1> HIDE DEF e4
  <1>14. /\ At(r, c, m, (((N + 1) + 1) + 1) + 1, e4) /\ e4.pc = 5 /\ e4.table = x.table
         /\ e4.upvalue = x.upvalue /\ new \in LoopValues
         /\ \A q \in FrameRegisters : e4.regs[q] = IF q = slot THEN new ELSE
              IF q = slot + 2 THEN IntegerValue(i) ELSE IF q = slot + 1 THEN old ELSE x.regs[q]
    BY <1>2, <1>12, <1>13 DEF Stepped, Writes
  <1> HIDE DEF total, new
  <1>15. Stepped(r, c, m, (((N + 1) + 1) + 1) + 1, 5, e4, e5, sum, new)
    <2>1. Executes(r, c, m, (((N + 1) + 1) + 1) + 1, 5, e4, e5) /\ new = Value(e4, c[5].b)
      BY <1>1, <1>2, <1>14 DEF Executes, Value, R
    <2>2. QED
      BY <1>1, <1>2, <2>1, Moves
  <1> HIDE DEF e5
  <1>16. /\ At(r, c, m, ((((N + 1) + 1) + 1) + 1) + 1, e5) /\ e5.pc = 6 /\ e5.table = x.table
         /\ e5.upvalue = x.upvalue
         /\ \A q \in FrameRegisters : e5.regs[q] = IF q \in {sum, slot} THEN new ELSE
              IF q = slot + 2 THEN IntegerValue(i) ELSE IF q = slot + 1 THEN old ELSE x.regs[q]
    BY <1>2, <1>14, <1>15 DEF Stepped, Writes
  <1>17. /\ a \in Batches /\ a.m = b.m /\ a.index = b.index /\ a.visible = b.visible /\ a.n = b.n
         /\ a.on /\ a.sum = total /\ a.ok = b.ok /\ a.temp = old /\ a.mod = IntegerValue(i)
    <2>1. total \in Int
      BY <1>13, IntegersAreIntegers
    <2>2. QED
      BY <1>4, <1>6, <2>1 DEF Batches
  <1> HIDE DEF a, f
  <1>18. LocallyDone(r, c, m, 6, b, e5, a, e, f)
    <2>1. e5 = Instructions(c, m, b.n * 6 + (6 - 1)) /\ OnItsWay(r, c, e5)
      <3>1. ((((N + 1) + 1) + 1) + 1) + 1 = b.n * 6 + (6 - 1)
        BY <1>4 DEF N
      <3>2. QED
        BY <1>16, <3>1 DEF At
    <2>2. e5.regs[0] = x.regs[0] /\ e5.regs[Visible] = x.regs[Visible]
      BY <1>2, <1>6, <1>16
    <2>3. LocallyWritten(r, c, m, 6, b, x, e5, a)
      BY <1>1, <1>3, <1>16, <1>17, <2>1, <2>2 DEF LocallyWritten
    <2>4. /\ m \in Machines /\ Holds(m, 0 .. 2) /\ m.regs[1].n = forIntegerLimitValue(r.limit, r.step)
          /\ m.regs[2].n = r.step
      BY DEF OnItsWay
    <2>5. 6 \in Nat
      OBVIOUS
    <2>6. QED
      BY <1>5, <2>3, <2>4, <2>5, LocalRound DEF f
  <1>19. /\ Local(r, c, m, 6, e, f) /\ e.n = b.n + 1 /\ e.sum = total /\ e.ok = b.ok
         /\ e.temp = old /\ e.mod = IntegerValue(i)
         /\ \A q \in FrameRegisters \ {0, Visible} : f.regs[q] = e5.regs[q]
    BY <1>17, <1>18 DEF LocallyDone
  <1>20. /\ f.regs[source] = Adder /\ f.regs[sum] = new /\ f.regs[slot] = new
         /\ f.regs[slot + 1] = old /\ f.regs[slot + 2] = IntegerValue(i)
    <2>1. {source, sum, slot, slot + 1, slot + 2} \subseteq FrameRegisters \ {0, Visible}
      BY <1>2
    <2>2. QED
      BY <1>2, <1>3, <1>16, <1>19, <2>1
  <1>21. \A q \in FrameRegisters \ ({0, Visible} \cup AssignRegisters(c)) : f.regs[q] = m.regs[q]
    BY <1>3, <1>16, <1>19 DEF AssignRegisters
  <1>22. AssignInStep(r, c, m, e, f)
    BY <1>13, <1>19, <1>20, <1>21 DEF AssignInStep, new
  <1>23. QED
    BY <1>19, <1>22

\* A batch of FunctionCallAssign is as many instructions after its commit,
\* also when a check stops it.
LEMMA AssignBatch ==
  ASSUME HalfAssumption, CapturedAssumption, NEW r \in RangeSet, NEW c \in Codes, NEW m,
         OnItsWay(r, c, m), m.pc = 1, MatchFunctionCallAssign(c),
         m.regs[c[1].b.index] = Adder, NEW max \in Nat, NEW ok \in Nat
  PROVE  CallOutcome(r, c, m, 6, max, TryExecuteFunctionCallAssignForLoopBatch(c, m, max, ok))
  <1> DEFINE sum == c[5].a
             slot == c[4].a
             B == TryExecuteFunctionCallAssignForLoopBatch(c, m, max, ok)
             b == [Batch(m, ok) EXCEPT !.sum = m.regs[sum].n]
             done == Iterate("FunctionCallAssign", c, b, max)
             Kept == {x \in Batches : \E y : AssignInStep(r, c, m, x, y)}
  <1>1. /\ Len(c) > 1 /\ Visible = 3 /\ slot \in Int
        /\ {slot, slot + 1, slot + 2, sum} \subseteq FrameRegisters
        /\ sum \notin {slot, slot + 1, slot + 2}
        /\ {0, Visible} \cap {slot, slot + 1, slot + 2, sum} = {}
    <2>1. Len(c) = 6
      BY AssignCode
    <2>2. /\ Visible = 3 /\ slot \in Int /\ slot > 3
          /\ {slot, slot + 1, slot + 2, sum} \subseteq FrameRegisters
          /\ sum \notin {0, 1, 2, 3, slot, slot + 1, slot + 2}
      BY AssignOperands
    <2>3. QED
      BY <2>1, <2>2
  <1>2. m \in Machines /\ m.regs[sum] \in LoopValues
    BY <1>1, MachineFields DEF OnItsWay
  <1>3. CASE ~Holds(m, Control \cup {sum})
    BY <1>3, RefusedCall DEF TryExecuteFunctionCallAssignForLoopBatch
  <1>4. CASE Holds(m, Control \cup {sum})
    <2>1. /\ IsInteger(m.regs[sum]) /\ m.regs[sum].n \in Int /\ m.regs[sum].n \in Integers64
          /\ m.regs[sum] = IntegerValue(m.regs[sum].n)
      BY <1>2, <1>4, IntegerFacts, IntegersAreIntegers DEF Holds
    <2>2. Started(r, c, m, b) /\ b.sum = m.regs[sum].n
      BY <1>1, <2>1, StartsWithSum
    <2>3. b \in Kept /\ b.n = 0 /\ \A x \in Kept : x.n \in Nat
      <3>1. Local(r, c, m, 6, b, m) /\ b \in Batches /\ b.n = 0
        <4>1. 6 \in Nat
          OBVIOUS
        <4>2. QED
          BY <2>2, <4>1, StartsLocal DEF Started
      <3>2. AssignInStep(r, c, m, b, m)
        BY <2>1, <2>2, <3>1 DEF AssignInStep
      <3>3. QED
        BY <3>1, <3>2, BatchFields
    <2>4. ASSUME NEW x \in Kept, x.on
          PROVE  /\ Round("FunctionCallAssign", c, x) \in Kept
                 /\ Round("FunctionCallAssign", c, x).n <= x.n + 1
      <3>1. PICK next : next = CallAssignRound(c, x)
        OBVIOUS
      <3>2. PICK y : AssignInStep(r, c, m, x, y)
        OBVIOUS
      <3>3. /\ \E f : AssignInStep(r, c, m, next, f)
            /\ next.n = x.n + 1 /\ next.ok = x.ok /\ x \in Batches /\ x.n \in Nat
        <4>1. x \in Batches /\ x.n \in Nat
          BY BatchFields
        <4>2. QED
          BY <2>4, <3>1, <3>2, <4>1, AssignRoundInStep
      <3>4. PICK f : AssignInStep(r, c, m, next, f)
        BY <3>3
      <3>5. PICK z : z = Checked(x, next)
        OBVIOUS
      <3>6. Round("FunctionCallAssign", c, x) = z
        BY <3>1, <3>5 DEF Round
      <3>7. CheckedAs(z, x, next)
        <4>1. next \in Batches
          BY <3>4 DEF AssignInStep, Local
        <4>2. QED
          BY <3>3, <3>5, <4>1, ChecksRound
      <3>8. CASE Same(z, x) /\ ~z.on
        <4>1. AssignInStep(r, c, m, z, y)
          BY <3>2, <3>7, <3>8 DEF AssignInStep, Local, Same, CheckedAs
        <4>2. QED
          BY <3>3, <3>6, <3>7, <3>8, <4>1 DEF Same, CheckedAs
      <3>9. CASE Same(z, next) /\ z.on = next.on
        <4>1. AssignInStep(r, c, m, z, f)
          BY <3>4, <3>7, <3>9 DEF AssignInStep, Local, Same, CheckedAs
        <4>2. QED
          BY <3>3, <3>6, <3>7, <3>9, <4>1 DEF Same, CheckedAs
      <3>10. QED
        BY <3>7, <3>8, <3>9 DEF CheckedAs
    <2>5. done \in Kept /\ done.n <= max
      <3> HIDE DEF Kept, b
      <3>1. QED
        BY <2>3, <2>4, IterateKeeps
    <2>6. PICK x : AssignInStep(r, c, m, done, x)
      BY <2>5
    <2>7. /\ done \in Batches /\ done.n \in Nat /\ done.m \in Machines /\ Local(r, c, m, 6, done, x)
          /\ x = Instructions(c, m, done.n * 6) /\ OnItsWay(r, c, x) /\ x \in Machines
      BY <2>6, BatchFields DEF AssignInStep, Local, OnItsWay
    <2> HIDE DEF b
    <2>8. CASE done.n = 0
      <3>1. B = done
        BY <1>4, <2>8
        DEF TryExecuteFunctionCallAssignForLoopBatch, commitFunctionCallAssignForLoopBatchRegisters, b
      <3> HIDE DEF done
      <3>2. x = m
        <4>1. 0 * 6 = 0 /\ Instructions(c, m, 0) = m
          BY InstructionsByOne
        <4>2. QED
          BY <2>7, <2>8, <4>1
      <3>3. done.m = m
        BY <1>2, <2>7, <3>2, MachineEqual DEF Local
      <3>4. QED
        BY <2>5, <2>7, <3>1, <3>2, <3>3 DEF CallOutcome
    <2>9. CASE done.n # 0
      <3> DEFINE w1 == Put(done.m, slot, IntegerValue(done.sum))
                 w2 == Put(w1, slot + 1, done.temp)
                 w3 == Put(w2, slot + 2, done.mod)
                 w  == Put(w3, sum, IntegerValue(done.sum))
                 d  == [done EXCEPT !.m = w]
      <3>1. B = Publish([done EXCEPT !.m.regs[slot] = IntegerValue(done.sum),
                               !.m.regs[slot + 1] = done.temp,
                               !.m.regs[slot + 2] = done.mod,
                               !.m.regs[sum] = IntegerValue(done.sum)])
        BY <1>4, <2>9
        DEF TryExecuteFunctionCallAssignForLoopBatch, commitFunctionCallAssignForLoopBatchRegisters, b
      <3> HIDE DEF done
      <3>2. B = Publish(d)
        BY <2>7, <3>1 DEF Put, Batches, Machines
      <3>3. /\ done.sum \in Integers64 /\ IntegerValue(done.sum) \in LoopValues
            /\ done.temp \in LoopValues /\ done.mod \in LoopValues
            /\ x.regs[sum] = IntegerValue(done.sum) /\ x.regs[slot] = IntegerValue(done.sum)
            /\ x.regs[slot + 1] = done.temp /\ x.regs[slot + 2] = done.mod
            /\ \A q \in FrameRegisters \ ({0, Visible} \cup AssignRegisters(c)) : x.regs[q] = m.regs[q]
        BY <2>6, <2>7, <2>9, IntegerFacts, BatchFields DEF AssignInStep
      <3>4. /\ slot \in FrameRegisters /\ slot + 1 \in FrameRegisters
            /\ slot + 2 \in FrameRegisters /\ sum \in FrameRegisters
            /\ done.m \in Machines /\ IntegerValue(done.sum) \in LoopValues
            /\ done.temp \in LoopValues /\ done.mod \in LoopValues
        BY <1>1, <2>7, <3>3
      <3> HIDE DEF slot, sum, d
      <3> HIDE DEF w, w1, w2, w3
      <3>5. /\ w1 \in Machines /\ w1.pc = done.m.pc /\ w1.table = done.m.table
            /\ w1.upvalue = done.m.upvalue
            /\ \A q \in FrameRegisters : w1.regs[q] = IF q = slot THEN IntegerValue(done.sum) ELSE done.m.regs[q]
        <4>1. /\ slot \in FrameRegisters /\ done.m \in Machines
              /\ IntegerValue(done.sum) \in LoopValues
          BY <3>4
        <4>2. QED
          BY <4>1, PutFields DEF w1
      <3>6. /\ w2 \in Machines /\ w2.pc = w1.pc /\ w2.table = w1.table /\ w2.upvalue = w1.upvalue
            /\ \A q \in FrameRegisters : w2.regs[q] = IF q = slot + 1 THEN done.temp ELSE w1.regs[q]
        <4>1. slot + 1 \in FrameRegisters /\ w1 \in Machines /\ done.temp \in LoopValues
          BY <3>4, <3>5
        <4>2. QED
          BY <4>1, PutFields DEF w2
      <3>7. /\ w3 \in Machines /\ w3.pc = w2.pc /\ w3.table = w2.table /\ w3.upvalue = w2.upvalue
            /\ \A q \in FrameRegisters : w3.regs[q] = IF q = slot + 2 THEN done.mod ELSE w2.regs[q]
        <4>1. slot + 2 \in FrameRegisters /\ w2 \in Machines /\ done.mod \in LoopValues
          BY <3>4, <3>6
        <4>2. QED
          BY <4>1, PutFields DEF w3
      <3>8. /\ w \in Machines /\ w.pc = w3.pc /\ w.table = w3.table /\ w.upvalue = w3.upvalue
            /\ \A q \in FrameRegisters : w.regs[q] = IF q = sum THEN IntegerValue(done.sum) ELSE w3.regs[q]
        <4>1. sum \in FrameRegisters /\ w3 \in Machines /\ IntegerValue(done.sum) \in LoopValues
          BY <3>4, <3>7
        <4>2. QED
          BY <4>1, PutFields DEF w
      <3>9. w.pc = done.m.pc /\ w.table = done.m.table /\ w.upvalue = done.m.upvalue
        BY <3>5, <3>6, <3>7, <3>8
      <3>10. ASSUME NEW q \in FrameRegisters \ {0, Visible}
             PROVE  w.regs[q] = x.regs[q]
        <4>1. CASE q \in AssignRegisters(c)
          <5>1. q \in {slot, slot + 1, slot + 2, sum}
            BY <4>1 DEF AssignRegisters, slot, sum
          <5>2. slot # slot + 1 /\ slot # slot + 2 /\ slot + 1 # slot + 2
                /\ sum \notin {slot, slot + 1, slot + 2}
            BY <1>1
          <5>3. QED
            BY <3>3, <3>5, <3>6, <3>7, <3>8, <5>1, <5>2
        <4>2. CASE q \notin AssignRegisters(c)
          <5>1. q \notin {slot, slot + 1, slot + 2, sum}
            BY <4>2 DEF AssignRegisters, slot, sum
          <5>2. w.regs[q] = done.m.regs[q]
            BY <3>5, <3>6, <3>7, <3>8, <5>1
          <5>3. done.m.regs[q] = m.regs[q]
            BY <2>7 DEF Local
          <5>4. QED
            BY <3>3, <4>2, <5>2, <5>3
        <4>3. QED
          BY <4>1, <4>2
      <3>11. Publish(d).m = x /\ Publish(d).n = done.n
        BY <2>7, <3>8, <3>9, <3>10, Commit DEF d
      <3>12. QED
        BY <2>5, <2>7, <3>2, <3>11 DEF CallOutcome
    <2>10. QED
      BY <2>8, <2>9
  <1>5. QED
    BY <1>3, <1>4

-----------------------------------------------------------------------------
(* temp = i * K1; temp = sum + temp; sum = temp - K2 *)

\* The operands of a register times a constant, in either order.
LEMMA TimesValues ==
  ASSUME NEW x \in Operands, NEW y \in Operands, NEW m \in Machines, NEW a \in FrameRegisters,
         RegisterTimes(x, y)[1] = a, NEW factor, factor = RegisterTimes(x, y)[2], NEW i,
         m.regs[a] = IntegerValue(i)
  PROVE  /\ IsInteger(Value(m, x)) /\ IsInteger(Value(m, y))
         /\ \/ Value(m, x).n = i /\ Value(m, y).n = factor
            \/ Value(m, x).n = factor /\ Value(m, y).n = i
  <1>1. a # NoRegister
    BY DEF FrameRegisters, NoRegister
  <1>2. IsInteger(IntegerValue(i)) /\ IntegerValue(i).n = i
    BY DEF IsInteger, IntegerValue
  <1>3. CASE ~x.constant /\ IntegerConstant(y)
    BY <1>2, <1>3 DEF RegisterTimes, IntegerConstant, Value
  <1>4. CASE ~(~x.constant /\ IntegerConstant(y)) /\ ~y.constant /\ IntegerConstant(x)
    <2>1. RegisterTimes(x, y) = <<y.index, x.value.n>>
      BY <1>4 DEF RegisterTimes
    <2>2. QED
      BY <1>2, <1>4, <2>1 DEF IntegerConstant, Value
  <1>5. CASE ~(~x.constant /\ IntegerConstant(y)) /\ ~(~y.constant /\ IntegerConstant(x))
    <2>1. RegisterTimes(x, y) = <<NoRegister, 0>>
      BY <1>5 DEF RegisterTimes
    <2>2. QED
      BY <1>1, <2>1
  <1>6. QED
    BY <1>3, <1>4, <1>5

\* The operands of an addition to a register.
LEMMA PlusMatches ==
  ASSUME NEW x \in Operands, NEW y \in Operands, NEW a \in FrameRegisters,
         NEW b, b = RegisterPlus(x, y, a), b # NoRegister
  PROVE  MatchPair(x, y, a, b) /\ b \in FrameRegisters
  BY DEF RegisterPlus, MatchPair, Operands

MulAddSubs(c, temp, sum) ==
  /\ Len(c) > 3 /\ \A i \in 1 .. 3 : c[i] \in BodyInstructions
  /\ c[1].op = "MUL" /\ c[2].op = "ADD" /\ c[3].op = "SUB"
  /\ c[1].a = temp /\ c[2].a = temp /\ c[3].a = sum
  /\ temp \in FrameRegisters \ {0, 1, 2, Visible} /\ sum \in FrameRegisters \ {0, 1, 2, Visible}
  /\ temp # sum
  /\ RegisterTimes(c[1].b, c[1].c)[1] = Visible
  /\ MatchPair(c[2].b, c[2].c, temp, sum)
  /\ c[3].b = R(temp) /\ IntegerConstant(c[3].c)

\* x after the three instructions.
MulAddSubbed(r, c, m, N, x, y, temp, sum, added, less) ==
  /\ At(r, c, m, N + 3, y) /\ y.pc = 4 /\ y.table = x.table /\ y.upvalue = x.upvalue
  /\ added \in Integers64 /\ less \in Integers64
  /\ \A q \in FrameRegisters :
       y.regs[q] = IF q = sum THEN IntegerValue(less)
                   ELSE IF q = temp THEN IntegerValue(added) ELSE x.regs[q]

\* What the three instructions of a prepared body compute.
LEMMA MulAddSubSteps ==
  ASSUME HalfAssumption, CapturedAssumption, NEW r \in RangeSet, NEW c \in Codes, NEW m,
         NEW N, NEW x, At(r, c, m, N, x), x.pc = 1, NEW temp, NEW sum, MulAddSubs(c, temp, sum),
         NEW i \in Integers64, x.regs[Visible] = IntegerValue(i),
         NEW s \in Integers64, x.regs[sum] = IntegerValue(s),
         NEW factor, factor = RegisterTimes(c[1].b, c[1].c)[2],
         NEW added, added = Wrap(s + Wrap(i * factor)),
         NEW less, less = Wrap(added - c[3].c.value.n)
  PROVE  \E y : MulAddSubbed(r, c, m, N, x, y, temp, sum, added, less)
  <1> DEFINE product == Wrap(i * factor)
             e1 == ExecuteInstruction(c, x)
             e2 == ExecuteInstruction(c, e1)
             e3 == ExecuteInstruction(c, e2)
             v3 == c[3].c.value
  <1>1. /\ Len(c) > 3 /\ Len(c) \in Nat /\ 1 \in 1 .. Len(c) /\ 2 \in 1 .. Len(c) /\ 3 \in 1 .. Len(c)
        /\ c[1] \in BodyInstructions /\ c[2] \in BodyInstructions /\ c[3] \in BodyInstructions
        /\ c[1].op = "MUL" /\ c[2].op = "ADD" /\ c[3].op = "SUB"
        /\ c[1].a = temp /\ c[2].a = temp /\ c[3].a = sum
        /\ temp \in FrameRegisters /\ sum \in FrameRegisters
        /\ temp # Visible /\ sum # Visible /\ temp # sum
        /\ RegisterTimes(c[1].b, c[1].c)[1] = Visible
        /\ MatchPair(c[2].b, c[2].c, temp, sum)
        /\ c[3].b = R(temp) /\ IntegerConstant(c[3].c)
    BY CodeFacts DEF MulAddSubs
  <1>2. Visible \in FrameRegisters /\ N \in Nat /\ x \in Machines
    BY DEF At, FrameRegisters, Visible
  <1>3. /\ c[1].b \in Operands /\ c[1].c \in Operands /\ c[3].c \in Operands
        /\ "MUL" \in Calculations /\ "SUB" \in Calculations
        /\ "MUL" \notin Divisions /\ "SUB" \notin Divisions
    BY <1>1, BodyFacts DEF Calculations, Divisions
  <1>4. Stepped(r, c, m, N, 1, x, e1, temp, IntegerValue(product)) /\ product \in Integers64
    <2>1. PICK p, q : p = Value(x, c[1].b) /\ q = Value(x, c[1].c)
      OBVIOUS
    <2>2. IsInteger(p) /\ IsInteger(q) /\ ((p.n = i /\ q.n = factor) \/ (p.n = factor /\ q.n = i))
      BY <1>1, <1>2, <1>3, <2>1, TimesValues
    <2>3. PICK v : v = Calculate(c[1].op, p.n, q.n)
      OBVIOUS
    <2>4. Executes(r, c, m, N, 1, x, e1)
      BY <1>1 DEF Executes
    <2>5. c[1].op \in Calculations /\ (c[1].op \in Divisions => q.n # 0)
      BY <1>1, <1>3
    <2>6. /\ Stepped(r, c, m, N, 1, x, e1, c[1].a, IntegerValue(v))
          /\ v \in Integers64 /\ p.n \in Integers64 /\ q.n \in Integers64
      BY <2>1, <2>2, <2>3, <2>4, <2>5, Calculates
    <2>7. v = product
      <3>1. v = Wrap(p.n * q.n)
        BY <1>1, <2>3, CalculateIs
      <3>2. p.n \in Int /\ q.n \in Int
        BY <2>6, IntegersAreIntegers
      <3>3. p.n * q.n = i * factor
        BY <2>2, <3>2
      <3>4. QED
        BY <3>1, <3>3
    <2>8. QED
      BY <1>1, <2>6, <2>7
  <1>5. added = Wrap(s + product)
    OBVIOUS
  <1> HIDE DEF e1, product
  <1>6. /\ IsInteger(IntegerValue(s)) /\ IntegerValue(s).n = s /\ s \in Int
        /\ IsInteger(IntegerValue(product)) /\ IntegerValue(product).n = product /\ product \in Int
    BY <1>4, IntegerFacts, IntegersAreIntegers
  <1>7. /\ At(r, c, m, N + 1, e1) /\ e1.pc = 2 /\ e1.table = x.table /\ e1.upvalue = x.upvalue
        /\ \A q \in FrameRegisters : e1.regs[q] = IF q = temp THEN IntegerValue(product) ELSE x.regs[q]
    BY <1>4 DEF Stepped, Writes
  <1>8. Stepped(r, c, m, N + 1, 2, e1, e2, temp, IntegerValue(added)) /\ added \in Integers64
    <2>1. Executes(r, c, m, N + 1, 2, e1, e2)
      BY <1>1, <1>7 DEF Executes
    <2>2. e1.regs[temp] = IntegerValue(product) /\ e1.regs[sum] = IntegerValue(s)
      BY <1>1, <1>7
    <2>3. /\ IsInteger(e1.regs[temp]) /\ IsInteger(e1.regs[sum])
          /\ added = Wrap(e1.regs[temp].n + e1.regs[sum].n)
      BY <1>5, <1>6, <2>2
    <2>4. QED
      BY <1>1, <2>1, <2>3, AddsPair
  <1> HIDE DEF e2
  <1>9. /\ At(r, c, m, (N + 1) + 1, e2) /\ e2.pc = 3 /\ e2.table = x.table /\ e2.upvalue = x.upvalue
        /\ \A q \in FrameRegisters : e2.regs[q] = IF q = temp THEN IntegerValue(added) ELSE x.regs[q]
    BY <1>7, <1>8 DEF Stepped, Writes
  <1>10. /\ Stepped(r, c, m, (N + 1) + 1, 3, e2, e3, sum, IntegerValue(less))
         /\ less \in Integers64
    <2>1. Executes(r, c, m, (N + 1) + 1, 3, e2, e3)
      BY <1>1, <1>9 DEF Executes
    <2>2. PICK p, q : p = Value(e2, c[3].b) /\ q = Value(e2, c[3].c)
      OBVIOUS
    <2>3. p = IntegerValue(added) /\ q = v3 /\ IsInteger(q)
      <3>1. Value(e2, c[3].b) = e2.regs[temp]
        BY <1>1 DEF Value, R
      <3>2. Value(e2, c[3].c) = v3 /\ IsInteger(v3)
        BY <1>1 DEF Value, IntegerConstant
      <3>3. QED
        BY <1>1, <1>9, <2>2, <3>1, <3>2
    <2>4. IsInteger(p) /\ p.n = added
      BY <1>8, <2>3, IntegerFacts
    <2>5. less = Calculate(c[3].op, p.n, q.n)
      BY <1>1, <2>3, <2>4, CalculateIs
    <2>6. c[3].op \in Calculations /\ (c[3].op \in Divisions => q.n # 0)
      BY <1>1, <1>3
    <2>7. QED
      BY <1>1, <2>1, <2>2, <2>3, <2>4, <2>5, <2>6, Calculates
  <1> HIDE DEF e3
  <1>11. /\ At(r, c, m, N + 3, e3) /\ e3.pc = 4 /\ e3.table = x.table /\ e3.upvalue = x.upvalue
         /\ \A q \in FrameRegisters :
              e3.regs[q] = IF q = sum THEN IntegerValue(less)
                           ELSE IF q = temp THEN IntegerValue(added) ELSE x.regs[q]
    <2>1. ((N + 1) + 1) + 1 = N + 3
      BY <1>2
    <2>2. QED
      BY <1>9, <1>10, <2>1 DEF Stepped, Writes
  <1>12. MulAddSubbed(r, c, m, N, x, e3, temp, sum, added, less)
    BY <1>8, <1>10, <1>11 DEF MulAddSubbed
  <1>13. QED
    BY <1>12

\* The body of MulAddSub,
LEMMA MulAddSubCode ==
  ASSUME NEW c \in Codes, MatchMulAddSub(c)
  PROVE  /\ Len(c) = 4 /\ \A i \in 1 .. 3 : c[i] \in BodyInstructions
         /\ c[1].op = "MUL" /\ c[2].op = "ADD" /\ c[3].op = "SUB"
  <1>1. PICK t : t = <<"MUL", "ADD", "SUB", "FORLOOP">>
    OBVIOUS
  <1>2. DOMAIN t = 1 .. 4 /\ t = Ops(c) /\ t[1] = "MUL" /\ t[2] = "ADD" /\ t[3] = "SUB"
    BY <1>1 DEF MatchMulAddSub
  <1>3. Shaped(c, 4, t)
    BY <1>2, OpsAre
  <1>4. QED
    BY <1>2, <1>3 DEF Shaped

\* What is not a control is none of the registers that FORLOOP uses.
LEMMA NotControls ==
  ASSUME NEW a \in FrameRegisters, a \notin Control
  PROVE  a \in FrameRegisters \ {0, 1, 2, Visible}
  BY DEF Control, Visible, FrameRegisters

\* and of one that is prepared its registers.
LEMMA MulAddSubPrepared ==
  ASSUME NEW c \in Codes, MatchMulAddSub(c), PrepareMulAddSubForLoopBatch(c)
  PROVE  MulAddSubs(c, c[1].a, c[3].a)
  <1>1. /\ Len(c) = 4 /\ \A i \in 1 .. 3 : c[i] \in BodyInstructions
        /\ c[1] \in BodyInstructions /\ c[2] \in BodyInstructions /\ c[3] \in BodyInstructions
        /\ c[1].op = "MUL" /\ c[2].op = "ADD" /\ c[3].op = "SUB"
    BY MulAddSubCode
  <1>2. /\ c[2].a = c[1].a /\ RegisterTimes(c[1].b, c[1].c)[1] = Visible
        /\ c[3].a = RegisterPlus(c[2].b, c[2].c, c[1].a) /\ c[3].a # NoRegister
        /\ c[3].b = R(c[1].a) /\ IntegerConstant(c[3].c) /\ c[1].a # c[3].a
        /\ c[1].a \notin Control /\ c[3].a \notin Control
    BY DEF PrepareMulAddSubForLoopBatch
  <1>3. c[1].a \in FrameRegisters /\ c[2].b \in Operands /\ c[2].c \in Operands
    BY <1>1, BodyFacts
  <1>4. MatchPair(c[2].b, c[2].c, c[1].a, c[3].a) /\ c[3].a \in FrameRegisters
    BY <1>2, <1>3, PlusMatches
  <1>5. c[1].a \in FrameRegisters \ {0, 1, 2, Visible} /\ c[3].a \in FrameRegisters \ {0, 1, 2, Visible}
    BY <1>2, <1>3, <1>4, NotControls
  <1>6. QED
    BY <1>1, <1>2, <1>4, <1>5 DEF MulAddSubs

MulAddSubInStep(r, c, m, b, x) ==
  /\ Local(r, c, m, 4, b, x) /\ b.sum \in Integers64
  /\ x.regs[c[3].a] = IntegerValue(b.sum)
  /\ b.n > 0 => x.regs[c[1].a] = b.temp
  /\ \A q \in FrameRegisters \ {0, Visible, c[1].a, c[3].a} : x.regs[q] = m.regs[q]

\* A round of MulAddSub is its four instructions.
LEMMA MulAddSubRoundInStep ==
  ASSUME HalfAssumption, CapturedAssumption, NEW r \in RangeSet, NEW c \in Codes,
         NEW m, OnItsWay(r, c, m), Len(c) = 4, MulAddSubs(c, c[1].a, c[3].a),
         NEW b, NEW x, MulAddSubInStep(r, c, m, b, x), b.on,
         NEW e, e = MulAddSubRound(c, b)
  PROVE  \E f : MulAddSubInStep(r, c, m, e, f) /\ e.n = b.n + 1
  <1> DEFINE temp  == c[1].a
             sum   == c[3].a
             N     == b.n * 4
             i     == b.visible
             factor     == RegisterTimes(c[1].b, c[1].c)[2]
             added == Wrap(b.sum + Wrap(i * factor))
             less  == Wrap(added - c[3].c.value.n)
             a     == [b EXCEPT !.sum = less, !.temp = IntegerValue(added)]
  <1>1. /\ Local(r, c, m, 4, b, x) /\ b.sum \in Integers64 /\ x.regs[sum] = IntegerValue(b.sum)
        /\ \A q \in FrameRegisters \ {0, Visible, temp, sum} : x.regs[q] = m.regs[q]
    BY DEF MulAddSubInStep
  <1>2. /\ At(r, c, m, N, x) /\ x.pc = 1 /\ b \in Batches /\ b.n \in Nat
        /\ i \in Integers64 /\ x.regs[0] = IntegerValue(i) /\ x.regs[Visible] = IntegerValue(i)
    <2>1. 4 \in Nat
      OBVIOUS
    <2>2. QED
      BY <1>1, <2>1, LocalAt
  <1>3. /\ temp \in FrameRegisters \ {0, Visible} /\ sum \in FrameRegisters \ {0, Visible}
        /\ temp # sum /\ {0, Visible} \subseteq FrameRegisters
    BY DEF MulAddSubs, FrameRegisters, Visible
  <1>4. e = Advance(c, a)
    BY DEF MulAddSubRound
  <1>5. PICK y : MulAddSubbed(r, c, m, N, x, y, temp, sum, added, less)
    <2> HIDE DEF N, i, temp, sum
    <2>1. MulAddSubs(c, temp, sum)
      BY DEF temp, sum
    <2>2. PICK s \in Integers64 : s = b.sum
      BY <1>1
    <2>3. PICK a1, l1 : a1 = Wrap(s + Wrap(i * factor)) /\ l1 = Wrap(a1 - c[3].c.value.n)
      OBVIOUS
    <2>4. \E y : MulAddSubbed(r, c, m, N, x, y, temp, sum, a1, l1)
      BY <1>1, <1>2, <2>1, <2>2, <2>3, MulAddSubSteps
    <2>5. a1 = added /\ l1 = less
      BY <2>2, <2>3
    <2>6. QED
      BY <2>4, <2>5
  <1> HIDE DEF added, less, i
  <1>6. /\ At(r, c, m, N + 3, y) /\ y.pc = 4 /\ y.table = x.table /\ y.upvalue = x.upvalue
        /\ added \in Integers64 /\ less \in Integers64
        /\ \A q \in FrameRegisters :
             y.regs[q] = IF q = sum THEN IntegerValue(less)
                         ELSE IF q = temp THEN IntegerValue(added) ELSE x.regs[q]
    BY <1>5 DEF MulAddSubbed
  <1>7. /\ a \in Batches /\ a.m = b.m /\ a.index = b.index /\ a.visible = b.visible /\ a.n = b.n
        /\ a.on /\ a.sum = less /\ a.temp = IntegerValue(added)
    <2>1. less \in Int /\ IntegerValue(added) \in LoopValues
      BY <1>6, IntegerFacts, IntegersAreIntegers
    <2>2. QED
      BY <1>2, <2>1 DEF Batches
  <1> HIDE DEF a
  <1>8. PICK f : f = ExecuteInstruction(c, y)
    OBVIOUS
  <1>9. LocallyDone(r, c, m, 4, b, y, a, e, f)
    <2>1. y = Instructions(c, m, b.n * 4 + (4 - 1)) /\ OnItsWay(r, c, y)
      BY <1>2, <1>6 DEF At
    <2>2. y.regs[0] = x.regs[0] /\ y.regs[Visible] = x.regs[Visible]
      BY <1>3, <1>6
    <2>3. LocallyWritten(r, c, m, 4, b, x, y, a)
      BY <1>1, <1>6, <1>7, <2>1, <2>2 DEF LocallyWritten
    <2>4. /\ m \in Machines /\ Holds(m, 0 .. 2) /\ m.regs[1].n = forIntegerLimitValue(r.limit, r.step)
          /\ m.regs[2].n = r.step
      BY DEF OnItsWay
    <2>5. 4 \in Nat
      OBVIOUS
    <2>6. QED
      BY <1>4, <1>8, <2>3, <2>4, <2>5, LocalRound
  <1>10. /\ Local(r, c, m, 4, e, f) /\ e.n = b.n + 1 /\ e.sum = less
         /\ e.temp = IntegerValue(added)
         /\ \A q \in FrameRegisters \ {0, Visible} : f.regs[q] = y.regs[q]
    BY <1>7, <1>9 DEF LocallyDone
  <1>11. f.regs[sum] = IntegerValue(less) /\ f.regs[temp] = IntegerValue(added)
    BY <1>3, <1>6, <1>10
  <1>12. \A q \in FrameRegisters \ {0, Visible, temp, sum} : f.regs[q] = m.regs[q]
    BY <1>1, <1>6, <1>10
  <1>13. MulAddSubInStep(r, c, m, e, f)
    BY <1>6, <1>10, <1>11, <1>12 DEF MulAddSubInStep
  <1>14. QED
    BY <1>10, <1>13

\* Two registers are written, and the index published.
LEMMA CommitTwo ==
  ASSUME HalfAssumption, NEW r, NEW c, NEW m, NEW size, NEW b, NEW x, Local(r, c, m, size, b, x),
         NEW s \in FrameRegisters, NEW t \in FrameRegisters, s # t,
         NEW u \in LoopValues, NEW v \in LoopValues, x.regs[s] = u, x.regs[t] = v,
         \A q \in FrameRegisters \ {0, Visible, s, t} : x.regs[q] = m.regs[q]
  PROVE  LET d == Publish([b EXCEPT !.m = Put(Put(b.m, s, u), t, v)])
         IN  d.m = x /\ d.n = b.n
  <1> DEFINE w1 == Put(b.m, s, u)
             w  == Put(w1, t, v)
             d  == [b EXCEPT !.m = w]
  <1>1. b.m \in Machines /\ b.m.regs = m.regs
    BY BatchFields DEF Local
  <1>2. /\ w1 \in Machines /\ w1.pc = b.m.pc /\ w1.table = b.m.table /\ w1.upvalue = b.m.upvalue
        /\ \A q \in FrameRegisters : w1.regs[q] = IF q = s THEN u ELSE b.m.regs[q]
    <2> HIDE DEF w, d
    <2>1. b.m \in Machines
      BY <1>1
    <2>2. QED
      BY <2>1, PutFields DEF w1
  <1> HIDE DEF w1
  <1>3. /\ w \in Machines /\ w.pc = w1.pc /\ w.table = w1.table /\ w.upvalue = w1.upvalue
        /\ \A q \in FrameRegisters : w.regs[q] = IF q = t THEN v ELSE w1.regs[q]
    <2>1. w1 \in Machines
      BY <1>2
    <2> HIDE DEF d
    <2>2. QED
      BY <2>1, PutFields
  <1> HIDE DEF w
  <1>4. \A q \in FrameRegisters \ {0, Visible} : w.regs[q] = x.regs[q]
    BY <1>1, <1>2, <1>3
  <1>5. w.pc = b.m.pc /\ w.table = b.m.table /\ w.upvalue = b.m.upvalue
    BY <1>2, <1>3
  <1>6. Publish(d).m = x /\ Publish(d).n = b.n
    BY <1>3, <1>4, <1>5, Commit
  <1>7. QED
    BY <1>6 DEF w, w1

\* A batch of MulAddSub is as many instructions after its commit.
LEMMA MulAddSubBatch ==
  ASSUME HalfAssumption, CapturedAssumption, NEW r \in RangeSet, NEW c \in Codes, NEW m,
         OnItsWay(r, c, m), m.pc = 1, MatchMulAddSub(c), NEW max \in Nat, NEW ok \in Nat
  PROVE  Outcome(r, c, m, 4, max, TryExecuteMulAddSubForLoopBatch(c, m, max, ok))
  <1> DEFINE temp == c[1].a
             sum == c[3].a
             B == TryExecuteMulAddSubForLoopBatch(c, m, max, ok)
             b == [Batch(m, ok) EXCEPT !.sum = m.regs[sum].n]
             done == Iterate("MulAddSub", c, b, max)
             Kept == {x \in Batches : \E y : MulAddSubInStep(r, c, m, x, y)}
  <1>1. CASE ~PrepareMulAddSubForLoopBatch(c) \/ ~Holds(m, Control \cup {sum})
    BY <1>1, RefusedOutcome DEF TryExecuteMulAddSubForLoopBatch
  <1>2. CASE PrepareMulAddSubForLoopBatch(c) /\ Holds(m, Control \cup {sum})
    <2>1. /\ MulAddSubs(c, temp, sum) /\ Len(c) = 4 /\ Len(c) > 1
          /\ temp \in FrameRegisters /\ sum \in FrameRegisters /\ temp # sum
      BY <1>2, MulAddSubPrepared, MulAddSubCode DEF MulAddSubs
    <2>2. m \in Machines /\ m.regs[sum] \in LoopValues
      BY <2>1, MachineFields DEF OnItsWay
    <2>3. /\ m.regs[sum].n \in Int /\ m.regs[sum].n \in Integers64
          /\ m.regs[sum] = IntegerValue(m.regs[sum].n)
      BY <1>2, <2>2, IntegerFacts, IntegersAreIntegers DEF Holds
    <2>4. Started(r, c, m, b) /\ b.sum = m.regs[sum].n
      <3>1. Len(c) > 1 /\ m.regs[sum].n \in Int
        BY <2>1, <2>3
      <3> HIDE DEF sum
      <3>2. QED
        BY <3>1, StartsWithSum
    <2>5. b \in Kept /\ b.n = 0 /\ \A x \in Kept : x.n \in Nat
      <3>1. Local(r, c, m, 4, b, m) /\ b \in Batches /\ b.n = 0
        <4>1. 4 \in Nat
          OBVIOUS
        <4>2. QED
          BY <2>4, <4>1, StartsLocal DEF Started
      <3>2. MulAddSubInStep(r, c, m, b, m)
        BY <2>3, <2>4, <3>1 DEF MulAddSubInStep
      <3>3. QED
        BY <3>1, <3>2, BatchFields
    <2>6. ASSUME NEW x \in Kept, x.on
          PROVE  Round("MulAddSub", c, x) \in Kept /\ Round("MulAddSub", c, x).n <= x.n + 1
      <3>1. PICK e : e = MulAddSubRound(c, x)
        OBVIOUS
      <3>2. PICK y : MulAddSubInStep(r, c, m, x, y)
        OBVIOUS
      <3>3. PICK f : MulAddSubInStep(r, c, m, e, f) /\ e.n = x.n + 1
        <4> HIDE DEF temp, sum
        <4>1. QED
          BY <2>1, <2>6, <3>1, <3>2, MulAddSubRoundInStep DEF temp, sum
      <3>4. e \in Batches /\ x.n \in Nat
        BY <3>3, BatchFields DEF MulAddSubInStep, Local
      <3>5. Round("MulAddSub", c, x) = e
        BY <3>1 DEF Round
      <3>6. QED
        BY <3>3, <3>4, <3>5
    <2>7. done \in Kept /\ done.n <= max
      <3> HIDE DEF Kept, b
      <3>1. QED
        BY <2>5, <2>6, IterateKeeps
    <2>8. PICK x : MulAddSubInStep(r, c, m, done, x)
      BY <2>7
    <2>9. /\ done \in Batches /\ done.n \in Nat /\ done.m \in Machines /\ Local(r, c, m, 4, done, x)
          /\ x = Instructions(c, m, done.n * 4) /\ OnItsWay(r, c, x)
      BY <2>8, BatchFields DEF MulAddSubInStep, Local
    <2> DEFINE v == IntegerValue(done.sum)
               d == Publish([done EXCEPT !.m = Put(Put(done.m, temp, done.temp), sum, v)])
    <2>10. B = d
      <3>1. B = Publish([done EXCEPT !.m.regs[temp] = done.temp, !.m.regs[sum] = v])
        BY <1>2 DEF TryExecuteMulAddSubForLoopBatch, CommitMulAddSub
      <3> HIDE DEF done
      <3>2. QED
        BY <2>9, <3>1 DEF Put, Batches, Machines
    <2> HIDE DEF done, b, Kept
    <2>11. v \in LoopValues /\ done.temp \in LoopValues
      BY <2>8, <2>9, IntegerFacts, BatchFields DEF MulAddSubInStep
    <2>12. CASE done.n > 0
      <3>1. /\ x.regs[sum] = v /\ x.regs[temp] = done.temp
            /\ \A q \in FrameRegisters \ {0, Visible, temp, sum} : x.regs[q] = m.regs[q]
        BY <2>8, <2>12 DEF MulAddSubInStep
      <3>2. d.m = x /\ d.n = done.n
        <4> HIDE DEF v, temp, sum
        <4>1. QED
          BY <2>1, <2>9, <2>11, <3>1, CommitTwo
      <3> HIDE DEF d
      <3>3. QED
        BY <2>7, <2>9, <2>10, <3>2 DEF Outcome
    <2>13. CASE done.n = 0
      <3> DEFINE w1 == Put(done.m, temp, done.temp)
                 w  == Put(w1, sum, v)
      <3>1. w1 \in Machines
        BY <2>1, <2>9, <2>11, PutFields
      <3> HIDE DEF w1, v
      <3>2. w \in Machines
        BY <2>1, <2>11, <3>1, PutFields
      <3> HIDE DEF w
      <3>3. [done EXCEPT !.m = w] \in Batches /\ [done EXCEPT !.m = w].n = 0
            /\ [done EXCEPT !.m = w].visible \in Integers64
        BY <2>9, <2>13, <3>2 DEF Batches, Local
      <3>4. Publish([done EXCEPT !.m = w]).n = 0
        BY <3>3, PublishFields DEF PublishedAs
      <3>5. B.n = 0
        BY <2>10, <3>4 DEF w, w1
      <3>6. QED
        BY <3>5 DEF Outcome
    <2>14. QED
      BY <2>9, <2>12, <2>13
  <1>3. QED
    BY <1>1, <1>2

-----------------------------------------------------------------------------
(* One round of temp = i * K1; temp = sum + temp; sum = temp - K2, *)
(* or of any operands *)

\* z is m with the values that have been computed.
Overridden(m, w, z) ==
  /\ w \in Seq([register : FrameRegisters, value : LoopValues]) /\ Len(w) <= 2
  /\ \A o \in Operands : Override(m, o, w) = Value(z, o)

\* Nothing has been computed yet.
LEMMA OverrideNothing ==
  ASSUME NEW m
  PROVE  Overridden(m, <<>>, m)
  <1>1. /\ <<>> \in Seq([register : FrameRegisters, value : LoopValues]) /\ Len(<<>>) = 0
        /\ DOMAIN <<>> = {}
    OBVIOUS
  <1>2. ASSUME NEW o \in Operands
        PROVE  Override(m, o, <<>>) = Value(m, o)
    <2>1. Writing(o, <<>>) = {}
      BY <1>1 DEF Writing
    <2>2. QED
      BY <2>1 DEF Override
  <1>3. QED
    BY <1>1, <1>2 DEF Overridden

MoreComputed(w, a, v) == Append(w, [register |-> a, value |-> v])
Changed(y, x, a, v) == \A q \in FrameRegisters : y.regs[q] = IF q = a THEN v ELSE x.regs[q]

OverriddenMore(m, w, w2, y, v) ==
  /\ \A o \in Operands : Override(m, o, w2) = Value(y, o)
  /\ w2 \in Seq([register : FrameRegisters, value : LoopValues])
  /\ Len(w2) = Len(w) + 1 /\ w2[Len(w) + 1].value = v
  /\ \A k \in 1 .. Len(w) : w2[k] = w[k]

\* One more value is what a later operand of its register sees.
LEMMA OverrideMore ==
  ASSUME NEW m, NEW w, NEW z \in Machines, Overridden(m, w, z),
         NEW a \in FrameRegisters, NEW v \in LoopValues,
         NEW w2, w2 = MoreComputed(w, a, v),
         NEW z2, Changed(z2, z, a, v)
  PROVE  OverriddenMore(m, w, w2, z2, v)
  <1> DEFINE L == Len(w)
             V == [register : FrameRegisters, value : LoopValues]
             n == [register |-> a, value |-> v]
  <1>1. w \in Seq(V) /\ L \in 0 .. 2 /\ DOMAIN w = 1 .. L
    <2>1. w \in Seq(V) /\ L <= 2
      BY DEF Overridden
    <2>2. L \in Nat /\ DOMAIN w = 1 .. L
      BY <2>1
    <2>3. QED
      BY <2>1, <2>2
  <1>2. n \in V /\ n.register = a /\ n.value = v
    OBVIOUS
  <1> HIDE DEF n, V
  <1>3. /\ w2 \in Seq(V) /\ Len(w2) = L + 1 /\ DOMAIN w2 = 1 .. L + 1
        /\ w2[L + 1] = n /\ \A k \in 1 .. L : w2[k] = w[k]
    <2>1. w2 = Append(w, n)
      BY DEF n, MoreComputed
    <2>2. QED
      BY <1>1, <1>2, <2>1
  <1>4. ASSUME NEW o \in Operands
        PROVE  Override(m, o, w2) = Value(z2, o)
    <2> DEFINE A == Writing(o, w)
               B == Writing(o, w2)
    <2>1. Override(m, o, w2) = IF B = {} THEN Value(m, o) ELSE w2[Latest(B)].value
      BY DEF Override
    <2>2. Value(z, o) = IF A = {} THEN Value(m, o) ELSE w[Latest(A)].value
      <3>1. Override(m, o, w) = IF A = {} THEN Value(m, o) ELSE w[Latest(A)].value
        BY DEF Override
      <3>2. Override(m, o, w) = Value(z, o)
        BY DEF Overridden
      <3> HIDE DEF A
      <3>3. QED
        BY <3>1, <3>2
    <2>3. CASE ~o.constant /\ o.index = a
      <3>1. L + 1 \in B /\ B \subseteq 1 .. L + 1
        BY <1>1, <1>2, <1>3, <2>3 DEF Writing
      <3>2. L + 1 \in B /\ \A j \in B : j <= L + 1
        BY <1>1, <3>1
      <3>3. Latest(B) \in B /\ \A j \in B : j <= Latest(B)
        <4> HIDE DEF B
        <4>1. QED
          BY <3>2 DEF Latest
      <3>4. Latest(B) = L + 1
        <4>1. Latest(B) \in 1 .. L + 1 /\ L + 1 <= Latest(B)
          BY <3>1, <3>3
        <4> HIDE DEF B
        <4>2. QED
          BY <1>1, <4>1
      <3>5. Override(m, o, w2) = v
        <4> HIDE DEF B
        <4>1. QED
          BY <1>2, <1>3, <2>1, <3>1, <3>4
      <3>6. Value(z2, o) = v
        BY <2>3, OperandValue DEF Value, Operands, Changed
      <3>7. QED
        BY <3>5, <3>6
    <2>4. CASE ~(~o.constant /\ o.index = a)
      <3>1. B = A
        <4>1. \A k \in 1 .. L : k \in B <=> k \in A
          BY <1>1, <1>3 DEF Writing
        <4>2. L + 1 \notin B
          BY <1>2, <1>3, <2>4 DEF Writing
        <4>3. A \subseteq 1 .. L /\ B \subseteq 1 .. L + 1
          BY <1>1, <1>3 DEF Writing
        <4>4. \A k \in 1 .. L + 1 : k = L + 1 \/ k \in 1 .. L
          BY <1>1
        <4>5. L + 1 \notin 1 .. L
          BY <1>1
        <4> HIDE DEF A, B, L
        <4>6. QED
          BY <4>1, <4>2, <4>3, <4>4, <4>5
      <3>2. Override(m, o, w2) = Value(z, o)
        <4>1. CASE A = {}
          BY <2>1, <2>2, <3>1, <4>1
        <4>2. CASE A # {}
          <5>1. A \subseteq 1 .. 2 /\ A \subseteq 1 .. L
            BY <1>1 DEF Writing
          <5>2. \E k \in A : \A j \in A : j <= k
            <6> HIDE DEF A
            <6>1. CASE 2 \in A
              <7>1. \A k \in A : k <= 2
                BY <5>1
              <7>2. QED
                BY <6>1, <7>1
            <6>2. CASE 2 \notin A
              <7>1. \A k \in A : k = 1
                BY <5>1, <6>2
              <7>2. 1 \in A
                BY <4>2, <7>1
              <7>3. QED
                BY <7>1, <7>2
            <6>3. QED
              BY <6>1, <6>2
          <5>3. Latest(A) \in A
            <6> HIDE DEF A
            <6>1. QED
              BY <5>2 DEF Latest
          <5>4. Latest(A) \in 1 .. L
            BY <5>1, <5>3
          <5>5. w2[Latest(A)] = w[Latest(A)]
            <6> HIDE DEF A
            <6>1. QED
              BY <1>3, <5>4
          <5> HIDE DEF A, B
          <5>6. QED
            BY <2>1, <2>2, <3>1, <4>2, <5>5
        <4>3. QED
          BY <4>1, <4>2
      <3>3. Value(z2, o) = Value(z, o)
        BY <2>4, OperandValue DEF Value, Operands, Changed
      <3>4. QED
        BY <3>2, <3>3
    <2>5. QED
      BY <2>3, <2>4
  <1>5. QED
    BY <1>2, <1>3, <1>4 DEF V, OverriddenMore

\* A value that is computed is the one that its instruction writes.
LEMMA ComputedStep ==
  ASSUME HalfAssumption, CapturedAssumption, NEW r \in RangeSet, NEW c \in Codes, NEW m,
         NEW k, NEW i, NEW x, NEW y, Executes(r, c, m, k, i, x, y),
         c[i].op \in {"MUL", "ADD", "SUB"}, NEW w, Overridden(m, w, x),
         NEW p, p = Override(m, c[i].b, w), NEW q, q = Override(m, c[i].c, w),
         NEW v, v = IF IsInteger(p) /\ IsInteger(q)
                    THEN IntegerValue(Calculate(c[i].op, p.n, q.n)) ELSE NoValue,
         IsInteger(v)
  PROVE  Stepped(r, c, m, k, i, x, y, c[i].a, v)
  <1>1. IsInteger(p) /\ IsInteger(q) /\ v = IntegerValue(Calculate(c[i].op, p.n, q.n))
    BY IntegerFacts
  <1>2. p = Value(x, c[i].b) /\ q = Value(x, c[i].c)
    <2>1. c[i].b \in Operands /\ c[i].c \in Operands
      BY BodyFacts DEF Executes
    <2>2. QED
      BY <2>1 DEF Overridden
  <1>3. PICK total : total = Calculate(c[i].op, p.n, q.n)
    OBVIOUS
  <1>4. c[i].op \in Calculations /\ c[i].op \notin Divisions
    BY DEF Calculations, Divisions
  <1>5. Stepped(r, c, m, k, i, x, y, c[i].a, IntegerValue(total))
    BY <1>1, <1>2, <1>3, <1>4, Calculates
  <1>6. QED
    BY <1>1, <1>3, <1>5

\* The next of the values is what its instruction writes.
LEMMA ComputedNext ==
  ASSUME HalfAssumption, CapturedAssumption, NEW r \in RangeSet, NEW c \in Codes, NEW m,
         NEW k, NEW i, NEW x, NEW y, Executes(r, c, m, k, i, x, y),
         c[i].op \in {"MUL", "ADD", "SUB"}, NEW w, Overridden(m, w, x),
         NEW p, p = Override(m, c[i].b, w), NEW q, q = Override(m, c[i].c, w),
         NEW v, v = IF IsInteger(p) /\ IsInteger(q)
                    THEN IntegerValue(Calculate(c[i].op, p.n, q.n)) ELSE NoValue,
         IsInteger(v),
         NEW w2, w2 = Append(w, [register |-> c[i].a, value |-> v])
  PROVE  /\ Stepped(r, c, m, k, i, x, y, c[i].a, v)
         /\ OverriddenMore(m, w, w2, y, v)
  <1>1. Stepped(r, c, m, k, i, x, y, c[i].a, v)
    BY ComputedStep
  <1>2. PICK a : a = c[i].a
    OBVIOUS
  <1>3. x \in Machines /\ a \in FrameRegisters /\ v \in LoopValues
    BY <1>1, <1>2, BodyFacts DEF Executes, At, Stepped
  <1>4. Changed(y, x, a, v)
    BY <1>1, <1>2 DEF Stepped, Writes, Changed
  <1>5. w2 = MoreComputed(w, a, v)
    BY <1>2 DEF MoreComputed
  <1>6. OverriddenMore(m, w, w2, y, v)
    BY <1>3, <1>4, <1>5, OverrideMore
  <1>7. QED
    BY <1>1, <1>6

\* One round of MulAddSub is its instructions, whatever their operands.
LEMMA MulAddSubOneRound ==
  ASSUME HalfAssumption, CapturedAssumption, NEW r \in RangeSet, NEW c \in Codes, NEW m,
         OnItsWay(r, c, m), m.pc = 1, MatchMulAddSub(c), NEW max \in Nat, 1 <= max,
         NEW ok \in Nat
  PROVE  Outcome(r, c, m, 4, max, TryExecuteMulAddSubForLoop(c, m, ok))
  <1> DEFINE B == TryExecuteMulAddSubForLoop(c, m, ok)
             p1 == Override(m, c[1].b, <<>>)
             q1 == Override(m, c[1].c, <<>>)
             v1 == IF IsInteger(p1) /\ IsInteger(q1)
                   THEN IntegerValue(Calculate(c[1].op, p1.n, q1.n)) ELSE NoValue
             w1 == Append(<<>>, [register |-> c[1].a, value |-> v1])
             p2 == Override(m, c[2].b, w1)
             q2 == Override(m, c[2].c, w1)
             v2 == IF IsInteger(p2) /\ IsInteger(q2)
                   THEN IntegerValue(Calculate(c[2].op, p2.n, q2.n)) ELSE NoValue
             w2 == Append(w1, [register |-> c[2].a, value |-> v2])
             p3 == Override(m, c[3].b, w2)
             q3 == Override(m, c[3].c, w2)
             v3 == IF IsInteger(p3) /\ IsInteger(q3)
                   THEN IntegerValue(Calculate(c[3].op, p3.n, q3.n)) ELSE NoValue
             w3 == Append(w2, [register |-> c[3].a, value |-> v3])
             z1 == Put(m, c[1].a, w3[1].value)
             z2 == Put(z1, c[2].a, w3[2].value)
             z  == Put(z2, c[3].a, w3[3].value)
             a  == [Batch(m, ok) EXCEPT !.m = z, !.index = Override(m, R(0), w3).n]
             next == Advance(c, a)
  <1>1. B = IF \/ \E k \in 1 .. 3 : ~IsInteger(w3[k].value)
               \/ \E q \in 0 .. 2 : ~IsInteger(Override(m, R(q), w3))
            THEN Refused(m, ok)
            ELSE IF next.on THEN Publish(next) ELSE next
    BY DEF TryExecuteMulAddSubForLoop
  <1>2. CASE \/ \E k \in 1 .. 3 : ~IsInteger(w3[k].value)
             \/ \E q \in 0 .. 2 : ~IsInteger(Override(m, R(q), w3))
    <2>1. B = Refused(m, ok)
      BY <1>1, <1>2
    <2>2. QED
      BY <2>1, RefusedOutcome
  <1>3. CASE ~ \/ \E k \in 1 .. 3 : ~IsInteger(w3[k].value)
               \/ \E q \in 0 .. 2 : ~IsInteger(Override(m, R(q), w3))
    <2> HIDE DEF v1, v2, v3
    <2>1. /\ Len(c) = 4 /\ c[1] \in BodyInstructions /\ c[2] \in BodyInstructions
          /\ c[3] \in BodyInstructions
          /\ c[1].op = "MUL" /\ c[2].op = "ADD" /\ c[3].op = "SUB"
      BY MulAddSubCode
    <2>2. w3[1].value = v1 /\ w3[2].value = v2 /\ w3[3].value = v3
      OBVIOUS
    <2>3. IsInteger(v1) /\ IsInteger(v2) /\ IsInteger(v3)
      <3>1. \A k \in 1 .. 3 : IsInteger(w3[k].value)
        BY <1>3
      <3> HIDE DEF w3
      <3>2. IsInteger(w3[1].value) /\ IsInteger(w3[2].value) /\ IsInteger(w3[3].value)
        BY <3>1
      <3>3. QED
        BY <2>2, <3>2
    <2> DEFINE e1 == ExecuteInstruction(c, m)
               e2 == ExecuteInstruction(c, e1)
               e3 == ExecuteInstruction(c, e2)
    <2>4. Executes(r, c, m, 0, 1, m, e1) /\ m \in Machines
      <3>1. m = Instructions(c, m, 0) /\ 0 \in Nat
        BY InstructionsByOne
      <3>2. At(r, c, m, 0, m)
        BY <3>1 DEF At, OnItsWay
      <3>3. QED
        BY <2>1, <3>2 DEF Executes, At
    <2> HIDE DEF w1, w2, w3, e1
    <2>5. /\ Stepped(r, c, m, 0, 1, m, e1, c[1].a, v1)
          /\ Len(w1) = 1 /\ Overridden(m, w1, e1)
      <3> DEFINE w0 == <<>>
      <3>1. Overridden(m, w0, m) /\ Len(w0) = 0
        BY OverrideNothing
      <3>2. w1 = Append(w0, [register |-> c[1].a, value |-> v1])
        BY DEF w1
      <3>0. v1 = IF IsInteger(Override(m, c[1].b, w0)) /\ IsInteger(Override(m, c[1].c, w0))
                 THEN IntegerValue(Calculate(c[1].op, Override(m, c[1].b, w0).n, Override(m, c[1].c, w0).n))
                 ELSE NoValue
        BY DEF v1
      <3> HIDE DEF w0
      <3>3. c[1].op \in {"MUL", "ADD", "SUB"}
        BY <2>1
      <3>4. /\ Stepped(r, c, m, 0, 1, m, e1, c[1].a, v1)
            /\ OverriddenMore(m, w0, w1, e1, v1)
        BY <2>3, <2>4, <3>0, <3>1, <3>2, <3>3, ComputedNext
      <3>5. QED
        BY <3>1, <3>4 DEF OverriddenMore, Overridden
    <2>6. At(r, c, m, 1, e1) /\ e1.pc = 2
      BY <2>5 DEF Stepped
    <2> HIDE DEF e2
    <2>7. /\ Stepped(r, c, m, 1, 2, e1, e2, c[2].a, v2)
          /\ Len(w2) = 2 /\ Overridden(m, w2, e2)
      <3>1. Executes(r, c, m, 1, 2, e1, e2)
        BY <2>1, <2>6 DEF Executes, e2
      <3>2. w2 = Append(w1, [register |-> c[2].a, value |-> v2])
        BY DEF w2
      <3>3. c[2].op \in {"MUL", "ADD", "SUB"}
        BY <2>1
      <3>4. /\ Stepped(r, c, m, 1, 2, e1, e2, c[2].a, v2)
            /\ OverriddenMore(m, w1, w2, e2, v2)
        BY <2>3, <2>5, <3>1, <3>2, <3>3, ComputedNext DEF v2
      <3>5. QED
        BY <2>5, <3>4 DEF OverriddenMore, Overridden
    <2>8. At(r, c, m, 2, e2) /\ e2.pc = 3
      BY <2>7 DEF Stepped
    <2> HIDE DEF e3
    <2>9. /\ Stepped(r, c, m, 2, 3, e2, e3, c[3].a, v3)
          /\ \A o \in Operands : Override(m, o, w3) = Value(e3, o)
      <3>1. Executes(r, c, m, 2, 3, e2, e3)
        BY <2>1, <2>8 DEF Executes, e3
      <3>2. w3 = Append(w2, [register |-> c[3].a, value |-> v3])
        BY DEF w3
      <3>3. c[3].op \in {"MUL", "ADD", "SUB"}
        BY <2>1
      <3>4. /\ Stepped(r, c, m, 2, 3, e2, e3, c[3].a, v3)
            /\ OverriddenMore(m, w2, w3, e3, v3)
        BY <2>3, <2>7, <3>1, <3>2, <3>3, ComputedNext DEF v3
      <3>5. QED
        BY <3>4 DEF OverriddenMore
    <2>10. /\ At(r, c, m, 3, e3) /\ e3.pc = 4 /\ e3.table = m.table /\ e3.upvalue = m.upvalue
           /\ \A q \in FrameRegisters : e3.regs[q] =
                IF q = c[3].a THEN v3 ELSE IF q = c[2].a THEN v2 ELSE
                IF q = c[1].a THEN v1 ELSE m.regs[q]
           /\ v1 \in LoopValues /\ v2 \in LoopValues /\ v3 \in LoopValues
      BY <2>5, <2>7, <2>9 DEF Stepped, Writes
    <2> HIDE DEF z1, z2, z
    <2>11. /\ z \in Machines /\ z.pc = m.pc /\ z.table = m.table /\ z.upvalue = m.upvalue
           /\ \A q \in FrameRegisters : z.regs[q] = e3.regs[q]
      <3>1. /\ c[1].a \in FrameRegisters /\ c[2].a \in FrameRegisters /\ c[3].a \in FrameRegisters
        BY <2>1, BodyFacts
      <3>2. /\ z1 \in Machines /\ z1.pc = m.pc /\ z1.table = m.table /\ z1.upvalue = m.upvalue
            /\ \A q \in FrameRegisters : z1.regs[q] = IF q = c[1].a THEN v1 ELSE m.regs[q]
        <4>1. z1 = Put(m, c[1].a, v1)
          BY <2>2 DEF z1
        <4>2. c[1].a \in FrameRegisters /\ m \in Machines /\ v1 \in LoopValues
          BY <2>4, <2>10, <3>1
        <4>3. QED
          BY <4>1, <4>2, PutFields
      <3>3. /\ z2 \in Machines /\ z2.pc = z1.pc /\ z2.table = z1.table /\ z2.upvalue = z1.upvalue
            /\ \A q \in FrameRegisters : z2.regs[q] = IF q = c[2].a THEN v2 ELSE z1.regs[q]
        <4>1. z2 = Put(z1, c[2].a, v2)
          BY <2>2 DEF z2
        <4>2. c[2].a \in FrameRegisters /\ z1 \in Machines /\ v2 \in LoopValues
          BY <2>10, <3>1, <3>2
        <4>3. QED
          BY <4>1, <4>2, PutFields
      <3>4. /\ z \in Machines /\ z.pc = z2.pc /\ z.table = z2.table /\ z.upvalue = z2.upvalue
            /\ \A q \in FrameRegisters : z.regs[q] = IF q = c[3].a THEN v3 ELSE z2.regs[q]
        <4>1. z = Put(z2, c[3].a, v3)
          BY <2>2 DEF z
        <4>2. c[3].a \in FrameRegisters /\ z2 \in Machines /\ v3 \in LoopValues
          BY <2>10, <3>1, <3>3
        <4>3. QED
          BY <4>1, <4>2, PutFields
      <3>5. QED
        BY <2>10, <3>2, <3>3, <3>4
    <2>12. Override(m, R(0), w3) = e3.regs[0]
      <3>1. R(0) \in Operands
        BY DEF R, Operands, FrameRegisters
      <3>2. QED
        BY <2>9, <3>1 DEF Value, R
    <2>13. /\ a \in Batches /\ a.m = z /\ a.index = e3.regs[0].n /\ a.on /\ a.n = 0
      <3>1. PICK b : b = Batch(m, ok)
        OBVIOUS
      <3>2. b \in Batches /\ b.on /\ b.n = 0
        BY <2>4, <3>1, FreshBatch DEF OnItsWay
      <3>3. e3.regs[0].n \in Integers64
        BY <2>10, ControlsAreIntegers DEF At, OnItsWay
      <3>4. a = [b EXCEPT !.m = z, !.index = e3.regs[0].n]
        BY <2>12, <3>1
      <3>5. QED
        BY <2>11, <3>2, <3>3, <3>4 DEF Batches
    <2> HIDE DEF a
    <2>14. Outcome(r, c, m, Len(c), max, IF next.on THEN Publish(next) ELSE next)
      <3>0. PICK k \in Nat : k = 3
        OBVIOUS
      <3>1. k + 1 = Len(c) /\ e3.pc = Len(c)
        BY <2>1, <2>10, <3>0
      <3>2. e3 = Instructions(c, m, k) /\ OnItsWay(r, c, e3)
        BY <2>10, <3>0 DEF At
      <3> HIDE DEF e3
      <3>3. /\ a.m.table = e3.table /\ a.m.upvalue = e3.upvalue
            /\ \A q \in FrameRegisters : a.m.regs[q] = e3.regs[q]
        BY <2>10, <2>11, <2>13
      <3>4. QED
        BY <2>13, <3>1, <3>2, <3>3, SingleRound
    <2>15. B = IF next.on THEN Publish(next) ELSE next
      BY <1>1, <1>3
    <2> HIDE DEF next
    <2>16. QED
      BY <2>1, <2>14, <2>15
  <1>4. QED
    BY <1>2, <1>3

-----------------------------------------------------------------------------
(* temp = i * K1; temp = sum + temp; sum = temp - K2; temp = sum // K3; *)
(* mod = i % K4; sum = temp + mod *)

\* The body of MixArithmetic,
LEMMA MixCode ==
  ASSUME NEW c \in Codes, MatchMix(c)
  PROVE  /\ Len(c) = 7 /\ \A i \in 1 .. 6 : c[i] \in BodyInstructions
         /\ c[1].op = "MUL" /\ c[2].op = "ADD" /\ c[3].op = "SUB"
         /\ c[4].op = "IDIV" /\ c[5].op = "MOD" /\ c[6].op = "ADD"
  <1>1. PICK t : t = <<"MUL", "ADD", "SUB", "IDIV", "MOD", "ADD", "FORLOOP">>
    OBVIOUS
  <1>2. DOMAIN t = 1 .. 7 /\ t = Ops(c) /\ t[1] = "MUL" /\ t[2] = "ADD" /\ t[3] = "SUB"
        /\ t[4] = "IDIV" /\ t[5] = "MOD" /\ t[6] = "ADD"
    BY <1>1 DEF MatchMix
  <1>3. Shaped(c, 7, t)
    BY <1>2, OpsAre
  <1>4. QED
    BY <1>2, <1>3 DEF Shaped

MixShape(c, temp, sum, mod) ==
  /\ Len(c) = 7 /\ \A i \in 1 .. 6 : c[i] \in BodyInstructions
  /\ c[1].op = "MUL" /\ c[2].op = "ADD" /\ c[3].op = "SUB"
  /\ c[4].op = "IDIV" /\ c[5].op = "MOD" /\ c[6].op = "ADD"
  /\ c[1].a = temp /\ c[2].a = temp /\ c[3].a = sum /\ c[4].a = temp /\ c[5].a = mod
  /\ c[6].a = sum
  /\ {temp, sum, mod} \subseteq FrameRegisters \ {0, 1, 2, Visible}
  /\ RegisterTimes(c[1].b, c[1].c)[1] = Visible
  /\ MatchPair(c[2].b, c[2].c, temp, sum)
  /\ c[3].b = R(temp) /\ IntegerConstant(c[3].c)
  /\ c[4].b = R(sum) /\ IntegerConstant(c[4].c) /\ c[4].c.value.n # 0
  /\ c[5].b = R(Visible) /\ IntegerConstant(c[5].c) /\ c[5].c.value.n # 0
  /\ MatchPair(c[6].b, c[6].c, temp, mod)

\* and its registers.
LEMMA MixOperands ==
  ASSUME NEW c \in Codes, MatchMix(c)
  PROVE  MixShape(c, c[1].a, c[3].a, c[5].a)
  <1>1. /\ Len(c) = 7 /\ \A i \in 1 .. 6 : c[i] \in BodyInstructions
        /\ c[1].op = "MUL" /\ c[2].op = "ADD" /\ c[3].op = "SUB"
        /\ c[4].op = "IDIV" /\ c[5].op = "MOD" /\ c[6].op = "ADD"
        /\ c[1] \in BodyInstructions /\ c[2] \in BodyInstructions /\ c[5] \in BodyInstructions
    BY MixCode
  <1>2. /\ RegisterTimes(c[1].b, c[1].c)[1] = Visible
        /\ c[3].a = RegisterPlus(c[2].b, c[2].c, c[1].a) /\ c[3].a # NoRegister
        /\ c[2].a = c[1].a /\ c[3].b = R(c[1].a) /\ IntegerConstant(c[3].c)
        /\ c[4].a = c[1].a /\ c[4].b = R(c[3].a)
        /\ c[5].b = R(Visible)
        /\ \A k \in {4, 5} : IntegerConstant(c[k].c) /\ c[k].c.value.n # 0
        /\ c[6].a = c[3].a /\ MatchPair(c[6].b, c[6].c, c[1].a, c[5].a)
        /\ c[1].a \notin Control /\ c[3].a \notin Control /\ c[5].a \notin Control
    BY DEF MatchMix
  <1>3. /\ c[1].a \in FrameRegisters /\ c[5].a \in FrameRegisters
        /\ c[2].b \in Operands /\ c[2].c \in Operands
    BY <1>1, BodyFacts
  <1>4. MatchPair(c[2].b, c[2].c, c[1].a, c[3].a) /\ c[3].a \in FrameRegisters
    BY <1>2, <1>3, PlusMatches
  <1>5. /\ c[1].a \in FrameRegisters \ {0, 1, 2, Visible}
        /\ c[3].a \in FrameRegisters \ {0, 1, 2, Visible}
        /\ c[5].a \in FrameRegisters \ {0, 1, 2, Visible}
    BY <1>2, <1>3, <1>4, NotControls
  <1>6. QED
    BY <1>1, <1>2, <1>4, <1>5 DEF MixShape

\* x after the six instructions.
Mixed(r, c, m, N, x, y, values, temp, sum, mod) ==
  /\ At(r, c, m, N + 6, y) /\ y.pc = 7 /\ y.table = x.table /\ y.upvalue = x.upvalue
  /\ values[4] \in Integers64 /\ values[5] \in Integers64 /\ values[6] \in Integers64
  /\ \A q \in FrameRegisters :
       y.regs[q] = IF q = sum THEN IntegerValue(values[6])
                   ELSE IF q = mod THEN IntegerValue(values[5])
                   ELSE IF q = temp THEN IntegerValue(values[4]) ELSE x.regs[q]

\* For a temporary that is neither of the others.
LEMMA MixSteps ==
  ASSUME HalfAssumption, CapturedAssumption, NEW r \in RangeSet, NEW c \in Codes, NEW m,
         NEW N, NEW x, At(r, c, m, N, x), x.pc = 1, NEW temp, NEW sum, NEW mod,
         MixShape(c, temp, sum, mod), temp # sum, temp # mod,
         NEW i \in Integers64, x.regs[Visible] = IntegerValue(i),
         NEW s \in Integers64, x.regs[sum] = IntegerValue(s),
         NEW values, values = MixValues(c, s, i)
  PROVE  \E y : Mixed(r, c, m, N, x, y, values, temp, sum, mod)
  <1> DEFINE factor == RegisterTimes(c[1].b, c[1].c)[2]
             added == Wrap(s + Wrap(i * factor))
             less  == Wrap(added - c[3].c.value.n)
             divided == integerFloorDiv(less, c[4].c.value.n)
             modulo  == integerModulo(i, c[5].c.value.n)
             total == Wrap(divided + modulo)
  <1>1. values[4] = divided /\ values[5] = modulo /\ values[6] = total
    BY DEF MixValues
  <1>2. /\ Len(c) = 7 /\ 4 \in 1 .. Len(c) /\ 5 \in 1 .. Len(c) /\ 6 \in 1 .. Len(c)
        /\ c[4] \in BodyInstructions /\ c[5] \in BodyInstructions /\ c[6] \in BodyInstructions
        /\ c[4].op = "IDIV" /\ c[5].op = "MOD" /\ c[6].op = "ADD"
        /\ c[4].a = temp /\ c[5].a = mod /\ c[6].a = sum
        /\ temp \in FrameRegisters /\ sum \in FrameRegisters /\ mod \in FrameRegisters
        /\ temp # Visible /\ sum # Visible /\ mod # Visible
        /\ c[4].b = R(sum) /\ IntegerConstant(c[4].c) /\ c[4].c.value.n # 0
        /\ c[5].b = R(Visible) /\ IntegerConstant(c[5].c) /\ c[5].c.value.n # 0
        /\ MatchPair(c[6].b, c[6].c, temp, mod)
        /\ "IDIV" \in Calculations /\ "MOD" \in Calculations
    BY DEF MixShape, Calculations
  <1>3. MulAddSubs(c, temp, sum)
    BY DEF MixShape, MulAddSubs
  <1>4. Visible \in FrameRegisters /\ N \in Nat
    BY DEF At, FrameRegisters, Visible
  <1>5. PICK e3 : MulAddSubbed(r, c, m, N, x, e3, temp, sum, added, less)
    <2>1. PICK a1, l1 : a1 = Wrap(s + Wrap(i * factor)) /\ l1 = Wrap(a1 - c[3].c.value.n)
      OBVIOUS
    <2>2. \E y : MulAddSubbed(r, c, m, N, x, y, temp, sum, a1, l1)
      BY <1>3, <2>1, MulAddSubSteps
    <2>3. a1 = added /\ l1 = less
      BY <2>1
    <2>4. QED
      BY <2>2, <2>3
  <1> HIDE DEF added, less
  <1>6. /\ At(r, c, m, N + 3, e3) /\ e3.pc = 4 /\ e3.table = x.table /\ e3.upvalue = x.upvalue
        /\ added \in Integers64 /\ less \in Integers64
        /\ \A q \in FrameRegisters :
             e3.regs[q] = IF q = sum THEN IntegerValue(less)
                          ELSE IF q = temp THEN IntegerValue(added) ELSE x.regs[q]
    BY <1>5 DEF MulAddSubbed
  <1>7. /\ IsInteger(IntegerValue(less)) /\ IntegerValue(less).n = less
        /\ IsInteger(IntegerValue(i)) /\ IntegerValue(i).n = i
    BY <1>6, IntegerFacts
  <1> DEFINE e4 == ExecuteInstruction(c, e3)
             e5 == ExecuteInstruction(c, e4)
             e6 == ExecuteInstruction(c, e5)
  <1> HIDE DEF e4
  <1>8. /\ Stepped(r, c, m, N + 3, 4, e3, e4, temp, IntegerValue(divided))
        /\ divided \in Integers64
    <2>1. Executes(r, c, m, N + 3, 4, e3, e4)
      BY <1>2, <1>6 DEF Executes, e4
    <2>2. PICK p, q : p = Value(e3, c[4].b) /\ q = Value(e3, c[4].c)
      OBVIOUS
    <2>3. p = IntegerValue(less) /\ q = c[4].c.value /\ IsInteger(q)
      <3>1. Value(e3, c[4].b) = e3.regs[sum]
        BY <1>2 DEF Value, R
      <3>2. Value(e3, c[4].c) = c[4].c.value /\ IsInteger(c[4].c.value)
        BY <1>2 DEF Value, IntegerConstant
      <3>3. QED
        BY <1>2, <1>6, <2>2, <3>1, <3>2
    <2>4. IsInteger(p) /\ p.n = less /\ q.n # 0
      BY <1>2, <1>7, <2>3
    <2>5. divided = Calculate(c[4].op, p.n, q.n)
      BY <1>2, <2>3, <2>4, CalculateIs
    <2>6. c[4].op \in Calculations
      BY <1>2
    <2> HIDE DEF divided
    <2>7. QED
      BY <1>2, <2>1, <2>2, <2>3, <2>4, <2>5, <2>6, Calculates
  <1> HIDE DEF divided
  <1>9. /\ At(r, c, m, (N + 3) + 1, e4) /\ e4.pc = 5 /\ e4.table = x.table /\ e4.upvalue = x.upvalue
        /\ \A q \in FrameRegisters :
             e4.regs[q] = IF q = temp THEN IntegerValue(divided)
                          ELSE IF q = sum THEN IntegerValue(less) ELSE x.regs[q]
    BY <1>6, <1>8 DEF Stepped, Writes
  <1> HIDE DEF e5
  <1>10. /\ Stepped(r, c, m, (N + 3) + 1, 5, e4, e5, mod, IntegerValue(modulo))
         /\ modulo \in Integers64
    <2>1. Executes(r, c, m, (N + 3) + 1, 5, e4, e5)
      BY <1>2, <1>9 DEF Executes, e5
    <2>2. PICK p, q : p = Value(e4, c[5].b) /\ q = Value(e4, c[5].c)
      OBVIOUS
    <2>3. p = IntegerValue(i) /\ q = c[5].c.value /\ IsInteger(q)
      <3>1. Value(e4, c[5].b) = e4.regs[Visible]
        BY <1>2 DEF Value, R
      <3>2. Value(e4, c[5].c) = c[5].c.value /\ IsInteger(c[5].c.value)
        BY <1>2 DEF Value, IntegerConstant
      <3>3. QED
        BY <1>2, <1>4, <1>9, <2>2, <3>1, <3>2
    <2>4. IsInteger(p) /\ p.n = i /\ q.n # 0
      BY <1>2, <1>7, <2>3
    <2>5. modulo = Calculate(c[5].op, p.n, q.n)
      BY <1>2, <2>3, <2>4, CalculateIs
    <2>6. c[5].op \in Calculations
      BY <1>2
    <2> HIDE DEF modulo
    <2>7. QED
      BY <1>2, <2>1, <2>2, <2>3, <2>4, <2>5, <2>6, Calculates
  <1> HIDE DEF modulo
  <1>11. /\ At(r, c, m, ((N + 3) + 1) + 1, e5) /\ e5.pc = 6 /\ e5.table = x.table
         /\ e5.upvalue = x.upvalue
         /\ \A q \in FrameRegisters :
              e5.regs[q] = IF q = mod THEN IntegerValue(modulo) ELSE IF q = temp THEN IntegerValue(divided)
                           ELSE IF q = sum THEN IntegerValue(less) ELSE x.regs[q]
    BY <1>9, <1>10 DEF Stepped, Writes
  <1>12. /\ IsInteger(IntegerValue(divided)) /\ IntegerValue(divided).n = divided
         /\ IsInteger(IntegerValue(modulo)) /\ IntegerValue(modulo).n = modulo
    BY <1>8, <1>10, IntegerFacts
  <1> HIDE DEF e6
  <1>13. /\ Stepped(r, c, m, ((N + 3) + 1) + 1, 6, e5, e6, sum, IntegerValue(total))
         /\ total \in Integers64
    <2>1. Executes(r, c, m, ((N + 3) + 1) + 1, 6, e5, e6)
      BY <1>2, <1>11 DEF Executes, e6
    <2>2. e5.regs[temp] = IntegerValue(divided) /\ e5.regs[mod] = IntegerValue(modulo)
      BY <1>2, <1>11
    <2>3. /\ IsInteger(e5.regs[temp]) /\ IsInteger(e5.regs[mod])
          /\ total = Wrap(e5.regs[temp].n + e5.regs[mod].n)
      BY <1>12, <2>2
    <2> HIDE DEF total
    <2>4. QED
      BY <1>2, <2>1, <2>3, AddsPair
  <1> HIDE DEF total
  <1>14. /\ At(r, c, m, N + 6, e6) /\ e6.pc = 7 /\ e6.table = x.table
         /\ e6.upvalue = x.upvalue
         /\ \A q \in FrameRegisters :
              e6.regs[q] = IF q = sum THEN IntegerValue(total) ELSE IF q = mod THEN IntegerValue(modulo)
                           ELSE IF q = temp THEN IntegerValue(divided) ELSE x.regs[q]
    <2>1. (((N + 3) + 1) + 1) + 1 = N + 6
      BY <1>4
    <2>2. QED
      BY <1>11, <1>13, <2>1 DEF Stepped, Writes
  <1>15. Mixed(r, c, m, N, x, e6, values, temp, sum, mod)
    BY <1>1, <1>8, <1>10, <1>13, <1>14 DEF Mixed
  <1>16. QED
    BY <1>15

MixInStep(r, c, m, b, x) ==
  /\ Local(r, c, m, 7, b, x) /\ b.sum \in Integers64
  /\ x.regs[c[3].a] = IntegerValue(b.sum)
  /\ b.n > 0 => x.regs[c[1].a] = b.temp /\ x.regs[c[5].a] = b.mod
  /\ \A q \in FrameRegisters \ {0, Visible, c[1].a, c[3].a, c[5].a} : x.regs[q] = m.regs[q]

\* A round of MixArithmetic is its seven instructions if its registers
\* differ.
LEMMA MixRoundInStep ==
  ASSUME HalfAssumption, CapturedAssumption, NEW r \in RangeSet, NEW c \in Codes,
         NEW m, OnItsWay(r, c, m), MixShape(c, c[1].a, c[3].a, c[5].a), MixRegistersDiffer(c),
         NEW b, NEW x, MixInStep(r, c, m, b, x), b.on,
         NEW e, e = MixRound(c, b)
  PROVE  \E f : MixInStep(r, c, m, e, f) /\ e.n = b.n + 1
  <1> DEFINE temp  == c[1].a
             sum   == c[3].a
             mod   == c[5].a
             N     == b.n * 7
             i     == b.visible
             values == MixValues(c, b.sum, i)
             a     == [b EXCEPT !.sum = values[6], !.temp = IntegerValue(values[4]),
                                !.mod = IntegerValue(values[5])]
  <1>1. /\ Local(r, c, m, 7, b, x) /\ b.sum \in Integers64 /\ x.regs[sum] = IntegerValue(b.sum)
        /\ \A q \in FrameRegisters \ {0, Visible, temp, sum, mod} : x.regs[q] = m.regs[q]
    BY DEF MixInStep
  <1>2. /\ At(r, c, m, N, x) /\ x.pc = 1 /\ b \in Batches /\ b.n \in Nat
        /\ i \in Integers64 /\ x.regs[0] = IntegerValue(i) /\ x.regs[Visible] = IntegerValue(i)
    <2>1. 7 \in Nat
      OBVIOUS
    <2>2. QED
      BY <1>1, <2>1, LocalAt
  <1>3. /\ temp \in FrameRegisters \ {0, Visible} /\ sum \in FrameRegisters \ {0, Visible}
        /\ mod \in FrameRegisters \ {0, Visible} /\ Len(c) = 7
        /\ temp # sum /\ temp # mod /\ sum # mod /\ {0, Visible} \subseteq FrameRegisters
    BY DEF MixShape, FrameRegisters, Visible, MixRegistersDiffer
  <1>4. e = Advance(c, a)
    BY DEF MixRound
  <1>5. PICK y : Mixed(r, c, m, N, x, y, values, temp, sum, mod)
    <2>1. PICK s \in Integers64 : s = b.sum
      BY <1>1
    <2>2. PICK v : v = MixValues(c, s, i)
      OBVIOUS
    <2>3. v = values
      BY <2>1, <2>2
    <2> HIDE DEF N, i, temp, sum, mod, values
    <2>4. MixShape(c, temp, sum, mod)
      BY DEF temp, sum, mod
    <2>5. \E y : Mixed(r, c, m, N, x, y, v, temp, sum, mod)
      BY <1>1, <1>2, <1>3, <2>1, <2>2, <2>4, MixSteps
    <2>6. QED
      BY <2>3, <2>5
  <1> HIDE DEF values, i
  <1>6. /\ At(r, c, m, N + 6, y) /\ y.pc = 7 /\ y.table = x.table /\ y.upvalue = x.upvalue
        /\ values[4] \in Integers64 /\ values[5] \in Integers64 /\ values[6] \in Integers64
        /\ \A q \in FrameRegisters :
             y.regs[q] = IF q = sum THEN IntegerValue(values[6])
                         ELSE IF q = mod THEN IntegerValue(values[5])
                         ELSE IF q = temp THEN IntegerValue(values[4]) ELSE x.regs[q]
    BY <1>5 DEF Mixed
  <1>7. /\ a \in Batches /\ a.m = b.m /\ a.index = b.index /\ a.visible = b.visible /\ a.n = b.n
        /\ a.on /\ a.sum = values[6] /\ a.temp = IntegerValue(values[4])
        /\ a.mod = IntegerValue(values[5])
    <2>1. values[6] \in Int /\ IntegerValue(values[4]) \in LoopValues /\ IntegerValue(values[5]) \in LoopValues
      BY <1>6, IntegerFacts, IntegersAreIntegers
    <2>2. QED
      BY <1>2, <2>1 DEF Batches
  <1> HIDE DEF a
  <1>8. PICK f : f = ExecuteInstruction(c, y)
    OBVIOUS
  <1>9. LocallyDone(r, c, m, 7, b, y, a, e, f)
    <2>1. y = Instructions(c, m, b.n * 7 + (7 - 1)) /\ OnItsWay(r, c, y)
      BY <1>2, <1>6 DEF At
    <2>2. y.regs[0] = x.regs[0] /\ y.regs[Visible] = x.regs[Visible]
      BY <1>3, <1>6
    <2>3. LocallyWritten(r, c, m, 7, b, x, y, a)
      BY <1>1, <1>3, <1>6, <1>7, <2>1, <2>2 DEF LocallyWritten
    <2>4. /\ m \in Machines /\ Holds(m, 0 .. 2) /\ m.regs[1].n = forIntegerLimitValue(r.limit, r.step)
          /\ m.regs[2].n = r.step
      BY DEF OnItsWay
    <2>5. 7 \in Nat
      OBVIOUS
    <2>6. QED
      BY <1>4, <1>8, <2>3, <2>4, <2>5, LocalRound
  <1>10. /\ Local(r, c, m, 7, e, f) /\ e.n = b.n + 1 /\ e.sum = values[6]
         /\ e.temp = IntegerValue(values[4]) /\ e.mod = IntegerValue(values[5])
         /\ \A q \in FrameRegisters \ {0, Visible} : f.regs[q] = y.regs[q]
    BY <1>7, <1>9 DEF LocallyDone
  <1>11. /\ f.regs[sum] = IntegerValue(values[6]) /\ f.regs[temp] = IntegerValue(values[4])
         /\ f.regs[mod] = IntegerValue(values[5])
    BY <1>3, <1>6, <1>10
  <1>12. \A q \in FrameRegisters \ {0, Visible, temp, sum, mod} : f.regs[q] = m.regs[q]
    BY <1>1, <1>6, <1>10
  <1>13. MixInStep(r, c, m, e, f)
    BY <1>6, <1>10, <1>11, <1>12 DEF MixInStep
  <1>14. QED
    BY <1>10, <1>13

IsPut(w, m, r, v) ==
  /\ w \in Machines /\ w.pc = m.pc /\ w.table = m.table /\ w.upvalue = m.upvalue
  /\ \A q \in FrameRegisters : w.regs[q] = IF q = r THEN v ELSE m.regs[q]

\* What a Put has done.
LEMMA PutIs ==
  ASSUME NEW m \in Machines, NEW r \in FrameRegisters, NEW v \in LoopValues,
         NEW w, w = Put(m, r, v)
  PROVE  IsPut(w, m, r, v)
  BY PutFields DEF IsPut

\* Three registers are written, and the index published.
LEMMA CommitThree ==
  ASSUME HalfAssumption, NEW r, NEW c, NEW m, NEW size, NEW b, NEW x, Local(r, c, m, size, b, x),
         NEW t \in FrameRegisters, NEW p \in FrameRegisters, NEW s \in FrameRegisters,
         s # t, s # p, t # p,
         NEW u \in LoopValues, NEW o \in LoopValues, NEW v \in LoopValues,
         x.regs[t] = u, x.regs[p] = o, x.regs[s] = v,
         \A q \in FrameRegisters \ {0, Visible, s, t, p} : x.regs[q] = m.regs[q]
  PROVE  LET d == Publish([b EXCEPT !.m = Put(Put(Put(b.m, t, u), p, o), s, v)])
         IN  d.m = x /\ d.n = b.n
  <1> DEFINE w1 == Put(b.m, t, u)
             w2 == Put(w1, p, o)
             w  == Put(w2, s, v)
             d  == [b EXCEPT !.m = w]
  <1>1. b.m \in Machines /\ b.m.regs = m.regs
    BY BatchFields DEF Local
  <1>2. /\ w1 \in Machines /\ w1.pc = b.m.pc /\ w1.table = b.m.table /\ w1.upvalue = b.m.upvalue
        /\ \A q \in FrameRegisters : w1.regs[q] = IF q = t THEN u ELSE b.m.regs[q]
    <2>1. PICK y \in Machines : y = b.m
      BY <1>1
    <2>2. w1 = Put(y, t, u)
      BY <2>1
    <2> HIDE DEF w1, w, w2, d
    <2>3. IsPut(w1, y, t, u)
      BY <2>2, PutIs
    <2>4. QED
      BY <2>1, <2>3 DEF IsPut
  <1> HIDE DEF w1
  <1>3. /\ w2 \in Machines /\ w2.pc = w1.pc /\ w2.table = w1.table /\ w2.upvalue = w1.upvalue
        /\ \A q \in FrameRegisters : w2.regs[q] = IF q = p THEN o ELSE w1.regs[q]
    <2>1. w1 \in Machines
      BY <1>2
    <2> HIDE DEF w, d
    <2>2. QED
      BY <2>1, PutFields
  <1> HIDE DEF w2
  <1>4. /\ w \in Machines /\ w.pc = w2.pc /\ w.table = w2.table /\ w.upvalue = w2.upvalue
        /\ \A q \in FrameRegisters : w.regs[q] = IF q = s THEN v ELSE w2.regs[q]
    <2>1. w2 \in Machines
      BY <1>3
    <2> HIDE DEF d
    <2>2. QED
      BY <2>1, PutFields
  <1> HIDE DEF w
  <1>5. \A q \in FrameRegisters \ {0, Visible} : w.regs[q] = x.regs[q]
    BY <1>1, <1>2, <1>3, <1>4
  <1>6. w.pc = b.m.pc /\ w.table = b.m.table /\ w.upvalue = b.m.upvalue
    BY <1>2, <1>3, <1>4
  <1>7. Publish(d).m = x /\ Publish(d).n = b.n
    BY <1>4, <1>5, <1>6, Commit
  <1>8. QED
    BY <1>7 DEF w, w1, w2

\* A batch of MixArithmetic is as many instructions after its commit.
LEMMA MixBatch ==
  ASSUME HalfAssumption, CapturedAssumption, NEW r \in RangeSet, NEW c \in Codes, NEW m,
         OnItsWay(r, c, m), m.pc = 1, MatchMix(c), NEW max \in Nat, NEW ok \in Nat
  PROVE  Outcome(r, c, m, 7, max, TryExecuteMixArithmeticForLoopBatch(c, m, max, ok))
  <1> DEFINE temp == c[1].a
             sum == c[3].a
             mod == c[5].a
             B == TryExecuteMixArithmeticForLoopBatch(c, m, max, ok)
             b == [Batch(m, ok) EXCEPT !.sum = m.regs[sum].n]
             done == Iterate("MixArithmetic", c, b, max)
             Kept == {x \in Batches : \E y : MixInStep(r, c, m, x, y)}
  <1>1. CASE ~MixRegistersDiffer(c) \/ ~Holds(m, Control \cup {sum})
    BY <1>1, RefusedOutcome DEF TryExecuteMixArithmeticForLoopBatch
  <1>2. CASE MixRegistersDiffer(c) /\ Holds(m, Control \cup {sum})
    <2>1. /\ MixShape(c, temp, sum, mod) /\ Len(c) = 7 /\ Len(c) > 1
          /\ temp \in FrameRegisters /\ sum \in FrameRegisters /\ mod \in FrameRegisters
          /\ temp # sum /\ temp # mod /\ sum # mod
      BY <1>2, MixOperands DEF MixShape, MixRegistersDiffer
    <2>2. m \in Machines /\ m.regs[sum] \in LoopValues
      BY <2>1, MachineFields DEF OnItsWay
    <2>3. /\ m.regs[sum].n \in Int /\ m.regs[sum].n \in Integers64
          /\ m.regs[sum] = IntegerValue(m.regs[sum].n)
      BY <1>2, <2>2, IntegerFacts, IntegersAreIntegers DEF Holds
    <2>4. Started(r, c, m, b) /\ b.sum = m.regs[sum].n
      <3>1. Len(c) > 1 /\ m.regs[sum].n \in Int
        BY <2>1, <2>3
      <3> HIDE DEF sum
      <3>2. QED
        BY <3>1, StartsWithSum
    <2>5. b \in Kept /\ b.n = 0 /\ \A x \in Kept : x.n \in Nat
      <3>1. Local(r, c, m, 7, b, m) /\ b \in Batches /\ b.n = 0
        <4>1. 7 \in Nat
          OBVIOUS
        <4>2. QED
          BY <2>4, <4>1, StartsLocal DEF Started
      <3>2. MixInStep(r, c, m, b, m)
        BY <2>3, <2>4, <3>1 DEF MixInStep
      <3>3. QED
        BY <3>1, <3>2, BatchFields
    <2>6. ASSUME NEW x \in Kept, x.on
          PROVE  Round("MixArithmetic", c, x) \in Kept /\ Round("MixArithmetic", c, x).n <= x.n + 1
      <3>1. PICK e : e = MixRound(c, x)
        OBVIOUS
      <3>2. PICK y : MixInStep(r, c, m, x, y)
        OBVIOUS
      <3>3. PICK f : MixInStep(r, c, m, e, f) /\ e.n = x.n + 1
        <4> HIDE DEF temp, sum, mod
        <4>1. QED
          BY <1>2, <2>1, <2>6, <3>1, <3>2, MixRoundInStep DEF temp, sum, mod
      <3>4. e \in Batches /\ x.n \in Nat
        BY <3>3, BatchFields DEF MixInStep, Local
      <3>5. Round("MixArithmetic", c, x) = e
        BY <3>1 DEF Round
      <3>6. QED
        BY <3>3, <3>4, <3>5
    <2>7. done \in Kept /\ done.n <= max
      <3> HIDE DEF Kept, b
      <3>1. QED
        BY <2>5, <2>6, IterateKeeps
    <2>8. PICK x : MixInStep(r, c, m, done, x)
      BY <2>7
    <2>9. /\ done \in Batches /\ done.n \in Nat /\ done.m \in Machines /\ Local(r, c, m, 7, done, x)
          /\ x = Instructions(c, m, done.n * 7) /\ OnItsWay(r, c, x)
      BY <2>8, BatchFields DEF MixInStep, Local
    <2> DEFINE v == IntegerValue(done.sum)
               d == Publish([done EXCEPT !.m = Put(Put(Put(done.m, temp, done.temp), mod, done.mod), sum, v)])
    <2>10. B = d
      <3>1. B = Publish([done EXCEPT !.m.regs[temp] = done.temp, !.m.regs[mod] = done.mod,
                                     !.m.regs[sum] = v])
        BY <1>2 DEF TryExecuteMixArithmeticForLoopBatch, CommitMix
      <3> HIDE DEF done
      <3>2. QED
        BY <2>9, <3>1 DEF Put, Batches, Machines
    <2> HIDE DEF done, b, Kept
    <2>11. v \in LoopValues /\ done.temp \in LoopValues /\ done.mod \in LoopValues
      BY <2>8, <2>9, IntegerFacts, BatchFields DEF MixInStep
    <2>12. CASE done.n > 0
      <3>1. /\ x.regs[sum] = v /\ x.regs[temp] = done.temp /\ x.regs[mod] = done.mod
            /\ \A q \in FrameRegisters \ {0, Visible, sum, temp, mod} : x.regs[q] = m.regs[q]
        BY <2>8, <2>12 DEF MixInStep
      <3>2. d.m = x /\ d.n = done.n
        <4> HIDE DEF v, temp, sum, mod
        <4>1. QED
          BY <2>1, <2>9, <2>11, <3>1, CommitThree
      <3> HIDE DEF d
      <3>3. QED
        BY <2>7, <2>9, <2>10, <3>2 DEF Outcome
    <2>13. CASE done.n = 0
      <3> DEFINE w1 == Put(done.m, temp, done.temp)
                 w2 == Put(w1, mod, done.mod)
                 w  == Put(w2, sum, v)
      <3>1. w1 \in Machines
        BY <2>1, <2>9, <2>11, PutFields
      <3> HIDE DEF w1, v
      <3>2. w2 \in Machines
        BY <2>1, <2>11, <3>1, PutFields
      <3> HIDE DEF w2
      <3>3. w \in Machines
        BY <2>1, <2>11, <3>2, PutFields
      <3> HIDE DEF w
      <3>4. [done EXCEPT !.m = w] \in Batches /\ [done EXCEPT !.m = w].n = 0
            /\ [done EXCEPT !.m = w].visible \in Integers64
        BY <2>9, <2>13, <3>3 DEF Batches, Local
      <3>5. Publish([done EXCEPT !.m = w]).n = 0
        BY <3>4, PublishFields DEF PublishedAs
      <3>6. B.n = 0
        BY <2>10, <3>5 DEF w, w1, w2
      <3>7. QED
        BY <3>6 DEF Outcome
    <2>14. QED
      BY <2>9, <2>12, <2>13
  <1>3. QED
    BY <1>1, <1>2

-----------------------------------------------------------------------------
(* One round of the six instructions *)

\* What a round computes are integers of the width.
LEMMA MixValuesInRange ==
  ASSUME HalfAssumption, NEW c, NEW temp, NEW sum, NEW mod, MixShape(c, temp, sum, mod),
         NEW i \in Integers64, NEW s \in Integers64, NEW values, values = MixValues(c, s, i)
  PROVE  /\ values[1] \in Integers64 /\ values[2] \in Integers64 /\ values[3] \in Integers64
         /\ values[4] \in Integers64 /\ values[5] \in Integers64 /\ values[6] \in Integers64
  <1> DEFINE factor == RegisterTimes(c[1].b, c[1].c)[2]
             product == Wrap(i * factor)
             added == Wrap(s + product)
             less  == Wrap(added - c[3].c.value.n)
             divided == integerFloorDiv(less, c[4].c.value.n)
             modulo  == integerModulo(i, c[5].c.value.n)
             total == Wrap(divided + modulo)
  <1>1. /\ values[1] = product /\ values[2] = added /\ values[3] = less
        /\ values[4] = divided /\ values[5] = modulo /\ values[6] = total
    BY DEF MixValues
  <1>2. /\ c[1].b \in Operands /\ c[1].c \in Operands /\ c[3].c \in Operands
        /\ c[4].c \in Operands /\ c[5].c \in Operands
    <2>1. /\ c[1] \in BodyInstructions /\ c[3] \in BodyInstructions /\ c[4] \in BodyInstructions
          /\ c[5] \in BodyInstructions
      BY DEF MixShape
    <2>2. QED
      BY <2>1, BodyFacts
  <1>3. ASSUME NEW o \in Operands, IntegerConstant(o)
        PROVE  o.value.n \in Integers64
    BY <1>3, IntegerFacts DEF Operands, IntegerConstant, NoValue
  <1>4. factor \in Int
    <2>1. \A o \in Operands : IntegerConstant(o) => o.value.n \in Int
      BY <1>3, IntegersAreIntegers
    <2>2. \/ IntegerConstant(c[1].c) /\ factor = c[1].c.value.n
          \/ IntegerConstant(c[1].b) /\ factor = c[1].b.value.n
          \/ factor = 0
      BY DEF RegisterTimes
    <2> HIDE DEF factor
    <2>3. QED
      BY <1>2, <2>1, <2>2
  <1>5. /\ c[3].c.value.n \in Int
        /\ c[4].c.value.n \in Integers64 \ {0} /\ c[5].c.value.n \in Integers64 \ {0}
    <2>1. /\ IntegerConstant(c[3].c) /\ IntegerConstant(c[4].c) /\ IntegerConstant(c[5].c)
          /\ c[4].c.value.n # 0 /\ c[5].c.value.n # 0
      BY DEF MixShape
    <2>2. QED
      BY <1>2, <1>3, <2>1, IntegersAreIntegers
  <1>6. i \in Int /\ s \in Int
    BY IntegersAreIntegers
  <1> HIDE DEF factor
  <1>7. product \in Integers64 /\ product \in Int
    <2>1. i * factor \in Int
      BY <1>4, <1>6
    <2>2. QED
      BY <2>1, WrapInRange, IntegersAreIntegers
  <1> HIDE DEF product
  <1>8. added \in Integers64 /\ added \in Int
    <2>1. s + product \in Int
      BY <1>6, <1>7
    <2>2. QED
      BY <2>1, WrapInRange, IntegersAreIntegers
  <1> HIDE DEF added
  <1>9. less \in Integers64
    <2>1. added - c[3].c.value.n \in Int
      BY <1>5, <1>8
    <2>2. QED
      BY <2>1, WrapInRange
  <1> HIDE DEF less
  <1>10. divided \in Integers64 /\ divided \in Int /\ modulo \in Integers64 /\ modulo \in Int
    BY <1>5, <1>9, FloorDivInRange, IntegersAreIntegers
  <1> HIDE DEF divided, modulo
  <1>11. total \in Integers64
    <2>1. divided + modulo \in Int
      BY <1>10
    <2>2. QED
      BY <2>1, WrapInRange
  <1>12. QED
    BY <1>1, <1>7, <1>8, <1>9, <1>10, <1>11

\* The six values go to the registers in turn.
SixWritten(z, m, temp, sum, mod, values) ==
  /\ z \in Machines /\ z.pc = m.pc /\ z.table = m.table /\ z.upvalue = m.upvalue
  /\ \A q \in FrameRegisters :
       z.regs[q] = IF q = sum THEN IntegerValue(values[6])
                   ELSE IF q = mod THEN IntegerValue(values[5])
                   ELSE IF q = temp THEN IntegerValue(values[4]) ELSE m.regs[q]

\* The registers after the six writes of a round.
LEMMA WriteSix ==
  ASSUME HalfAssumption, NEW m \in Machines, NEW values,
         \A k \in 1 .. 6 : values[k] \in Integers64,
         NEW temp \in FrameRegisters, NEW sum \in FrameRegisters, NEW mod \in FrameRegisters,
         NEW z1, z1 = Put(m, temp, IntegerValue(values[1])),
         NEW z2, z2 = Put(z1, temp, IntegerValue(values[2])),
         NEW z3, z3 = Put(z2, sum, IntegerValue(values[3])),
         NEW z4, z4 = Put(z3, temp, IntegerValue(values[4])),
         NEW z5, z5 = Put(z4, mod, IntegerValue(values[5])),
         NEW z6, z6 = Put(z5, sum, IntegerValue(values[6]))
  PROVE  SixWritten(z6, m, temp, sum, mod, values)
  <1>0. \A k \in 1 .. 6 : IntegerValue(values[k]) \in LoopValues
    BY IntegerFacts
  <1>1. IsPut(z1, m, temp, IntegerValue(values[1]))
    <2>1. IntegerValue(values[1]) \in LoopValues
      BY <1>0
    <2>2. QED
      BY <2>1, PutIs
  <1>2. IsPut(z2, z1, temp, IntegerValue(values[2]))
    <2>1. IntegerValue(values[2]) \in LoopValues /\ z1 \in Machines
      BY <1>0, <1>1 DEF IsPut
    <2>2. QED
      BY <2>1, PutIs
  <1>3. IsPut(z3, z2, sum, IntegerValue(values[3]))
    <2>1. IntegerValue(values[3]) \in LoopValues /\ z2 \in Machines
      BY <1>0, <1>2 DEF IsPut
    <2>2. QED
      BY <2>1, PutIs
  <1>4. IsPut(z4, z3, temp, IntegerValue(values[4]))
    <2>1. IntegerValue(values[4]) \in LoopValues /\ z3 \in Machines
      BY <1>0, <1>3 DEF IsPut
    <2>2. QED
      BY <2>1, PutIs
  <1>5. IsPut(z5, z4, mod, IntegerValue(values[5]))
    <2>1. IntegerValue(values[5]) \in LoopValues /\ z4 \in Machines
      BY <1>0, <1>4 DEF IsPut
    <2>2. QED
      BY <2>1, PutIs
  <1>6. IsPut(z6, z5, sum, IntegerValue(values[6]))
    <2>1. IntegerValue(values[6]) \in LoopValues /\ z5 \in Machines
      BY <1>0, <1>5 DEF IsPut
    <2>2. QED
      BY <2>1, PutIs
  <1>7. /\ z6.pc = m.pc /\ z6.table = m.table /\ z6.upvalue = m.upvalue /\ z6 \in Machines
    BY <1>1, <1>2, <1>3, <1>4, <1>5, <1>6 DEF IsPut
  <1>8. ASSUME NEW q \in FrameRegisters
        PROVE  z6.regs[q] = IF q = sum THEN IntegerValue(values[6])
                   ELSE IF q = mod THEN IntegerValue(values[5])
                   ELSE IF q = temp THEN IntegerValue(values[4]) ELSE m.regs[q]
    <2>1. z3.regs[q] = IF q = sum THEN IntegerValue(values[3])
                       ELSE IF q = temp THEN IntegerValue(values[2]) ELSE m.regs[q]
      BY <1>1, <1>2, <1>3 DEF IsPut
    <2>2. z6.regs[q] = IF q = sum THEN IntegerValue(values[6])
                       ELSE IF q = mod THEN IntegerValue(values[5])
                       ELSE IF q = temp THEN IntegerValue(values[4]) ELSE z3.regs[q]
      BY <1>4, <1>5, <1>6 DEF IsPut
    <2>3. QED
      BY <2>1, <2>2
  <1>9. QED
    BY <1>7, <1>8 DEF SixWritten

\* What the one round does, whatever its registers.
MixOne(c, m, ok, z, values, B) ==
  LET next == Advance(c, [Batch(m, ok) EXCEPT !.m = z])
  IN /\ SixWritten(z, m, c[1].a, c[3].a, c[5].a, values)
     /\ values = MixValues(c, m.regs[c[3].a].n, m.regs[Visible].n)
     /\ \A k \in 1 .. 6 : values[k] \in Integers64
     /\ m.regs[c[3].a].n \in Integers64 /\ m.regs[c[3].a] = IntegerValue(m.regs[c[3].a].n)
     /\ m.regs[Visible].n \in Integers64 /\ m.regs[Visible] = IntegerValue(m.regs[Visible].n)
     /\ B = IF next.on THEN Publish(next) ELSE next

\* The one round of MixArithmetic.
LEMMA MixOneIs ==
  ASSUME HalfAssumption, NEW c \in Codes, NEW m \in Machines, MatchMix(c), NEW ok \in Nat,
         Holds(m, Control \cup {c[3].a})
  PROVE  \E z, values : MixOne(c, m, ok, z, values, TryExecuteMixArithmeticForLoop(c, m, ok))
  <1> DEFINE temp == c[1].a
             sum  == c[3].a
             mod  == c[5].a
             values == MixValues(c, m.regs[sum].n, m.regs[Visible].n)
             z1 == Put(m, c[1].a, IntegerValue(values[1]))
             z2 == Put(z1, c[2].a, IntegerValue(values[2]))
             z3 == Put(z2, c[3].a, IntegerValue(values[3]))
             z4 == Put(z3, c[4].a, IntegerValue(values[4]))
             z5 == Put(z4, c[5].a, IntegerValue(values[5]))
             z  == Put(z5, c[6].a, IntegerValue(values[6]))
             next == Advance(c, [Batch(m, ok) EXCEPT !.m = z])
             B == TryExecuteMixArithmeticForLoop(c, m, ok)
  <1>1. B = IF next.on THEN Publish(next) ELSE next
    BY DEF TryExecuteMixArithmeticForLoop
  <1>2. MixShape(c, temp, sum, mod)
    BY MixOperands
  <1>3. /\ temp \in FrameRegisters /\ sum \in FrameRegisters /\ mod \in FrameRegisters
        /\ c[2].a = temp /\ c[4].a = temp /\ c[6].a = sum /\ Visible \in FrameRegisters
    BY <1>2 DEF MixShape, FrameRegisters, Visible
  <1>4. /\ m.regs[sum].n \in Integers64 /\ m.regs[sum] = IntegerValue(m.regs[sum].n)
        /\ m.regs[Visible].n \in Integers64 /\ m.regs[Visible] = IntegerValue(m.regs[Visible].n)
    <2>1. m.regs[sum] \in LoopValues /\ m.regs[Visible] \in LoopValues
      BY <1>3, MachineFields
    <2>2. IsInteger(m.regs[sum]) /\ IsInteger(m.regs[Visible])
      BY DEF Holds, Control, Visible
    <2>3. QED
      BY <2>1, <2>2, IntegerFacts
  <1>5. \A k \in 1 .. 6 : values[k] \in Integers64
    <2> HIDE DEF values
    <2>1. /\ values[1] \in Integers64 /\ values[2] \in Integers64 /\ values[3] \in Integers64
          /\ values[4] \in Integers64 /\ values[5] \in Integers64 /\ values[6] \in Integers64
      <3> HIDE DEF temp, sum, mod
      <3>1. QED
        BY <1>2, <1>4, MixValuesInRange DEF values
    <2>2. QED
      BY <2>1
  <1> HIDE DEF values
  <1>6. SixWritten(z, m, temp, sum, mod, values)
    <2>1. /\ z1 = Put(m, temp, IntegerValue(values[1])) /\ z2 = Put(z1, temp, IntegerValue(values[2]))
          /\ z3 = Put(z2, sum, IntegerValue(values[3])) /\ z4 = Put(z3, temp, IntegerValue(values[4]))
          /\ z5 = Put(z4, mod, IntegerValue(values[5])) /\ z  = Put(z5, sum, IntegerValue(values[6]))
      BY <1>3
    <2> HIDE DEF temp, sum, mod, z1, z2, z3, z4, z5, z
    <2>2. QED
      BY <1>3, <1>5, <2>1, WriteSix
  <1> HIDE DEF z, B
  <1>7. MixOne(c, m, ok, z, values, B)
    BY <1>1, <1>4, <1>5, <1>6 DEF MixOne, values
  <1>8. QED
    BY <1>7 DEF B

\* It is its instructions, unless temp is the sum or the remainder.
LEMMA MixOneRound ==
  ASSUME HalfAssumption, CapturedAssumption, NEW r \in RangeSet, NEW c \in Codes, NEW m,
         OnItsWay(r, c, m), m.pc = 1, MatchMix(c), ~MixAliased(c), NEW max \in Nat, 1 <= max,
         NEW ok \in Nat
  PROVE  Outcome(r, c, m, 7, max, TryExecuteMixArithmeticForLoop(c, m, ok))
  <1> DEFINE temp == c[1].a
             sum  == c[3].a
             mod  == c[5].a
             B == TryExecuteMixArithmeticForLoop(c, m, ok)
  <1>0. m \in Machines /\ Holds(m, 0 .. 2)
    BY DEF OnItsWay
  <1>1. CASE ~Holds(m, Control \cup {sum})
    BY <1>1, RefusedOutcome DEF TryExecuteMixArithmeticForLoop
  <1>2. CASE Holds(m, Control \cup {sum})
    <2>1. PICK z, values : MixOne(c, m, ok, z, values, B)
      BY <1>0, <1>2, MixOneIs
    <2> DEFINE a == [Batch(m, ok) EXCEPT !.m = z]
               next == Advance(c, a)
    <2>2. /\ SixWritten(z, m, temp, sum, mod, values)
          /\ values = MixValues(c, m.regs[sum].n, m.regs[Visible].n)
          /\ \A k \in 1 .. 6 : values[k] \in Integers64
          /\ m.regs[sum].n \in Integers64 /\ m.regs[sum] = IntegerValue(m.regs[sum].n)
          /\ m.regs[Visible].n \in Integers64 /\ m.regs[Visible] = IntegerValue(m.regs[Visible].n)
          /\ B = IF next.on THEN Publish(next) ELSE next
      BY <2>1 DEF MixOne
    <2>3. MixShape(c, temp, sum, mod) /\ temp # sum /\ temp # mod
      BY MixOperands DEF MixAliased
    <2>4. PICK y : Mixed(r, c, m, 0, m, y, values, temp, sum, mod)
      <3>1. PICK i \in Integers64, s \in Integers64 : i = m.regs[Visible].n /\ s = m.regs[sum].n
        BY <2>2
      <3>2. At(r, c, m, 0, m)
        <4>1. m = Instructions(c, m, 0) /\ 0 \in Nat
          BY InstructionsByOne
        <4>2. QED
          BY <1>0, <4>1 DEF At, OnItsWay
      <3> HIDE DEF temp, sum, mod, B, next
      <3>3. m.regs[Visible] = IntegerValue(i) /\ m.regs[sum] = IntegerValue(s) /\ values = MixValues(c, s, i)
        BY <2>2, <3>1
      <3>4. QED
        BY <2>3, <3>2, <3>3, MixSteps
    <2>5. /\ At(r, c, m, 6, y) /\ y.pc = 7 /\ y.table = m.table /\ y.upvalue = m.upvalue
          /\ \A q \in FrameRegisters :
               y.regs[q] = IF q = sum THEN IntegerValue(values[6])
                           ELSE IF q = mod THEN IntegerValue(values[5])
                           ELSE IF q = temp THEN IntegerValue(values[4]) ELSE m.regs[q]
      BY <2>4 DEF Mixed
    <2>6. /\ z.table = y.table /\ z.upvalue = y.upvalue /\ z \in Machines
          /\ \A q \in FrameRegisters : z.regs[q] = y.regs[q]
      BY <2>2, <2>5 DEF SixWritten
    <2>7. y.regs[0] = m.regs[0]
      BY <2>3, <2>5 DEF MixShape, FrameRegisters
    <2>8. a \in Batches /\ a.m = z /\ a.index = y.regs[0].n /\ a.on /\ a.n = 0
      <3>1. PICK b : b = Batch(m, ok)
        OBVIOUS
      <3>2. b \in Batches /\ b.on /\ b.n = 0 /\ b.index = m.regs[0].n
        BY <1>0, <3>1, FreshBatch
      <3>3. a = [b EXCEPT !.m = z]
        BY <3>1
      <3>4. QED
        BY <2>6, <2>7, <3>2, <3>3 DEF Batches
    <2> HIDE DEF a
    <2>9. Len(c) = 7
      BY <2>3 DEF MixShape
    <2>10. Outcome(r, c, m, Len(c), max, IF next.on THEN Publish(next) ELSE next)
      <3>1. PICK k \in Nat : k = 6
        OBVIOUS
      <3>2. k + 1 = Len(c) /\ y.pc = Len(c)
        BY <2>5, <2>9, <3>1
      <3>3. y = Instructions(c, m, k) /\ OnItsWay(r, c, y)
        BY <2>5, <3>1 DEF At
      <3>4. /\ a.m.table = y.table /\ a.m.upvalue = y.upvalue
            /\ \A q \in FrameRegisters : a.m.regs[q] = y.regs[q]
        BY <2>6, <2>8
      <3>5. QED
        BY <2>8, <3>2, <3>3, <3>4, SingleRound
    <2> HIDE DEF next
    <2>11. QED
      BY <2>2, <2>9, <2>10
  <1>3. QED
    BY <1>1, <1>2

-----------------------------------------------------------------------------
(* A temporary that is the sum or the remainder: the round and the six *)
(* instructions write other integers to the same registers. *)

\* x has done k of the six instructions, of integers all.
Mixing(r, c, p, k, x) ==
  /\ At(r, c, p, k, x) /\ x.pc = k + 1
  /\ IsInteger(x.regs[c[3].a]) /\ IsInteger(x.regs[Visible])
  /\ k >= 1 => IsInteger(x.regs[c[1].a])
  /\ k >= 5 => IsInteger(x.regs[c[5].a])
  /\ \A q \in FrameRegisters \ {c[1].a, c[3].a, c[5].a} : x.regs[q] = p.regs[q]

\* The instruction at i has integers to calculate with.
Ready(c, i, x) ==
  /\ c[i].op \in Calculations
  /\ IsInteger(Value(x, c[i].b)) /\ IsInteger(Value(x, c[i].c))
  /\ c[i].op \in Divisions => Value(x, c[i].c).n # 0

\* The operands of the next instruction are integers,
LEMMA MixReady ==
  ASSUME NEW c, MixShape(c, c[1].a, c[3].a, c[5].a), NEW r, NEW p, NEW k \in 0 .. 5, NEW x,
         Mixing(r, c, p, k, x)
  PROVE  Ready(c, k + 1, x)
  <1> DEFINE temp == c[1].a
             sum  == c[3].a
             mod  == c[5].a
  <1>1. /\ x \in Machines /\ IsInteger(x.regs[sum]) /\ IsInteger(x.regs[Visible])
        /\ k >= 1 => IsInteger(x.regs[temp])
        /\ k >= 5 => IsInteger(x.regs[mod])
    BY DEF Mixing, At
  <1>2. /\ c[1].op = "MUL" /\ c[2].op = "ADD" /\ c[3].op = "SUB"
        /\ c[4].op = "IDIV" /\ c[5].op = "MOD" /\ c[6].op = "ADD"
        /\ temp \in FrameRegisters /\ sum \in FrameRegisters /\ mod \in FrameRegisters
        /\ RegisterTimes(c[1].b, c[1].c)[1] = Visible
        /\ MatchPair(c[2].b, c[2].c, temp, sum)
        /\ c[3].b = R(temp) /\ IntegerConstant(c[3].c)
        /\ c[4].b = R(sum) /\ IntegerConstant(c[4].c) /\ c[4].c.value.n # 0
        /\ c[5].b = R(Visible) /\ IntegerConstant(c[5].c) /\ c[5].c.value.n # 0
        /\ MatchPair(c[6].b, c[6].c, temp, mod)
        /\ c[1] \in BodyInstructions /\ c[2] \in BodyInstructions /\ c[6] \in BodyInstructions
        /\ Visible \in FrameRegisters
    BY DEF MixShape, FrameRegisters, Visible
  <1>3. /\ "MUL" \in Calculations /\ "ADD" \in Calculations /\ "SUB" \in Calculations
        /\ "IDIV" \in Calculations /\ "MOD" \in Calculations
        /\ "MUL" \notin Divisions /\ "ADD" \notin Divisions /\ "SUB" \notin Divisions
    BY DEF Calculations, Divisions
  <1>4. /\ \A o : IntegerConstant(o) => Value(x, o) = o.value /\ IsInteger(o.value)
        /\ \A q : Value(x, R(q)) = x.regs[q]
    BY DEF IntegerConstant, Value, R
  <1>5. /\ c[1].b \in Operands /\ c[1].c \in Operands /\ c[2].b \in Operands /\ c[2].c \in Operands
        /\ c[6].b \in Operands /\ c[6].c \in Operands
    BY <1>2, BodyFacts
  <1> HIDE DEF temp, sum, mod
  <1>6. CASE k = 0
    <2>1. PICK i : x.regs[Visible] = IntegerValue(i)
      <3>1. x.regs[Visible] \in LoopValues
        BY <1>1, <1>2, MachineFields
      <3>2. QED
        BY <1>1, <3>1, IntegerFacts
    <2>2. IsInteger(Value(x, c[1].b)) /\ IsInteger(Value(x, c[1].c))
      BY <1>1, <1>2, <1>5, <2>1, TimesValues
    <2>3. QED
      BY <1>2, <1>3, <1>6, <2>2 DEF Ready
  <1>7. CASE k = 1
    <2>1. IsInteger(Value(x, c[2].b)) /\ IsInteger(Value(x, c[2].c))
      BY <1>1, <1>2, <1>5, <1>7, PairValues
    <2>2. QED
      BY <1>2, <1>3, <1>7, <2>1 DEF Ready
  <1>8. CASE k = 2
    BY <1>1, <1>2, <1>3, <1>4, <1>8 DEF Ready
  <1>9. CASE k = 3
    BY <1>1, <1>2, <1>3, <1>4, <1>9 DEF Ready
  <1>10. CASE k = 4
    BY <1>1, <1>2, <1>3, <1>4, <1>10 DEF Ready
  <1>11. CASE k = 5
    <2>1. IsInteger(Value(x, c[6].b)) /\ IsInteger(Value(x, c[6].c))
      BY <1>1, <1>2, <1>5, <1>11, PairValues
    <2>2. QED
      BY <1>2, <1>3, <1>11, <2>1 DEF Ready
  <1>12. QED
    BY <1>6, <1>7, <1>8, <1>9, <1>10, <1>11

\* so it is executed.
LEMMA MixOn ==
  ASSUME HalfAssumption, CapturedAssumption, NEW r \in RangeSet, NEW c \in Codes,
         MixShape(c, c[1].a, c[3].a, c[5].a), NEW p, NEW k \in 0 .. 5, NEW x,
         Mixing(r, c, p, k, x)
  PROVE  \E y : Mixing(r, c, p, k + 1, y)
  <1> DEFINE i == k + 1
             y == ExecuteInstruction(c, x)
  <1>1. Ready(c, i, x)
    BY MixReady
  <1>2. /\ i \in 1 .. 6 /\ Len(c) = 7 /\ i \in 1 .. Len(c) /\ c[i] \in BodyInstructions
        /\ c[1].a \in FrameRegisters /\ c[3].a \in FrameRegisters /\ c[5].a \in FrameRegisters
        /\ Visible \notin {c[1].a, c[3].a, c[5].a} /\ Visible \in FrameRegisters
    BY DEF MixShape, FrameRegisters, Visible
  <1>3. c[i].a \in {c[1].a, c[3].a, c[5].a} /\ (i = 1 => c[i].a = c[1].a) /\ (i = 5 => c[i].a = c[5].a)
    <2>1. i = 1 \/ i = 2 \/ i = 3 \/ i = 4 \/ i = 5 \/ i = 6
      BY <1>2
    <2>2. c[2].a = c[1].a /\ c[4].a = c[1].a /\ c[6].a = c[3].a
      BY DEF MixShape
    <2> HIDE DEF i
    <2>3. QED
      BY <2>1, <2>2
  <1> HIDE DEF i, y
  <1>4. At(r, c, p, k, x) /\ x.pc = i /\ Executes(r, c, p, k, i, x, y)
    BY <1>2 DEF Mixing, Executes, i, y
  <1>5. PICK a, b : a = Value(x, c[i].b) /\ b = Value(x, c[i].c)
    OBVIOUS
  <1>6. PICK total : total = Calculate(c[i].op, a.n, b.n)
    OBVIOUS
  <1>7. Stepped(r, c, p, k, i, x, y, c[i].a, IntegerValue(total))
    <2>1. c[i].op \in Calculations /\ IsInteger(a) /\ IsInteger(b) /\ (c[i].op \in Divisions => b.n # 0)
      BY <1>1, <1>5 DEF Ready
    <2>2. QED
      BY <1>4, <1>5, <1>6, <2>1, Calculates
  <1>8. /\ At(r, c, p, k + 1, y) /\ y.pc = (k + 1) + 1
        /\ \A q \in FrameRegisters : y.regs[q] = IF q = c[i].a THEN IntegerValue(total) ELSE x.regs[q]
    BY <1>7 DEF Stepped, Writes, i
  <1>9. IsInteger(IntegerValue(total))
    BY DEF IsInteger, IntegerValue
  <1>10. /\ IsInteger(y.regs[c[3].a]) /\ IsInteger(y.regs[Visible])
    BY <1>2, <1>8, <1>9 DEF Mixing
  <1>11. IsInteger(y.regs[c[1].a])
    <2>1. CASE k = 0
      BY <1>2, <1>3, <1>8, <1>9, <2>1 DEF i
    <2>2. CASE k # 0
      <3>1. IsInteger(x.regs[c[1].a])
        BY <2>2 DEF Mixing
      <3>2. QED
        BY <1>2, <1>8, <1>9, <3>1
    <2>3. QED
      BY <2>1, <2>2
  <1>12. k + 1 >= 5 => IsInteger(y.regs[c[5].a])
    <2>1. CASE k = 4
      BY <1>2, <1>3, <1>8, <1>9, <2>1 DEF i
    <2>2. CASE k = 5
      <3>1. IsInteger(x.regs[c[5].a])
        BY <2>2 DEF Mixing
      <3>2. QED
        BY <1>2, <1>8, <1>9, <3>1
    <2>3. QED
      BY <2>1, <2>2
  <1>13. \A q \in FrameRegisters \ {c[1].a, c[3].a, c[5].a} : y.regs[q] = p.regs[q]
    BY <1>3, <1>8 DEF Mixing
  <1>14. Mixing(r, c, p, k + 1, y)
    BY <1>8, <1>10, <1>11, <1>12, <1>13 DEF Mixing
  <1>15. QED
    BY <1>14

\* The six instructions, from a sum that is an integer on.
LEMMA MixSix ==
  ASSUME HalfAssumption, CapturedAssumption, NEW r \in RangeSet, NEW c \in Codes, MatchMix(c),
         NEW p, OnItsWay(r, c, p), p.pc = 1, IsInteger(p.regs[c[3].a]), IsInteger(p.regs[Visible])
  PROVE  \E y : Mixing(r, c, p, 6, y)
  <1>1. MixShape(c, c[1].a, c[3].a, c[5].a)
    BY MixOperands
  <1>2. Mixing(r, c, p, 0, p)
    <2>1. p = Instructions(c, p, 0) /\ 0 \in Nat
      BY InstructionsByOne
    <2>2. At(r, c, p, 0, p)
      BY <2>1 DEF At, OnItsWay
    <2>3. QED
      BY <2>2 DEF Mixing
  <1>3. \A k \in 0 .. 5 : \A x : Mixing(r, c, p, k, x) => \E y : Mixing(r, c, p, k + 1, y)
    BY <1>1, MixOn
  <1>4. PICK x1 : Mixing(r, c, p, 1, x1)
    BY <1>2, <1>3
  <1>5. PICK x2 : Mixing(r, c, p, 2, x2)
    BY <1>3, <1>4
  <1>6. PICK x3 : Mixing(r, c, p, 3, x3)
    BY <1>3, <1>5
  <1>7. PICK x4 : Mixing(r, c, p, 4, x4)
    BY <1>3, <1>6
  <1>8. PICK x5 : Mixing(r, c, p, 5, x5)
    BY <1>3, <1>7
  <1>9. QED
    BY <1>3, <1>8

\* Two machines that differ in the integers of some registers at most.
Alike(x, y) ==
  /\ x \in Machines /\ y \in Machines /\ x.pc = y.pc
  /\ \A q \in Control : x.regs[q] = y.regs[q]
  /\ \A q \in FrameRegisters :
       \/ IsInteger(x.regs[q]) /\ IsInteger(y.regs[q])
       \/ x.regs[q] = y.regs[q]

\* The round of an aliased body and its instructions.
AliasedOutcome(r, c, p, b) ==
  /\ b.n \in {0, 1}
  /\ b.n > 0 => /\ OnItsWay(r, c, Instructions(c, p, 7))
                /\ Alike(b.m, Instructions(c, p, 7))

\* If temp is the sum or the remainder, the round and its instructions
\* differ in the integers of some registers at most: both go on or stop.
LEMMA AliasedRound ==
  ASSUME HalfAssumption, CapturedAssumption, NEW r \in RangeSet, NEW c \in Codes, NEW m, NEW p,
         OnItsWay(r, c, p), p.pc = 1, MatchMix(c), Alike(m, p), NEW ok \in Nat
  PROVE  AliasedOutcome(r, c, p, TryExecuteMixArithmeticForLoop(c, m, ok))
  <1> DEFINE temp == c[1].a
             sum  == c[3].a
             mod  == c[5].a
             B == TryExecuteMixArithmeticForLoop(c, m, ok)
  <1>0. m \in Machines /\ p \in Machines /\ Holds(p, 0 .. 2) /\ {0, 1, 2, Visible} \subseteq FrameRegisters
        /\ {0, 1, 2, Visible} \subseteq Control
    BY DEF OnItsWay, Alike, FrameRegisters, Visible, Control
  <1>00. /\ m.regs[0] = p.regs[0] /\ m.regs[1] = p.regs[1] /\ m.regs[2] = p.regs[2]
         /\ m.regs[Visible] = p.regs[Visible] /\ Holds(m, 0 .. 2)
    BY <1>0 DEF Alike, Holds, Control, Visible
  <1>1. CASE ~Holds(m, Control \cup {sum})
    <2>1. B = Batch(m, ok)
      BY <1>1 DEF TryExecuteMixArithmeticForLoop, Refused
    <2>2. B.n = 0
      BY <2>1 DEF Batch
    <2>3. QED
      BY <2>2 DEF AliasedOutcome
  <1>2. CASE Holds(m, Control \cup {sum})
    <2>1. PICK z, values : MixOne(c, m, ok, z, values, B)
      BY <1>0, <1>2, MixOneIs
    <2> DEFINE a == [Batch(m, ok) EXCEPT !.m = z]
               e == Advance(c, a)
    <2>2. /\ SixWritten(z, m, temp, sum, mod, values)
          /\ \A k \in 1 .. 6 : values[k] \in Integers64
          /\ B = IF e.on THEN Publish(e) ELSE e
      BY <2>1 DEF MixOne
    <2>3. /\ temp \in FrameRegisters \ {0, 1, 2, Visible} /\ sum \in FrameRegisters \ {0, 1, 2, Visible}
          /\ mod \in FrameRegisters \ {0, 1, 2, Visible} /\ Len(c) = 7
      BY MixOperands DEF MixShape
    <2>4. PICK y : Mixing(r, c, p, 6, y)
      <3>1. IsInteger(p.regs[Visible]) /\ IsInteger(p.regs[sum])
        <4>1. IsInteger(m.regs[Visible]) /\ IsInteger(m.regs[sum])
          BY <1>2 DEF Holds, Control, Visible
        <4>2. QED
          BY <1>00, <2>3, <4>1 DEF Alike
      <3>2. QED
        BY <3>1, MixSix
    <2>5. /\ At(r, c, p, 6, y) /\ y.pc = 7 /\ y \in Machines
          /\ IsInteger(y.regs[sum]) /\ IsInteger(y.regs[temp]) /\ IsInteger(y.regs[mod])
          /\ \A q \in FrameRegisters \ {temp, sum, mod} : y.regs[q] = p.regs[q]
      BY <2>4 DEF Mixing, At
    <2>6. /\ z \in Machines /\ z.regs[0] = p.regs[0] /\ z.regs[1] = p.regs[1] /\ z.regs[2] = p.regs[2]
          /\ z.regs[Visible] = p.regs[Visible]
          /\ IsInteger(z.regs[sum]) /\ IsInteger(z.regs[temp]) /\ IsInteger(z.regs[mod])
          /\ \A q \in FrameRegisters \ {temp, sum, mod} : z.regs[q] = m.regs[q]
      <3>1. \A i : IsInteger(IntegerValue(i))
        BY DEF IsInteger, IntegerValue
      <3>2. QED
        BY <1>0, <1>00, <2>2, <2>3, <3>1 DEF SixWritten
    <2>7. a \in Batches /\ a.m = z /\ a.index = y.regs[0].n /\ a.on /\ a.n = 0
          /\ a.visible = y.regs[0].n
      <3>1. PICK b : b = Batch(m, ok)
        OBVIOUS
      <3>2. b \in Batches /\ b.on /\ b.n = 0 /\ b.index = m.regs[0].n /\ b.visible = m.regs[Visible].n
        BY <1>0, <1>00, <3>1, FreshBatch
      <3>3. a = [b EXCEPT !.m = z]
        BY <3>1
      <3>4. y.regs[0] = p.regs[0]
        BY <1>0, <2>3, <2>5
      <3>5. m.regs[Visible] = m.regs[0]
        BY <1>00, <2>3 DEF OnItsWay
      <3>6. QED
        BY <1>00, <2>6, <3>2, <3>3, <3>4, <3>5 DEF Batches
    <2> HIDE DEF a, e, temp, sum, mod, B
    <2>8. PICK f : f = ExecuteInstruction(c, y)
      OBVIOUS
    <2>9. EndsAs(r, c, p, 6, y, a, e, f)
      <3>1. PICK k \in Nat : k = 6
        OBVIOUS
      <3>2. y = Instructions(c, p, k) /\ OnItsWay(r, c, y) /\ y.pc = Len(c)
        BY <2>3, <2>5, <3>1 DEF At
      <3>3. Holds(a.m, 0 .. 2) /\ a.m.regs[1] = y.regs[1] /\ a.m.regs[2] = y.regs[2]
        <4>1. y.regs[1] = p.regs[1] /\ y.regs[2] = p.regs[2]
          BY <1>0, <2>3, <2>5
        <4>2. \A q \in 0 .. 2 : z.regs[q] = p.regs[q]
          BY <2>6
        <4>3. QED
          BY <1>0, <2>6, <2>7, <4>1, <4>2 DEF Holds
      <3>4. EndsAs(r, c, p, k, y, a, e, f)
        BY <2>7, <2>8, <3>2, <3>3, EndOfRound DEF e
      <3>5. QED
        BY <3>1, <3>4
    <2>10. /\ f = Instructions(c, p, 7) /\ OnItsWay(r, c, f) /\ f \in Machines
           /\ \A q \in FrameRegisters \ {0, Visible} : f.regs[q] = y.regs[q]
           /\ e \in Batches /\ e.n = 1 /\ e.m.regs = z.regs /\ e.m.pc = f.pc /\ e.m \in Machines
           /\ \/ /\ e.on /\ e.visible = e.index
                 /\ f.regs[0] = IntegerValue(e.index) /\ f.regs[Visible] = IntegerValue(e.index)
              \/ ~e.on /\ f.regs = y.regs
      BY <2>7, <2>9, BatchFields DEF EndsAs, OnItsWay
    <2>11. PICK w : w = B.m
      OBVIOUS
    <2>12. /\ B.n = 1 /\ w \in Machines /\ w.pc = f.pc
           /\ \A q \in FrameRegisters \ {0, Visible} : w.regs[q] = z.regs[q]
           /\ w.regs[0] = f.regs[0] /\ w.regs[Visible] = f.regs[Visible]
      <3>1. CASE e.on
        <4>1. PICK g : g = Publish(e)
          OBVIOUS
        <4>2. e.visible \in Integers64
          BY <2>10, <3>1, BatchFields
        <4>3. PublishedAs(g, e)
          BY <2>10, <4>1, <4>2, PublishFields
        <4>4. B = g
          BY <2>2, <3>1, <4>1
        <4>5. g \in Batches /\ g.m \in Machines
          BY <4>3, BatchFields DEF PublishedAs
        <4>6. QED
          BY <1>0, <2>10, <2>11, <3>1, <4>3, <4>4, <4>5 DEF PublishedAs
      <3>2. CASE ~e.on
        <4>1. B = e
          BY <2>2, <3>2
        <4>2. y.regs[0] = p.regs[0] /\ y.regs[Visible] = p.regs[Visible]
          BY <1>0, <2>3, <2>5
        <4>3. QED
          BY <2>6, <2>10, <2>11, <3>2, <4>1, <4>2
      <3>3. QED
        BY <3>1, <3>2
    <2>13. \A q \in FrameRegisters :
             (IsInteger(w.regs[q]) /\ IsInteger(f.regs[q])) \/ w.regs[q] = f.regs[q]
      <3>1. TAKE q \in FrameRegisters
      <3>2. CASE q \in {0, Visible}
        BY <2>12, <3>2
      <3>3. CASE q \in {temp, sum, mod}
        BY <2>3, <2>5, <2>6, <2>10, <2>12, <3>3
      <3>4. CASE q \notin {0, Visible, temp, sum, mod}
        <4>1. w.regs[q] = m.regs[q] /\ f.regs[q] = p.regs[q]
          BY <2>5, <2>6, <2>10, <2>12, <3>4
        <4>2. QED
          BY <4>1 DEF Alike
      <3>5. QED
        BY <3>2, <3>3, <3>4
    <2>14. \A q \in Control : w.regs[q] = f.regs[q]
      <3>1. /\ w.regs[0] = f.regs[0] /\ w.regs[Visible] = f.regs[Visible]
            /\ w.regs[1] = f.regs[1] /\ w.regs[2] = f.regs[2]
        <4>1. /\ 1 \in FrameRegisters \ {0, Visible, temp, sum, mod}
              /\ 2 \in FrameRegisters \ {0, Visible, temp, sum, mod}
          BY <1>0, <2>3 DEF Visible
        <4>2. QED
          BY <2>5, <2>6, <2>10, <2>12, <4>1
      <3>2. QED
        BY <3>1 DEF Control, Visible
    <2>15. Alike(w, f)
      BY <2>10, <2>12, <2>13, <2>14 DEF Alike
    <2>16. QED
      BY <2>10, <2>11, <2>12, <2>15 DEF AliasedOutcome, B
  <1>3. QED
    BY <1>1, <1>2

\* Operands of machines that are alike are integers, or the same.
LEMMA AlikeValues ==
  ASSUME NEW x, NEW y, Alike(x, y), NEW o \in Operands
  PROVE  (IsInteger(Value(x, o)) /\ IsInteger(Value(y, o))) \/ Value(x, o) = Value(y, o)
  <1>1. x \in Machines /\ y \in Machines
    BY DEF Alike
  <1>2. CASE o.constant
    BY <1>1, <1>2, OperandValue
  <1>3. CASE ~o.constant
    <2>1. o.index \in FrameRegisters /\ Value(x, o) = x.regs[o.index] /\ Value(y, o) = y.regs[o.index]
      BY <1>1, <1>3, OperandValue
    <2>2. QED
      BY <2>1 DEF Alike
  <1>4. QED
    BY <1>2, <1>3

\* What a division of such a body divides by is a constant.
LEMMA MixCalculations ==
  ASSUME NEW c \in Codes, MatchMix(c), NEW i \in 1 .. 6
  PROVE  /\ c[i] \in BodyInstructions /\ c[i].op \in Calculations /\ c[i].a \in FrameRegisters \ Control
         /\ c[i].op \in Divisions => c[i].c.constant
         /\ Len(c) = 7
  <1>1. MixShape(c, c[1].a, c[3].a, c[5].a)
    BY MixOperands
  <1>2. i = 1 \/ i = 2 \/ i = 3 \/ i = 4 \/ i = 5 \/ i = 6
    OBVIOUS
  <1>3. /\ "MUL" \in Calculations /\ "ADD" \in Calculations /\ "SUB" \in Calculations
        /\ "IDIV" \in Calculations /\ "MOD" \in Calculations
        /\ "MUL" \notin Divisions /\ "ADD" \notin Divisions /\ "SUB" \notin Divisions
    BY DEF Calculations, Divisions
  <1>4. \A q \in FrameRegisters \ {0, 1, 2, Visible} : q \in FrameRegisters \ Control
    BY DEF FrameRegisters, Control, Visible
  <1>5. QED
    BY <1>1, <1>2, <1>3, <1>4 DEF MixShape, IntegerConstant

\* f is m after FORLOOP.
ForLooped(c, m, next, f) ==
  /\ f \in Machines /\ f.table = m.table /\ f.upvalue = m.upvalue
  /\ forIntegerLoopContinues(next, m.regs[1].n, m.regs[2].n) =>
       /\ f.pc = 1
       /\ \A q \in FrameRegisters :
            f.regs[q] = IF q \in {0, Visible} THEN IntegerValue(next) ELSE m.regs[q]
  /\ ~forIntegerLoopContinues(next, m.regs[1].n, m.regs[2].n) =>
       f.pc = Len(c) + 1 /\ f.regs = m.regs

\* FORLOOP.
LEMMA ForLoops ==
  ASSUME HalfAssumption, NEW c \in Codes, NEW m \in Machines, m.pc = Len(c), Holds(m, 0 .. 2),
         NEW next, next = Wrap(m.regs[0].n + m.regs[2].n)
  PROVE  ForLooped(c, m, next, ExecuteInstruction(c, m))
  BY ForLoopStep DEF ForLooped

\* An instruction leaves alike what was alike.
LEMMA AliasedStep ==
  ASSUME HalfAssumption, NEW c \in Codes, MatchMix(c), NEW x, NEW y, Alike(x, y),
         Holds(y, 0 .. 2), y.pc \in 1 .. Len(c)
  PROVE  Alike(ExecuteInstruction(c, x), ExecuteInstruction(c, y))
  <1>1. x \in Machines /\ y \in Machines /\ x.pc = y.pc /\ Len(c) = 7
        /\ \A q \in Control : x.regs[q] = y.regs[q]
        /\ {0, 1, 2, Visible} \subseteq FrameRegisters /\ Control \subseteq FrameRegisters
        /\ {0, 1, 2, Visible} \subseteq Control
    BY MixCalculations DEF Alike, Control, FrameRegisters, Visible
  <1> DEFINE u == ExecuteInstruction(c, x)
             v == ExecuteInstruction(c, y)
  <1>2. CASE y.pc = Len(c)
    <2>1. x.regs[0] = y.regs[0] /\ x.regs[1] = y.regs[1] /\ x.regs[2] = y.regs[2]
      <3>1. 0 \in Control /\ 1 \in Control /\ 2 \in Control
        BY DEF Control, Visible
      <3>2. QED
        BY <1>1, <3>1
    <2>2. Holds(x, 0 .. 2)
      <3>1. \A q \in 0 .. 2 : q \in Control
        BY DEF Control, Visible
      <3>2. QED
        BY <1>1, <3>1 DEF Holds
    <2>3. PICK next : next = Wrap(x.regs[0].n + x.regs[2].n)
      OBVIOUS
    <2>4. next = Wrap(y.regs[0].n + y.regs[2].n)
      BY <2>1, <2>3
    <2>5. ForLooped(c, x, next, u)
      <3>1. x.pc = Len(c)
        BY <1>1, <1>2
      <3>2. QED
        BY <1>1, <2>2, <2>3, <3>1, ForLoops
    <2>6. ForLooped(c, y, next, v)
      BY <1>1, <1>2, <2>4, ForLoops
    <2> HIDE DEF u, v
    <2>7. CASE forIntegerLoopContinues(next, y.regs[1].n, y.regs[2].n)
      <3>1. /\ u \in Machines /\ u.pc = 1 /\ v \in Machines /\ v.pc = 1
            /\ \A q \in FrameRegisters :
                 /\ u.regs[q] = IF q \in {0, Visible} THEN IntegerValue(next) ELSE x.regs[q]
                 /\ v.regs[q] = IF q \in {0, Visible} THEN IntegerValue(next) ELSE y.regs[q]
        BY <2>1, <2>5, <2>6, <2>7 DEF ForLooped
      <3>2. Alike(u, v)
        BY <1>1, <3>1 DEF Alike
      <3>3. QED
        BY <3>2 DEF u, v
    <2>8. CASE ~forIntegerLoopContinues(next, y.regs[1].n, y.regs[2].n)
      <3>1. /\ u \in Machines /\ u.pc = Len(c) + 1 /\ v \in Machines /\ v.pc = Len(c) + 1
            /\ u.regs = x.regs /\ v.regs = y.regs
        BY <2>1, <2>5, <2>6, <2>8 DEF ForLooped
      <3>2. Alike(u, v)
        BY <1>1, <3>1 DEF Alike
      <3>3. QED
        BY <3>2 DEF u, v
    <2>9. QED
      BY <2>7, <2>8
  <1>3. CASE y.pc # Len(c)
    <2> DEFINE i == c[y.pc]
               p == Value(x, i.b)
               q == Value(x, i.c)
               s == Value(y, i.b)
               t == Value(y, i.c)
    <2>1. /\ y.pc \in 1 .. 6 /\ i \in BodyInstructions /\ i.op \in Calculations
          /\ i.a \in FrameRegisters /\ i.a \notin Control
          /\ i.op \in Divisions => i.c.constant
      BY <1>1, <1>3, MixCalculations
    <2>2. i.b \in Operands /\ i.c \in Operands
      BY <2>1, BodyFacts
    <2>3. /\ (IsInteger(p) /\ IsInteger(s)) \/ p = s
          /\ (IsInteger(q) /\ IsInteger(t)) \/ q = t
          /\ i.op \in Divisions => q = t
      <3>1. i.c.constant => Value(x, i.c) = Value(y, i.c)
        BY DEF Value
      <3> HIDE DEF i
      <3>2. QED
        BY <2>1, <2>2, <3>1, AlikeValues
    <2>4. Calculable(i.op, p, q) <=> Calculable(i.op, s, t)
      BY <2>3 DEF Calculable
    <2>5. CASE Calculable(i.op, s, t)
      <3>1. PICK g : g = Calculate(i.op, p.n, q.n)
        OBVIOUS
      <3>2. PICK h : h = Calculate(i.op, s.n, t.n)
        OBVIOUS
      <3>3. u \in Machines /\ Writes(u, x, i.a, IntegerValue(g))
        BY <1>1, <2>1, <2>4, <2>5, <3>1, CalculationStep
      <3>4. v \in Machines /\ Writes(v, y, i.a, IntegerValue(h))
        BY <1>1, <2>1, <2>5, <3>2, CalculationStep
      <3>5. IsInteger(IntegerValue(g)) /\ IsInteger(IntegerValue(h))
        BY DEF IsInteger, IntegerValue
      <3> HIDE DEF u, v, i
      <3>6. Alike(u, v)
        BY <1>1, <2>1, <3>3, <3>4, <3>5 DEF Alike, Writes
      <3>7. QED
        BY <3>6 DEF u, v
    <2>6. CASE ~Calculable(i.op, s, t)
      <3>1. u = LeftToFullPath(x)
        BY <1>1, <2>1, <2>4, <2>6, CalculationLeft
      <3>2. v = LeftToFullPath(y)
        BY <1>1, <2>1, <2>6, CalculationLeft
      <3> HIDE DEF u, v
      <3>3. u \in Machines /\ u.pc = Left /\ u.regs = x.regs /\ v \in Machines /\ v.pc = Left /\ v.regs = y.regs
        BY <1>1, <3>1, <3>2, ThenFields
      <3>4. Alike(u, v)
        BY <3>3 DEF Alike
      <3>5. QED
        BY <3>4 DEF u, v
    <2>7. QED
      BY <2>5, <2>6
  <1>4. QED
    BY <1>2, <1>3

-----------------------------------------------------------------------------
(* text = text .. "suffix" *)

StringShape(c) ==
  /\ Len(c) = 4 /\ \A i \in 1 .. 3 : c[i] \in BodyInstructions
  /\ c[1].op = "MOVE" /\ c[2].op = "LOADK" /\ c[3].op = "CONCAT"
  /\ {c[1].a, c[2].a, c[3].a} \subseteq FrameRegisters \ {0, 1, 2, Visible}
  /\ c[1].a # c[2].a /\ c[1].a # c[3].a /\ c[2].a # c[3].a
  /\ c[1].b = R(c[3].a) /\ c[3].b = R(c[1].a) /\ c[3].c = R(c[2].a)
  /\ c[2].b.constant /\ c[2].b.value \in LoopValues /\ c[2].b.value.kind = "string"

\* The body of StringAppend.
LEMMA StringShapes ==
  ASSUME NEW c \in Codes, MatchStringAppend(c)
  PROVE  StringShape(c)
  <1>1. PICK t : t = <<"MOVE", "LOADK", "CONCAT", "FORLOOP">>
    OBVIOUS
  <1>2. DOMAIN t = 1 .. 4 /\ t = Ops(c) /\ t[1] = "MOVE" /\ t[2] = "LOADK" /\ t[3] = "CONCAT"
    BY <1>1 DEF MatchStringAppend
  <1>3. Shaped(c, 4, t)
    BY <1>2, OpsAre
  <1>4. /\ Len(c) = 4 /\ \A i \in 1 .. 3 : c[i] \in BodyInstructions
        /\ c[1] \in BodyInstructions /\ c[2] \in BodyInstructions /\ c[3] \in BodyInstructions
        /\ c[1].op = "MOVE" /\ c[2].op = "LOADK" /\ c[3].op = "CONCAT"
    BY <1>2, <1>3 DEF Shaped
  <1>5. /\ c[1].b = R(c[3].a) /\ c[3].b = R(c[1].a) /\ c[3].c = R(c[2].a)
        /\ c[3].a # c[1].a /\ c[3].a # c[2].a /\ c[1].a # c[2].a
        /\ c[2].b.constant /\ c[2].b.value.kind = "string"
        /\ c[1].a \notin Control /\ c[2].a \notin Control /\ c[3].a \notin Control
    BY DEF MatchStringAppend
  <1>6. /\ c[1].a \in FrameRegisters /\ c[2].a \in FrameRegisters /\ c[3].a \in FrameRegisters
        /\ c[2].b \in Operands
    BY <1>4, BodyFacts
  <1>7. c[2].b.value \in LoopValues
    BY <1>5, <1>6 DEF Operands
  <1>8. /\ c[1].a \in FrameRegisters \ {0, 1, 2, Visible}
        /\ c[2].a \in FrameRegisters \ {0, 1, 2, Visible}
        /\ c[3].a \in FrameRegisters \ {0, 1, 2, Visible}
    BY <1>5, <1>6, NotControls
  <1>9. QED
    BY <1>4, <1>5, <1>7, <1>8 DEF StringShape

\* The text after j more suffixes.
Longer(base, s, j) == Str(base + j * s)

\* A text to which a suffix has been appended so many times.
LEMMA LongerFacts ==
  ASSUME NEW base \in Nat, NEW s \in Nat, NEW j \in Nat
  PROVE  /\ Longer(base, s, j) \in LoopValues /\ Longer(base, s, j).kind = "string"
         /\ Longer(base, s, j).n \in Nat
         /\ Str(Longer(base, s, j).n + s) = Longer(base, s, j + 1)
  <1>1. base + j * s \in Nat /\ (base + j * s) + s = base + (j + 1) * s
    <2>1. j * s \in Nat /\ (j + 1) * s = j * s + s
      OBVIOUS
    <2>2. QED
      BY <2>1
  <1>2. /\ Str(base + j * s) \in LoopValues /\ Str(base + j * s).kind = "string"
        /\ Str(base + j * s).n = base + j * s
    BY <1>1, StringFacts
  <1>3. QED
    BY <1>1, <1>2 DEF Longer

\* x after n rounds and k instructions, the controls at i.
Appended(c, m, n, i, k, x) ==
  /\ x.table = m.table /\ x.upvalue = m.upvalue
  /\ \A q \in FrameRegisters :
       x.regs[q] = IF q = c[3].a
                   THEN Longer(m.regs[c[3].a].n, c[2].b.value.n, IF k >= 3 THEN n + 1 ELSE n)
                   ELSE IF q = c[1].a
                   THEN IF k > 0 THEN Longer(m.regs[c[3].a].n, c[2].b.value.n, n)
                        ELSE IF n > 0 THEN Longer(m.regs[c[3].a].n, c[2].b.value.n, n - 1)
                        ELSE m.regs[q]
                   ELSE IF q = c[2].a THEN IF n > 0 \/ k > 1 THEN c[2].b.value ELSE m.regs[q]
                   ELSE IF q \in {0, Visible} THEN IntegerValue(i) ELSE m.regs[q]

\* The three instructions of the body.
AppendsTo(r, c, m, N, n, i, k, y) == At(r, c, m, N + k, y) /\ y.pc = k + 1 /\ Appended(c, m, n, i, k, y)

\* What the three instructions of a round compute.
LEMMA AppendSteps ==
  ASSUME HalfAssumption, CapturedAssumption, NEW r \in RangeSet, NEW c \in Codes, StringShape(c),
         NEW m \in Machines, m.regs[c[3].a].kind = "string",
         NEW N, NEW n \in Nat, NEW i, NEW x, At(r, c, m, N, x), x.pc = 1, Appended(c, m, n, i, 0, x)
  PROVE  /\ \E y : AppendsTo(r, c, m, N, n, i, 1, y)
         /\ \E y : AppendsTo(r, c, m, N, n, i, 2, y)
         /\ \E y : AppendsTo(r, c, m, N, n, i, 3, y)
  <1> DEFINE text   == c[3].a
             move   == c[1].a
             suffix == c[2].a
             s      == c[2].b.value
             Text(j) == Longer(m.regs[text].n, s.n, j)
  <1>1. /\ Len(c) = 4 /\ c[1] \in BodyInstructions /\ c[2] \in BodyInstructions
        /\ c[3] \in BodyInstructions
        /\ c[1].op = "MOVE" /\ c[2].op = "LOADK" /\ c[3].op = "CONCAT"
        /\ text \in FrameRegisters /\ move \in FrameRegisters /\ suffix \in FrameRegisters
        /\ text \notin {0, Visible} /\ move \notin {0, Visible} /\ suffix \notin {0, Visible}
        /\ move # suffix /\ move # text /\ suffix # text
        /\ c[1].b = R(text) /\ c[3].b = R(move) /\ c[3].c = R(suffix)
        /\ c[2].b.constant /\ s \in LoopValues /\ s.kind = "string"
        /\ 1 \in 1 .. Len(c) /\ 2 \in 1 .. Len(c) /\ 3 \in 1 .. Len(c) /\ N \in Nat
    BY DEF StringShape, At
  <1>2. /\ m.regs[text].n \in Nat /\ s.n \in Nat
        /\ Text(n) \in LoopValues /\ Text(n).kind = "string"
        /\ Str(Text(n).n + s.n) = Text(n + 1) /\ Text(n + 1) \in LoopValues
    <2>1. m.regs[text] \in LoopValues
      BY <1>1, MachineFields
    <2>2. m.regs[text].n \in Nat /\ s.n \in Nat /\ n + 1 \in Nat
      BY <1>1, <2>1, StringFacts
    <2> HIDE DEF text, s
    <2>3. QED
      BY <2>2, LongerFacts
  <1> HIDE DEF Text
  <1>3. /\ x.table = m.table /\ x.upvalue = m.upvalue
        /\ \A q \in FrameRegisters :
             x.regs[q] = IF q = text THEN Text(n)
                   ELSE IF q = move THEN IF n > 0 THEN Text(n - 1) ELSE m.regs[q]
                   ELSE IF q = suffix THEN IF n > 0 THEN s ELSE m.regs[q]
                   ELSE IF q \in {0, Visible} THEN IntegerValue(i) ELSE m.regs[q]
    BY DEF Appended, Text
  <1> DEFINE e1 == ExecuteInstruction(c, x)
             e2 == ExecuteInstruction(c, e1)
             e3 == ExecuteInstruction(c, e2)
  <1> HIDE DEF e1
  <1>4. Stepped(r, c, m, N, 1, x, e1, move, Text(n))
    <2>1. Executes(r, c, m, N, 1, x, e1)
      BY <1>1 DEF Executes, e1
    <2>2. Value(x, c[1].b) = Text(n)
      BY <1>1, <1>3 DEF Value, R
    <2>3. c[1].op \in {"MOVE", "LOADK"}
      BY <1>1
    <2>4. QED
      BY <2>1, <2>2, <2>3, Moves
  <1>5. /\ At(r, c, m, N + 1, e1) /\ e1.pc = 2 /\ e1.table = m.table /\ e1.upvalue = m.upvalue
        /\ \A q \in FrameRegisters :
             e1.regs[q] = IF q = text THEN Text(n)
                   ELSE IF q = move THEN Text(n)
                   ELSE IF q = suffix THEN IF n > 0 THEN s ELSE m.regs[q]
                   ELSE IF q \in {0, Visible} THEN IntegerValue(i) ELSE m.regs[q]
    BY <1>1, <1>3, <1>4 DEF Stepped, Writes
  <1> HIDE DEF e2
  <1>6. Stepped(r, c, m, N + 1, 2, e1, e2, suffix, s)
    <2>1. Executes(r, c, m, N + 1, 2, e1, e2)
      BY <1>1, <1>5 DEF Executes, e2
    <2>2. Value(e1, c[2].b) = s
      BY <1>1 DEF Value
    <2>3. c[2].op \in {"MOVE", "LOADK"}
      BY <1>1
    <2>4. QED
      BY <2>1, <2>2, <2>3, Moves
  <1>7. /\ At(r, c, m, N + 2, e2) /\ e2.pc = 3 /\ e2.table = m.table /\ e2.upvalue = m.upvalue
        /\ \A q \in FrameRegisters :
             e2.regs[q] = IF q = text THEN Text(n)
                   ELSE IF q = move THEN Text(n)
                   ELSE IF q = suffix THEN s
                   ELSE IF q \in {0, Visible} THEN IntegerValue(i) ELSE m.regs[q]
    <2>1. (N + 1) + 1 = N + 2
      BY <1>1
    <2>2. QED
      BY <1>1, <1>5, <1>6, <2>1 DEF Stepped, Writes
  <1> HIDE DEF e3
  <1>8. Stepped(r, c, m, N + 2, 3, e2, e3, text, Text(n + 1))
    <2>1. Executes(r, c, m, N + 2, 3, e2, e3)
      BY <1>1, <1>7 DEF Executes, e3
    <2>2. Value(e2, c[3].b) = Text(n) /\ Value(e2, c[3].c) = s
      BY <1>1, <1>7 DEF Value, R
    <2>3. Writes(e3, e2, text, Text(n + 1))
      <3>1. e2 \in Machines /\ e2.pc = 3 /\ e3 = ExecuteInstruction(c, e2)
        BY <1>7 DEF At, e3
      <3>2. Writes(e3, e2, c[e2.pc].a, Str(Value(e2, c[e2.pc].b).n + Value(e2, c[e2.pc].c).n))
        BY <1>1, <1>2, <2>2, <3>1, ConcatStep
      <3>3. QED
        BY <1>2, <2>2, <3>1, <3>2
    <2>4. QED
      BY <1>2, <2>1, <2>3, StepsTo
  <1>9. /\ At(r, c, m, N + 3, e3) /\ e3.pc = 4 /\ e3.table = m.table /\ e3.upvalue = m.upvalue
        /\ \A q \in FrameRegisters :
             e3.regs[q] = IF q = text THEN Text(n + 1)
                   ELSE IF q = move THEN Text(n)
                   ELSE IF q = suffix THEN s
                   ELSE IF q \in {0, Visible} THEN IntegerValue(i) ELSE m.regs[q]
    <2>1. (N + 2) + 1 = N + 3
      BY <1>1
    <2>2. QED
      BY <1>1, <1>7, <1>8, <2>1 DEF Stepped, Writes
  <1>10. AppendsTo(r, c, m, N, n, i, 1, e1)
    BY <1>5 DEF AppendsTo, Appended, Text
  <1>11. AppendsTo(r, c, m, N, n, i, 2, e2)
    BY <1>7 DEF AppendsTo, Appended, Text
  <1>12. AppendsTo(r, c, m, N, n, i, 3, e3)
    BY <1>9 DEF AppendsTo, Appended, Text
  <1>13. QED
    BY <1>10, <1>11, <1>12

-----------------------------------------------------------------------------
(* text = text .. "suffix", by a step that is not positive *)

StringInStep(r, c, m, b, x) ==
  Local(r, c, m, 4, b, x) /\ b.visible = b.index /\ Appended(c, m, b.n, b.index, 0, x)

\* FORLOOP after the three instructions.
LEMMA AppendLooped ==
  ASSUME NEW c, StringShape(c), NEW m, NEW n \in Nat, NEW i, NEW j, NEW p, Appended(c, m, n, i, 3, p),
         NEW f, f.table = m.table, f.upvalue = m.upvalue,
         \A q \in FrameRegisters \ {0, Visible} : f.regs[q] = p.regs[q],
         f.regs[0] = IntegerValue(j), f.regs[Visible] = IntegerValue(j)
  PROVE  Appended(c, m, n + 1, j, 0, f)
  <1> DEFINE text   == c[3].a
             move   == c[1].a
             suffix == c[2].a
             s      == c[2].b.value
             Text(k) == Longer(m.regs[text].n, s.n, k)
  <1>1. /\ text \in FrameRegisters /\ move \in FrameRegisters /\ suffix \in FrameRegisters
        /\ text \notin {0, Visible} /\ move \notin {0, Visible} /\ suffix \notin {0, Visible}
        /\ move # suffix /\ move # text /\ suffix # text
    BY DEF StringShape
  <1>2. \A q \in FrameRegisters :
             p.regs[q] = IF q = text THEN Text(n + 1)
                   ELSE IF q = move THEN Text(n)
                   ELSE IF q = suffix THEN s
                   ELSE IF q \in {0, Visible} THEN IntegerValue(i) ELSE m.regs[q]
    BY DEF Appended
  <1>3. (n + 1) - 1 = n /\ n + 1 > 0
    OBVIOUS
  <1> HIDE DEF Text
  <1>4. \A q \in FrameRegisters :
             f.regs[q] = IF q = text THEN Text(n + 1)
                   ELSE IF q = move THEN Text((n + 1) - 1)
                   ELSE IF q = suffix THEN s
                   ELSE IF q \in {0, Visible} THEN IntegerValue(j) ELSE m.regs[q]
    <2> HIDE DEF text, move, suffix, s
    <2>1. QED
      BY <1>1, <1>2, <1>3
  <1>5. QED
    BY <1>3, <1>4 DEF Appended, Text

\* A round by a step that is not positive is its four instructions.
LEMMA StringRoundInStep ==
  ASSUME HalfAssumption, CapturedAssumption, NEW r \in RangeSet, NEW c \in Codes, StringShape(c),
         NEW m, OnItsWay(r, c, m), m.regs[c[3].a].kind = "string",
         NEW b, NEW x, StringInStep(r, c, m, b, x), b.on,
         NEW e, e = Advance(c, b)
  PROVE  \E f : StringInStep(r, c, m, e, f) /\ e.n = b.n + 1
  <1>1. /\ Local(r, c, m, 4, b, x) /\ b.visible = b.index /\ Appended(c, m, b.n, b.index, 0, x)
        /\ m \in Machines /\ Holds(m, 0 .. 2) /\ m.regs[1].n = forIntegerLimitValue(r.limit, r.step)
        /\ m.regs[2].n = r.step /\ Len(c) = 4
    BY DEF StringInStep, OnItsWay, StringShape
  <1>2. At(r, c, m, b.n * 4, x) /\ x.pc = 1 /\ b \in Batches /\ b.n \in Nat
        /\ x.regs[0] = IntegerValue(b.visible) /\ x.regs[Visible] = IntegerValue(b.visible)
    <2>1. 4 \in Nat
      OBVIOUS
    <2>2. QED
      BY <1>1, <2>1, LocalAt
  <1>3. PICK p : AppendsTo(r, c, m, b.n * 4, b.n, b.index, 3, p)
    BY <1>1, <1>2, AppendSteps
  <1>4. /\ At(r, c, m, b.n * 4 + 3, p) /\ p.pc = 4 /\ Appended(c, m, b.n, b.index, 3, p)
        /\ p.table = m.table /\ p.upvalue = m.upvalue
    BY <1>3 DEF AppendsTo, Appended
  <1>5. p.regs[0] = IntegerValue(b.index) /\ p.regs[Visible] = IntegerValue(b.index)
    <2>1. 0 \in FrameRegisters /\ Visible \in FrameRegisters
      BY DEF FrameRegisters, Visible
    <2>2. c[1].a \notin {0, Visible} /\ c[2].a \notin {0, Visible} /\ c[3].a \notin {0, Visible}
      BY DEF StringShape
    <2>3. QED
      BY <1>4, <2>1, <2>2 DEF Appended
  <1>6. PICK f : f = ExecuteInstruction(c, p)
    OBVIOUS
  <1>7. LocallyDone(r, c, m, 4, b, p, b, e, f)
    <2>1. p = Instructions(c, m, b.n * 4 + (4 - 1)) /\ OnItsWay(r, c, p)
      <3>1. b.n * 4 + (4 - 1) = b.n * 4 + 3
        BY <1>2
      <3>2. QED
        BY <1>4, <3>1 DEF At
    <2>2. LocallyWritten(r, c, m, 4, b, x, p, b)
      <3>1. x.table = m.table /\ x.upvalue = m.upvalue
        BY <1>1 DEF Local
      <3>2. QED
        BY <1>1, <1>2, <1>4, <1>5, <2>1, <3>1 DEF LocallyWritten
    <2>3. 4 \in Nat
      OBVIOUS
    <2>4. QED
      BY <1>1, <1>6, <2>2, <2>3, LocalRound
  <1>8. /\ Local(r, c, m, 4, e, f) /\ e.n = b.n + 1
        /\ \A q \in FrameRegisters \ {0, Visible} : f.regs[q] = p.regs[q]
    BY <1>7 DEF LocallyDone
  <1>9. e.visible = e.index
    <2>1. b.m.regs = m.regs
      BY <1>1 DEF Local
    <2>2. Holds(b.m, 0 .. 2)
      BY <1>1, <2>1 DEF Holds
    <2>3. PICK next : next = Wrap(b.index + b.m.regs[2].n)
      OBVIOUS
    <2>4. AdvancedTo(e, c, b, next)
      BY <1>2, <2>2, <2>3, AdvanceFields
    <2>5. QED
      BY <1>1, <2>4 DEF AdvancedTo
  <1>10. f.table = m.table /\ f.upvalue = m.upvalue
         /\ f.regs[0] = IntegerValue(e.index) /\ f.regs[Visible] = IntegerValue(e.index)
    BY <1>8, <1>9 DEF Local
  <1>11. Appended(c, m, b.n + 1, e.index, 0, f)
    BY <1>2, <1>4, <1>8, <1>10, AppendLooped
  <1>12. QED
    BY <1>8, <1>9, <1>11 DEF StringInStep

\* The text at the start.
LEMMA StartsLonger ==
  ASSUME NEW c, StringShape(c), NEW m \in Machines, m.regs[c[3].a].kind = "string"
  PROVE  m.regs[c[3].a] = Longer(m.regs[c[3].a].n, c[2].b.value.n, 0)
  <1>1. c[3].a \in FrameRegisters /\ c[2].b.value \in LoopValues /\ c[2].b.value.kind = "string"
    BY DEF StringShape
  <1>2. m.regs[c[3].a] \in LoopValues
    BY <1>1, MachineFields
  <1>3. m.regs[c[3].a].n \in Nat /\ m.regs[c[3].a] = Str(m.regs[c[3].a].n) /\ c[2].b.value.n \in Nat
    BY <1>1, <1>2, StringFacts
  <1>4. PICK k \in Nat : k = m.regs[c[3].a].n
    BY <1>3
  <1>5. PICK s \in Nat : s = c[2].b.value.n
    BY <1>3
  <1>6. k + 0 * s = k
    OBVIOUS
  <1>7. QED
    BY <1>3, <1>4, <1>5, <1>6 DEF Longer

\* A batch before its first round.
LEMMA StringStarts ==
  ASSUME HalfAssumption, NEW r, NEW c, StringShape(c), NEW m, NEW b, Started(r, c, m, b),
         m.regs[c[3].a].kind = "string"
  PROVE  StringInStep(r, c, m, b, m)
  <1>1. Local(r, c, m, 4, b, m) /\ b.n = 0 /\ b.visible = b.index /\ b.index = m.regs[0].n
        /\ m \in Machines
    <2>1. 4 \in Nat
      OBVIOUS
    <2>2. QED
      BY <2>1, StartsLocal DEF Started
  <1>2. m.regs[0] = IntegerValue(b.index) /\ m.regs[Visible] = IntegerValue(b.index)
    BY <1>1 DEF Local
  <1>3. m.regs[c[3].a] = Longer(m.regs[c[3].a].n, c[2].b.value.n, 0)
    BY <1>1, StartsLonger
  <1>4. Appended(c, m, 0, b.index, 0, m)
    BY <1>2, <1>3 DEF Appended
  <1>5. QED
    BY <1>1, <1>4 DEF StringInStep

\* A batch of StringAppend is as many instructions after its commit.
LEMMA StringBatch ==
  ASSUME HalfAssumption, CapturedAssumption, NEW r \in RangeSet, NEW c \in Codes, NEW m,
         OnItsWay(r, c, m), m.pc = 1, MatchStringAppend(c), NEW max \in Nat, NEW ok \in Nat
  PROVE  Outcome(r, c, m, 4, max, TryExecuteStringAppendForLoopBatch(c, m, max, ok))
  <1> DEFINE text == c[3].a
             move == c[1].a
             suffix == c[2].a
             s == c[2].b.value
             B == TryExecuteStringAppendForLoopBatch(c, m, max, ok)
             b == Batch(m, ok)
             done == Iterate("StringAppend", c, b, max)
             Kept == {x \in Batches : \E y : StringInStep(r, c, m, x, y)}
             Text(k) == Longer(m.regs[text].n, s.n, k)
  <1>1. CASE m.regs[text].kind # "string" \/ ~Holds(m, 0 .. 2)
    BY <1>1, RefusedOutcome DEF TryExecuteStringAppendForLoopBatch
  <1>2. CASE m.regs[text].kind = "string" /\ Holds(m, 0 .. 2)
    <2>1. /\ StringShape(c) /\ Len(c) = 4 /\ Len(c) > 1
          /\ text \in FrameRegisters /\ move \in FrameRegisters /\ suffix \in FrameRegisters
          /\ text # move /\ text # suffix /\ move # suffix
          /\ text \notin {0, Visible} /\ move \notin {0, Visible} /\ suffix \notin {0, Visible}
          /\ s \in LoopValues /\ s.kind = "string"
      BY StringShapes DEF StringShape
    <2>2. m \in Machines /\ m.regs[text].n \in Nat /\ s.n \in Nat
      <3>1. m \in Machines /\ m.regs[text] \in LoopValues
        BY <2>1, MachineFields DEF OnItsWay
      <3>2. QED
        BY <1>2, <2>1, <3>1, StringFacts
    <2>3. Started(r, c, m, b)
      BY <2>1, Starts
    <2>4. b \in Kept /\ b.n = 0 /\ \A x \in Kept : x.n \in Nat
      <3>1. b \in Batches /\ b.n = 0
        BY <2>3 DEF Started
      <3>2. StringInStep(r, c, m, b, m)
        <4> HIDE DEF b
        <4>1. QED
          BY <1>2, <2>1, <2>3, StringStarts
      <3>3. QED
        BY <3>1, <3>2, BatchFields
    <2>5. ASSUME NEW x \in Kept, x.on
          PROVE  Round("StringAppend", c, x) \in Kept /\ Round("StringAppend", c, x).n <= x.n + 1
      <3>1. PICK e : e = Advance(c, x)
        OBVIOUS
      <3>2. PICK y : StringInStep(r, c, m, x, y)
        OBVIOUS
      <3>3. PICK f : StringInStep(r, c, m, e, f) /\ e.n = x.n + 1
        BY <1>2, <2>1, <2>5, <3>1, <3>2, StringRoundInStep
      <3>4. e \in Batches /\ x.n \in Nat
        BY <3>3, BatchFields DEF StringInStep, Local
      <3>5. Round("StringAppend", c, x) = e
        BY <3>1 DEF Round
      <3>6. QED
        BY <3>3, <3>4, <3>5
    <2>6. done \in Kept /\ done.n <= max
      <3> HIDE DEF Kept, b
      <3>1. QED
        BY <2>4, <2>5, IterateKeeps
    <2>7. PICK x : StringInStep(r, c, m, done, x)
      BY <2>6
    <2>8. /\ done \in Batches /\ done.n \in Nat /\ done.m \in Machines /\ Local(r, c, m, 4, done, x)
          /\ x = Instructions(c, m, done.n * 4) /\ OnItsWay(r, c, x)
          /\ done.visible = done.index /\ Appended(c, m, done.n, done.index, 0, x)
      BY <2>7, BatchFields DEF StringInStep, Local
    <2>9. B = [done EXCEPT !.m.regs[move] = Text(done.n - 1), !.m.regs[suffix] = s,
                           !.m.regs[text] = Text(done.n), !.m.regs[0] = IntegerValue(done.index),
                           !.m.regs[Visible] = IntegerValue(done.index)]
      BY <1>2 DEF TryExecuteStringAppendForLoopBatch, CommitStringAppend, Longer
    <2> HIDE DEF done, B, Text
    <2>10. B.n = done.n
      BY <2>8, <2>9 DEF Batches
    <2>11. CASE done.n > 0
      <3> DEFINE u == Text(done.n - 1)
                 v == Text(done.n)
                 d == Publish([done EXCEPT !.m = Put(Put(Put(done.m, move, u), suffix, s), text, v)])
      <3>1. B = d
        <4> HIDE DEF text, move, suffix, s
        <4>1. QED
          BY <2>8, <2>9 DEF Put, Publish, Batches, Machines
      <3>2. u \in LoopValues /\ v \in LoopValues
        <4>1. PICK k \in Nat : k = done.n - 1
          BY <2>8, <2>11
        <4>2. PICK i \in Nat : i = m.regs[text].n
          BY <2>2
        <4>3. PICK j \in Nat : j = s.n
          BY <2>2
        <4>4. Longer(i, j, k) \in LoopValues /\ Longer(i, j, done.n) \in LoopValues
          BY <2>8, LongerFacts
        <4>5. QED
          BY <4>1, <4>2, <4>3, <4>4 DEF Text
      <3>3. /\ x.regs[text] = v /\ x.regs[move] = u /\ x.regs[suffix] = s
            /\ \A q \in FrameRegisters \ {0, Visible, text, move, suffix} : x.regs[q] = m.regs[q]
        BY <2>1, <2>8, <2>11 DEF Appended, Text
      <3>4. d.m = x /\ d.n = done.n
        <4> HIDE DEF u, v, text, move, suffix, s
        <4>1. QED
          BY <2>1, <2>8, <3>2, <3>3, CommitThree
      <3> HIDE DEF d
      <3>5. QED
        BY <2>6, <2>8, <3>1, <3>4 DEF Outcome, B
    <2>12. CASE done.n = 0
      BY <2>10, <2>12 DEF Outcome, B
    <2>13. QED
      BY <2>8, <2>11, <2>12
  <1>3. QED
    BY <1>1, <1>2

-----------------------------------------------------------------------------
(* The boundaries of a whole batch, one at a time *)

BoundaryTrace(f, c, m, total, b, n) ==
  f = [i \in 0 .. n |-> IF i = 0 THEN b ELSE NextBoundary(c, m, total, i, f[i - 1])]

\* There are states after each number of boundaries,
LEMMA BoundaryTraceExists ==
  ASSUME NEW c, NEW m, NEW total, NEW b, NEW N \in Nat
  PROVE  \E f : BoundaryTrace(f, c, m, total, b, N)
  <1> DEFINE Reached == {n \in 0 .. N : \E f : BoundaryTrace(f, c, m, total, b, n)}
  <1>1. 0 \in Reached
    <2> DEFINE f == [i \in 0 .. 0 |-> b]
    <2>1. f = [i \in 0 .. 0 |-> IF i = 0 THEN b ELSE NextBoundary(c, m, total, i, f[i - 1])]
      OBVIOUS
    <2>2. BoundaryTrace(f, c, m, total, b, 0)
      BY <2>1 DEF BoundaryTrace
    <2>3. QED
      BY <2>2
  <1>2. ASSUME NEW n \in 0 .. N, n < N, n \in Reached
        PROVE  n + 1 \in Reached
    <2>1. PICK f : BoundaryTrace(f, c, m, total, b, n)
      BY <1>2
    <2> DEFINE g == [i \in 0 .. n + 1 |-> IF i = n + 1 THEN NextBoundary(c, m, total, n + 1, f[n]) ELSE f[i]]
    <2>2. DOMAIN g = 0 .. n + 1 /\ \A i \in 0 .. n : g[i] = f[i]
      OBVIOUS
    <2>3. \A i \in 0 .. n + 1 : g[i] = IF i = 0 THEN b ELSE NextBoundary(c, m, total, i, g[i - 1])
      <3> SUFFICES ASSUME NEW i \in 0 .. n + 1
                   PROVE  g[i] = IF i = 0 THEN b ELSE NextBoundary(c, m, total, i, g[i - 1])
        OBVIOUS
      <3>1. CASE i = n + 1
        <4>1. g[i] = NextBoundary(c, m, total, n + 1, f[n]) /\ i # 0 /\ i - 1 = n /\ n \in 0 .. n
          BY <3>1
        <4> HIDE DEF g
        <4>2. QED
          BY <4>1, <2>2
      <3>2. CASE i # n + 1
        <4>1. i \in 0 .. n /\ (i # 0 => i - 1 \in 0 .. n)
          BY <3>2
        <4>2. f[i] = IF i = 0 THEN b ELSE NextBoundary(c, m, total, i, f[i - 1])
          BY <2>1, <4>1 DEF BoundaryTrace
        <4> HIDE DEF g
        <4>3. QED
          BY <2>2, <4>1, <4>2
      <3>3. QED
        BY <3>1, <3>2
    <2>4. g = [i \in 0 .. n + 1 |-> g[i]]
      OBVIOUS
    <2> HIDE DEF g
    <2>5. g = [i \in 0 .. n + 1 |-> IF i = 0 THEN b ELSE NextBoundary(c, m, total, i, g[i - 1])]
      BY <2>3, <2>4
    <2>6. BoundaryTrace(g, c, m, total, b, n + 1)
      BY <2>5 DEF BoundaryTrace
    <2>7. n + 1 \in 0 .. N
      BY <1>2
    <2>8. QED
      BY <2>6, <2>7
  <1>3. N \in Reached
    <2> HIDE DEF Reached
    <2>1. QED
      BY <1>1, <1>2, Induction
  <1>4. QED
    BY <1>3

\* the same however many follow,
LEMMA BoundaryTraceAgrees ==
  ASSUME NEW c, NEW m, NEW total, NEW b, NEW N \in Nat, NEW f, NEW g,
         BoundaryTrace(f, c, m, total, b, N), BoundaryTrace(g, c, m, total, b, N + 1)
  PROVE  f[N] = g[N]
  <1> DEFINE Equal == {n \in 0 .. N : f[n] = g[n]}
  <1>1. /\ \A i \in 0 .. N : f[i] = IF i = 0 THEN b ELSE NextBoundary(c, m, total, i, f[i - 1])
        /\ \A i \in 0 .. N + 1 : g[i] = IF i = 0 THEN b ELSE NextBoundary(c, m, total, i, g[i - 1])
    BY DEF BoundaryTrace
  <1>2. 0 \in Equal
    BY <1>1
  <1>3. ASSUME NEW n \in 0 .. N, n < N, n \in Equal
        PROVE  n + 1 \in Equal
    <2>1. n + 1 \in 0 .. N /\ n + 1 \in 0 .. N + 1 /\ (n + 1) - 1 = n /\ n + 1 # 0
      BY <1>3
    <2>2. f[n + 1] = NextBoundary(c, m, total, n + 1, f[n]) /\ g[n + 1] = NextBoundary(c, m, total, n + 1, g[n])
      BY <1>1, <2>1
    <2>3. QED
      BY <1>3, <2>1, <2>2
  <1>4. N \in Equal
    <2> HIDE DEF Equal
    <2>1. QED
      BY <1>2, <1>3, Induction
  <1>5. QED
    BY <1>4

\* so that one more boundary is passed after those before it.
LEMMA BoundariesByOne ==
  ASSUME NEW c, NEW m, NEW total, NEW b, NEW n \in Nat
  PROVE  /\ Boundaries(c, m, total, b, 0) = b
         /\ Boundaries(c, m, total, b, n + 1) = NextBoundary(c, m, total, n + 1, Boundaries(c, m, total, b, n))
  <1> DEFINE F(k) == CHOOSE f : BoundaryTrace(f, c, m, total, b, k)
  <1>1. \A k \in Nat : BoundaryTrace(F(k), c, m, total, b, k)
    BY BoundaryTraceExists
  <1>2. \A k \in Nat : Boundaries(c, m, total, b, k) = F(k)[k]
    BY DEF Boundaries, BoundaryTrace
  <1> HIDE DEF F
  <1>3. \A k \in Nat : \A i \in 0 .. k :
          F(k)[i] = IF i = 0 THEN b ELSE NextBoundary(c, m, total, i, F(k)[i - 1])
    <2> SUFFICES ASSUME NEW k \in Nat, NEW i \in 0 .. k
                 PROVE  F(k)[i] = IF i = 0 THEN b ELSE NextBoundary(c, m, total, i, F(k)[i - 1])
      OBVIOUS
    <2>1. F(k) = [j \in 0 .. k |-> IF j = 0 THEN b ELSE NextBoundary(c, m, total, j, F(k)[j - 1])]
      BY <1>1 DEF BoundaryTrace
    <2>2. QED
      BY <2>1
  <1>4. F(0)[0] = b
    BY <1>3
  <1>5. n + 1 \in 0 .. n + 1 /\ n + 1 # 0 /\ (n + 1) - 1 = n /\ n + 1 \in Nat
    OBVIOUS
  <1>6. F(n + 1)[n + 1] = NextBoundary(c, m, total, n + 1, F(n + 1)[n])
    BY <1>3, <1>5
  <1>7. F(n)[n] = F(n + 1)[n]
    BY <1>1, <1>5, BoundaryTraceAgrees
  <1>8. QED
    BY <1>2, <1>4, <1>5, <1>6, <1>7

-----------------------------------------------------------------------------
(* What a whole batch commits *)

\* The registers, the rounds and the pc make the machine.
LEMMA AppendedSame ==
  ASSUME NEW c, NEW m, NEW n, NEW i, NEW k, NEW x \in Machines, NEW y \in Machines,
         Appended(c, m, n, i, k, x), Appended(c, m, n, i, k, y), x.pc = y.pc
  PROVE  x = y
  <1>1. \A q \in FrameRegisters : x.regs[q] = y.regs[q]
    BY DEF Appended
  <1>2. x.table = y.table /\ x.upvalue = y.upvalue
    BY DEF Appended
  <1>3. QED
    BY <1>1, <1>2, MachineEqual

IsFivePut(x, m, t, p, s, A, B, D, E, pc) ==
  /\ x \in Machines /\ x.pc = pc /\ x.table = m.table /\ x.upvalue = m.upvalue
  /\ \A q \in FrameRegisters :
       x.regs[q] = IF q = t THEN A ELSE IF q = p THEN B ELSE IF q = s THEN D
                   ELSE IF q \in {0, Visible} THEN E ELSE m.regs[q]

\* Five registers and the pc.
LEMMA FivePut ==
  ASSUME NEW m \in Machines, NEW t \in FrameRegisters, NEW p \in FrameRegisters,
         NEW s \in FrameRegisters, t # p, t # s, p # s,
         t \notin {0, Visible}, p \notin {0, Visible}, s \notin {0, Visible},
         NEW A \in LoopValues, NEW B \in LoopValues, NEW D \in LoopValues, NEW E \in LoopValues,
         NEW pc \in Nat,
         NEW x, x = [m EXCEPT !.regs[t] = A, !.regs[p] = B, !.regs[s] = D, !.regs[0] = E,
                              !.regs[Visible] = E, !.pc = pc]
  PROVE  IsFivePut(x, m, t, p, s, A, B, D, E, pc)
  <1>1. m.regs \in [FrameRegisters -> LoopValues] /\ m.table \in LoopTables /\ m.upvalue \in LoopValues
    BY MachineFields
  <1>2. 0 \in FrameRegisters /\ Visible \in FrameRegisters /\ 0 # Visible
    BY DEF FrameRegisters, Visible
  <1> DEFINE f == [m.regs EXCEPT ![t] = A, ![p] = B, ![s] = D, ![0] = E, ![Visible] = E]
  <1>3. f \in [FrameRegisters -> LoopValues]
    BY <1>1
  <1>4. \A q \in FrameRegisters :
              f[q] = IF q = t THEN A ELSE IF q = p THEN B ELSE IF q = s THEN D
                     ELSE IF q \in {0, Visible} THEN E ELSE m.regs[q]
    BY <1>1, <1>2
  <1>5. x.regs = f /\ x.pc = pc /\ x.table = m.table /\ x.upvalue = m.upvalue
    BY DEF Machines
  <1>6. x = [regs |-> f, pc |-> pc, table |-> m.table, upvalue |-> m.upvalue]
    BY DEF Machines
  <1> HIDE DEF f
  <1>7. x \in Machines
    BY <1>1, <1>3, <1>6 DEF Machines
  <1>8. QED
    BY <1>4, <1>5, <1>7 DEF IsFivePut

\* The phase after k instructions.
PhaseOf(k) == IF k = 0 THEN "AfterCompleted" ELSE Phases[k]

Committed(c, m, n, i, k, total, x) ==
  /\ x \in Machines /\ Appended(c, m, n, i, k, x)
  /\ x.pc = IF k = 0 /\ n >= total THEN Len(c) + 1 ELSE k + 1

\* What commitStringAppendForLoopState writes is what the instructions up to
\* the phase have written.
LEMMA CommitIs ==
  ASSUME HalfAssumption, NEW c, StringShape(c), NEW m \in Machines,
         m.regs[c[3].a].kind = "string", NEW n \in Nat, NEW i \in Integers64, NEW k \in 0 .. 3,
         NEW total \in Nat,
         NEW x, x = commitStringAppendForLoopState(c, m, n, i, PhaseOf(k), total)
  PROVE  Committed(c, m, n, i, k, total, x)
  <1> DEFINE text   == c[3].a
             move   == c[1].a
             suffix == c[2].a
             s      == c[2].b.value
             phase  == PhaseOf(k)
             Text(j) == Longer(m.regs[text].n, s.n, j)
             target == IF phase = "AfterConcat" THEN n + 1 ELSE n
             moved  == IF phase # "AfterCompleted" THEN n ELSE n - 1
             loaded == n > 0 \/ phase \in {"AfterLoadK", "AfterConcat"}
             A == Text(target)
             B == IF moved >= 0 THEN Text(moved) ELSE m.regs[move]
             D == IF loaded THEN s ELSE m.regs[suffix]
             E == IntegerValue(i)
             pc == CASE phase = "AfterMove"   -> 2
                     [] phase = "AfterLoadK"  -> 3
                     [] phase = "AfterConcat" -> 4
                     [] OTHER -> IF n >= total THEN Len(c) + 1 ELSE 1
  <1>1. /\ text \in FrameRegisters /\ move \in FrameRegisters /\ suffix \in FrameRegisters
        /\ text \notin {0, Visible} /\ move \notin {0, Visible} /\ suffix \notin {0, Visible}
        /\ move # suffix /\ move # text /\ suffix # text
        /\ s \in LoopValues /\ s.kind = "string" /\ Len(c) = 4
    BY DEF StringShape
  <1>2. /\ m.regs[text].n \in Nat /\ s.n \in Nat /\ m.regs[move] \in LoopValues
        /\ m.regs[suffix] \in LoopValues
    <2>1. m.regs[text] \in LoopValues /\ m.regs[move] \in LoopValues /\ m.regs[suffix] \in LoopValues
      BY <1>1, MachineFields
    <2>2. QED
      BY <1>1, <2>1, StringFacts
  <1>3. \A j \in Nat : Text(j) \in LoopValues
    BY <1>2, LongerFacts
  <1>4. /\ k = 0 => phase = "AfterCompleted"
        /\ k = 1 => phase = "AfterMove"
        /\ k = 2 => phase = "AfterLoadK"
        /\ k = 3 => phase = "AfterConcat"
        /\ k \in {0, 1, 2, 3}
    BY DEF PhaseOf, Phases
  <1>5. E \in LoopValues
    BY IntegerFacts
  <1>6. x = [m EXCEPT !.regs[text] = A, !.regs[move] = B, !.regs[suffix] = D, !.regs[0] = E,
                      !.regs[Visible] = E, !.pc = pc]
    <2>1. m.regs \in [FrameRegisters -> LoopValues] /\ m = [regs |-> m.regs, pc |-> m.pc, table |-> m.table, upvalue |-> m.upvalue]
      BY MachineFields
    <2>2. x = [m EXCEPT !.regs[text] = A, !.regs[move] = IF moved >= 0 THEN Text(moved) ELSE @,
                        !.regs[suffix] = IF loaded THEN s ELSE @, !.regs[0] = E,
                        !.regs[Visible] = E, !.pc = pc]
      BY DEF commitStringAppendForLoopState, Longer
    <2> HIDE DEF text, move, suffix, s, phase, Text, target, moved, loaded, A, E, pc
    <2>3. QED
      BY <1>1, <2>1, <2>2
  <1>7. A \in LoopValues /\ B \in LoopValues /\ D \in LoopValues /\ pc \in Nat
    <2> HIDE DEF Text
    <2>1. QED
      BY <1>1, <1>2, <1>3
  <1> HIDE DEF A, B, D, E, pc
  <1>8. /\ x \in Machines /\ x.pc = pc /\ x.table = m.table /\ x.upvalue = m.upvalue
        /\ \A q \in FrameRegisters :
              x.regs[q] = IF q = text THEN A ELSE IF q = move THEN B ELSE IF q = suffix THEN D
                          ELSE IF q \in {0, Visible} THEN E ELSE m.regs[q]
    <2> HIDE DEF text, move, suffix
    <2>1. /\ text \in FrameRegisters /\ move \in FrameRegisters /\ suffix \in FrameRegisters
          /\ text # move /\ text # suffix /\ move # suffix
          /\ text \notin {0, Visible} /\ move \notin {0, Visible} /\ suffix \notin {0, Visible}
      BY <1>1
    <2>2. PICK y \in LoopValues : y = A
      BY <1>7
    <2>3. PICK z \in LoopValues : z = B
      BY <1>7
    <2>4. PICK u \in LoopValues : u = D
      BY <1>7
    <2>5. PICK e \in LoopValues : e = E
      BY <1>5
    <2>6. PICK l \in Nat : l = pc
      BY <1>7
    <2>7. x = [m EXCEPT !.regs[text] = y, !.regs[move] = z, !.regs[suffix] = u, !.regs[0] = e,
                        !.regs[Visible] = e, !.pc = l]
      BY <1>6, <2>2, <2>3, <2>4, <2>5, <2>6
    <2>8. IsFivePut(x, m, text, move, suffix, y, z, u, e, l)
      BY <2>1, <2>7, FivePut
    <2>9. QED
      BY <2>2, <2>3, <2>4, <2>5, <2>6, <2>8 DEF IsFivePut
  <1>9. Appended(c, m, n, i, k, x)
    <2>1. /\ A = Text(IF k >= 3 THEN n + 1 ELSE n)
          /\ B = IF k > 0 THEN Text(n) ELSE IF n > 0 THEN Text(n - 1) ELSE m.regs[move]
          /\ D = IF n > 0 \/ k > 1 THEN s ELSE m.regs[suffix]
      <3> HIDE DEF Text, phase
      <3>1. QED
        BY <1>4 DEF A, B, D
    <2>2. QED
      BY <1>1, <1>8, <2>1 DEF Appended, E
  <1>10. pc = IF k = 0 /\ n >= total THEN Len(c) + 1 ELSE k + 1
    <2> HIDE DEF phase
    <2>1. QED
      BY <1>4 DEF pc
  <1>11. QED
    BY <1>8, <1>9, <1>10 DEF Committed

-----------------------------------------------------------------------------
(* The rounds of a whole batch *)

RoundsCounted(index, limit, step, total) ==
  /\ total \in Nat /\ total > 0
  /\ \A n \in Nat : index + n * step \in Int /\ index + (n + 1) * step = (index + n * step) + step
  /\ \A n \in Nat : n < total <=> index + n * step <= limit

\* positiveIntegerForLoopRemainingIterations is the number of values from
\* index to limit.
LEMMA CountRounds ==
  ASSUME NEW index \in Int, NEW limit \in Int, NEW step \in Int, step > 0, index <= limit,
         NEW total, total = positiveIntegerForLoopRemainingIterations(index, limit, step)
  PROVE  RoundsCounted(index, limit, step, total)
  <1> DEFINE d == limit - index
             q == d \div step
             p == d % step
  <1>1. step \in Nat /\ d \in Int /\ d >= 0
    OBVIOUS
  <1>2. total = q + 1
    BY DEF positiveIntegerForLoopRemainingIterations
  <1>3. q \in Int /\ p \in 0 .. step - 1 /\ d = step * q + p
    <2> HIDE DEF d
    <2>1. QED
      BY <1>1, Divided
  <1> HIDE DEF d, q, p
  <1>4. q >= 0
    <2>1. SUFFICES ASSUME q <= -1 PROVE FALSE
      BY <1>3
    <2>2. step * q <= -step
      <3>1. PICK u \in Nat : u = -q - 1
        BY <1>3, <2>1
      <3>2. q = -u - 1
        BY <1>3, <3>1
      <3>3. step * (-u - 1) = -(step * u) - step /\ step * u >= 0
        BY <1>1
      <3>4. QED
        BY <3>2, <3>3
    <2>3. p <= step - 1
      BY <1>3
    <2>4. QED
      BY <1>1, <1>3, <2>2, <2>3
  <1>5. total \in Nat /\ total > 0
    BY <1>2, <1>3, <1>4
  <1>6. \A n \in Nat : index + n * step \in Int /\ index + (n + 1) * step = (index + n * step) + step
    <2> SUFFICES ASSUME NEW n \in Nat
                 PROVE  index + n * step \in Int /\ index + (n + 1) * step = (index + n * step) + step
      OBVIOUS
    <2>1. (n + 1) * step = n * step + step /\ n * step \in Int
      OBVIOUS
    <2>2. QED
      BY <2>1
  <1>7. \A n \in Nat : n < total <=> index + n * step <= limit
    <2> SUFFICES ASSUME NEW n \in Nat
                 PROVE  n < total <=> index + n * step <= limit
      OBVIOUS
    <2>1. n * step \in Int /\ step * q \in Int
      BY <1>3
    <2>2. CASE n <= q
      <3>1. PICK u \in Nat : q = n + u
        <4>1. q - n \in Nat /\ q = n + (q - n)
          BY <1>3, <2>2
        <4>2. QED
          BY <4>1
      <3>2. step * (n + u) = n * step + step * u /\ step * u >= 0
        BY <1>1
      <3>3. n * step <= d
        BY <1>1, <1>3, <2>1, <3>1, <3>2
      <3>4. QED
        BY <1>2, <1>3, <2>1, <2>2, <3>3 DEF d
    <2>3. CASE n > q
      <3>1. PICK u \in Nat : n = q + 1 + u
        <4>1. n - q - 1 \in Nat /\ n = q + 1 + (n - q - 1)
          BY <1>3, <2>3
        <4>2. QED
          BY <4>1
      <3>2. PICK v \in Nat : v = q
        BY <1>3, <1>4
      <3>3. (v + 1 + u) * step = step * v + step + u * step /\ u * step >= 0
        BY <1>1
      <3>4. n * step > d
        BY <1>1, <1>3, <2>1, <3>1, <3>2, <3>3
      <3>5. QED
        BY <1>2, <1>3, <2>1, <2>3, <3>4 DEF d
    <2>4. QED
      BY <1>3, <2>2, <2>3
  <1>8. QED
    BY <1>5, <1>6, <1>7 DEF RoundsCounted

\* A loop that can be taken whole.
Appending(r, c, m, index, limit, step, total) ==
  /\ c \in Codes /\ MatchStringAppend(c) /\ StringShape(c)
  /\ OnItsWay(r, c, m) /\ m \in Machines /\ m.pc = 1 /\ m.regs[c[3].a].kind = "string"
  /\ index = m.regs[0].n /\ limit = m.regs[1].n /\ step = m.regs[2].n
  /\ index \in Integers64 /\ limit \in Integers64 /\ step \in Integers64
  /\ step > 0 /\ RoundsCounted(index, limit, step, total)

\* The start of round n.
RoundStart(r, c, m, n, i, x) == AppendsTo(r, c, m, n * 4, n, i, 0, x)

\* The first round starts where the batch does.
LEMMA FirstRound ==
  ASSUME HalfAssumption, NEW r, NEW c, NEW m, NEW index, NEW limit, NEW step, NEW total,
         Appending(r, c, m, index, limit, step, total)
  PROVE  RoundStart(r, c, m, 0, index, m)
  <1>1. /\ StringShape(c) /\ OnItsWay(r, c, m) /\ m \in Machines /\ m.pc = 1
        /\ m.regs[c[3].a].kind = "string" /\ index = m.regs[0].n /\ Len(c) = 4
    BY DEF Appending, StringShape
  <1>2. At(r, c, m, 0, m)
    BY <1>1, InstructionsByOne DEF At
  <1>4. m.regs[0] = IntegerValue(index) /\ m.regs[Visible] = IntegerValue(index)
    <2>1. m.regs[Visible] = m.regs[0] /\ Holds(m, 0 .. 2)
      BY <1>1 DEF OnItsWay
    <2>2. m.regs[0] = IntegerValue(m.regs[0].n)
      <3>1. 0 \in 0 .. 2
        OBVIOUS
      <3>2. QED
        BY <1>1, <2>1, <3>1, ControlsAreIntegers
    <2>3. QED
      BY <1>1, <2>1, <2>2
  <1>5. m.regs[c[3].a] = Longer(m.regs[c[3].a].n, c[2].b.value.n, 0)
    BY <1>1, StartsLonger
  <1>6. Appended(c, m, 0, index, 0, m)
    BY <1>4, <1>5 DEF Appended
  <1>7. 0 * 4 = 0 /\ 0 + 0 = 0 /\ 0 + 1 = 1
    OBVIOUS
  <1>8. QED
    BY <1>1, <1>2, <1>6, <1>7 DEF RoundStart, AppendsTo

\* The end of a round of the loop, and of the loop.
LEMMA NextRoundStart ==
  ASSUME HalfAssumption, CapturedAssumption, NEW r \in RangeSet, NEW c, NEW m, NEW index, NEW limit,
         NEW step, NEW total, Appending(r, c, m, index, limit, step, total),
         NEW n \in Nat, n + 1 < total, NEW i, i = index + n * step,
         NEW x, RoundStart(r, c, m, n, i, x)
  PROVE  \E f : RoundStart(r, c, m, n + 1, i + step, f)
  <1>1. /\ c \in Codes /\ StringShape(c) /\ m \in Machines /\ m.regs[c[3].a].kind = "string"
        /\ Len(c) = 4 /\ limit = m.regs[1].n /\ step = m.regs[2].n
        /\ index \in Int /\ limit \in Int /\ step \in Int /\ step > 0
        /\ index \in Integers64 /\ limit \in Integers64 /\ step \in Integers64
        /\ RoundsCounted(index, limit, step, total) /\ OnItsWay(r, c, m)
    BY IntegersAreIntegers DEF Appending, StringShape
  <1>2. At(r, c, m, n * 4, x) /\ x.pc = 1 /\ Appended(c, m, n, i, 0, x)
    <2>1. n * 4 + 0 = n * 4 /\ 0 + 1 = 1
      OBVIOUS
    <2>2. QED
      BY <2>1 DEF RoundStart, AppendsTo
  <1>3. PICK p : AppendsTo(r, c, m, n * 4, n, i, 3, p)
    BY <1>1, <1>2, AppendSteps
  <1>4. /\ At(r, c, m, n * 4 + 3, p) /\ p.pc = 4 /\ Appended(c, m, n, i, 3, p) /\ p \in Machines
        /\ p.table = m.table /\ p.upvalue = m.upvalue /\ OnItsWay(r, c, p)
    BY <1>3 DEF AppendsTo, Appended, At
  <1>5. /\ p.regs[0] = IntegerValue(i) /\ p.regs[1].n = limit /\ p.regs[2].n = step
        /\ Holds(p, 0 .. 2)
    <2>1. 0 \in FrameRegisters
      BY DEF FrameRegisters
    <2>2. c[1].a \notin {0, Visible} /\ c[2].a \notin {0, Visible} /\ c[3].a \notin {0, Visible}
      BY <1>1 DEF StringShape
    <2>3. p.regs[0] = IntegerValue(i)
      BY <1>4, <2>1, <2>2 DEF Appended
    <2>4. QED
      BY <1>1, <1>4, <2>3 DEF OnItsWay
  <1>6. i \in Int /\ i + step \in Integers64 /\ i + step <= limit
    <2>1. i \in Int /\ index + (n + 1) * step = i + step /\ n + 1 \in Nat
      BY <1>1 DEF RoundsCounted
    <2>2. i + step <= limit
      BY <1>1, <2>1 DEF RoundsCounted
    <2>3. i >= index
      <3>1. n * step >= 0 /\ n * step \in Int
        BY <1>1
      <3>2. QED
        BY <1>1, <3>1
    <2>4. QED
      BY <1>1, <2>1, <2>2, <2>3, IntegersAreIntegers
  <1>7. PICK f : f = ExecuteInstruction(c, p)
    OBVIOUS
  <1>8. PICK next : next = Wrap(p.regs[0].n + p.regs[2].n)
    OBVIOUS
  <1>9. next = i + step /\ forIntegerLoopContinues(next, p.regs[1].n, p.regs[2].n)
    <2>1. p.regs[0].n = i
      BY <1>5 DEF IntegerValue
    <2>2. next = i + step
      BY <1>5, <1>6, <1>8, <2>1, WrapOfInteger
    <2>3. QED
      BY <1>1, <1>5, <1>6, <2>2 DEF forIntegerLoopContinues
  <1>10. /\ f.pc = 1 /\ f.table = p.table /\ f.upvalue = p.upvalue
         /\ \A q \in FrameRegisters :
              f.regs[q] = IF q \in {0, Visible} THEN IntegerValue(next) ELSE p.regs[q]
    <2>1. p.pc = Len(c) /\ p \in Machines /\ Holds(p, 0 .. 2)
      BY <1>1, <1>4, <1>5
    <2>2. ForLooped(c, p, next, f)
      BY <1>1, <1>7, <1>8, <2>1, ForLoops
    <2>3. QED
      BY <1>9, <2>2 DEF ForLooped
  <1>11. Appended(c, m, n + 1, i + step, 0, f)
    <2>1. 0 \in FrameRegisters /\ Visible \in FrameRegisters
      BY DEF FrameRegisters, Visible
    <2>2. PICK j : j = i + step
      OBVIOUS
    <2>3. /\ f.table = m.table /\ f.upvalue = m.upvalue
          /\ \A q \in FrameRegisters \ {0, Visible} : f.regs[q] = p.regs[q]
          /\ f.regs[0] = IntegerValue(j) /\ f.regs[Visible] = IntegerValue(j)
      BY <1>4, <1>9, <1>10, <2>1, <2>2
    <2>4. Appended(c, m, n + 1, j, 0, f)
      BY <1>1, <1>4, <2>3, AppendLooped
    <2>5. QED
      BY <2>2, <2>4
  <1>12. At(r, c, m, (n + 1) * 4 + 0, f)
    <2>1. (n * 4 + 3) + 1 = (n + 1) * 4 + 0
      OBVIOUS
    <2>2. At(r, c, m, (n * 4 + 3) + 1, f)
      <3>1. p.pc \in 1 .. Len(c)
        BY <1>1, <1>4
      <3>2. QED
        BY <1>1, <1>4, <1>7, <3>1, NextAt
    <2>3. QED
      BY <2>1, <2>2
  <1>13. QED
    BY <1>10, <1>11, <1>12 DEF RoundStart, AppendsTo

-----------------------------------------------------------------------------
(* The boundaries of a whole batch *)

IntervalAssumption == Interval \in Nat /\ Interval > 0

WholeStates ==
  [m : Machines, n : Nat, index : Integers64, done : Nat, ok : Nat, countdown : Nat,
   since : Nat, cancelled : BOOLEAN]

\* Between two instructions of round n, k of which have been done.
Underway(r, c, m, index, step, total, n, i, k, j) ==
  /\ k \in 0 .. 3 /\ j = n * 4 + k /\ n < total /\ i = index + n * step
  /\ \E x : RoundStart(r, c, m, n, i, x)

Whole(r, c, m, index, step, total, j, s) ==
  /\ s \in WholeStates /\ s.since + s.countdown <= Interval
  /\ ~s.cancelled =>
       s.done = j /\ \E k : Underway(r, c, m, index, step, total, s.n, s.index, k, j)
  /\ s.cancelled => s.m = Instructions(c, m, s.done) /\ OnItsWay(r, c, s.m)

\* One boundary, the state of which would be x.
Consumed(s, x, t) ==
  /\ t \in WholeStates /\ t.n = s.n /\ t.index = s.index /\ t.done = s.done + 1
  /\ t.since + t.countdown <= Interval
  /\ t.cancelled => t.m = x

\* A boundary counts down, is checked, or stops the batch with the commit of
\* its phase.
LEMMA Consumes ==
  ASSUME IntervalAssumption, NEW c, NEW m, NEW s \in WholeStates, ~s.cancelled,
         s.since + s.countdown <= Interval, NEW phase, NEW total,
         NEW x \in Machines, x = commitStringAppendForLoopState(c, m, s.n, s.index, phase, total)
  PROVE  Consumed(s, x, consumeContext(c, m, s, phase, total))
  <1> DEFINE t == consumeContext(c, m, s, phase, total)
  <1>1. CASE s.countdown > 0
    <2>1. t = [s EXCEPT !.countdown = @ - 1, !.since = @ + 1, !.done = @ + 1]
      BY <1>1 DEF consumeContext
    <2> HIDE DEF t
    <2>2. s.countdown - 1 \in Nat /\ s.since + 1 \in Nat /\ s.done + 1 \in Nat /\ s.countdown \in Nat
          /\ s.since \in Nat
      BY <1>1 DEF WholeStates
    <2>3. t \in WholeStates /\ t.n = s.n /\ t.index = s.index /\ t.done = s.done + 1
          /\ t.since = s.since + 1 /\ t.countdown = s.countdown - 1 /\ ~t.cancelled
      BY <2>1, <2>2 DEF WholeStates
    <2>4. QED
      BY <2>2, <2>3 DEF Consumed, t
  <1>2. CASE ~(s.countdown > 0) /\ s.ok = 0
    <2>1. t = [s EXCEPT !.cancelled = TRUE, !.since = 0, !.done = @ + 1, !.m = x]
      BY <1>2 DEF consumeContext
    <2> HIDE DEF t
    <2>2. s.countdown = 0 /\ s.done + 1 \in Nat
      BY <1>2 DEF WholeStates
    <2>3. t \in WholeStates /\ t.n = s.n /\ t.index = s.index /\ t.done = s.done + 1
          /\ t.since = 0 /\ t.countdown = 0 /\ t.m = x
      BY <2>1, <2>2 DEF WholeStates
    <2>4. QED
      BY <2>3 DEF Consumed, t, IntervalAssumption
  <1>3. CASE ~(s.countdown > 0) /\ s.ok # 0
    <2>1. t = [s EXCEPT !.countdown = Interval, !.ok = @ - 1, !.since = 0, !.done = @ + 1]
      BY <1>3 DEF consumeContext
    <2> HIDE DEF t
    <2>2. s.ok - 1 \in Nat /\ s.done + 1 \in Nat
      BY <1>3 DEF WholeStates
    <2>3. t \in WholeStates /\ t.n = s.n /\ t.index = s.index /\ t.done = s.done + 1
          /\ t.since = 0 /\ t.countdown = Interval /\ ~t.cancelled
      BY <2>1, <2>2 DEF WholeStates, IntervalAssumption
    <2>4. QED
      BY <2>3 DEF Consumed, t, IntervalAssumption
  <1>4. QED
    BY <1>1, <1>2, <1>3

\* A boundary inside round n: the state is that of its instructions.
LEMMA InsideCommit ==
  ASSUME HalfAssumption, CapturedAssumption, NEW r \in RangeSet, NEW c, NEW m, NEW index, NEW limit,
         NEW step, NEW total, Appending(r, c, m, index, limit, step, total),
         NEW n \in Nat, NEW i \in Integers64, NEW x, RoundStart(r, c, m, n, i, x),
         NEW k \in 0 .. 3, k = 0 => n < total,
         NEW z, z = commitStringAppendForLoopState(c, m, n, i, PhaseOf(k), total)
  PROVE  z = Instructions(c, m, n * 4 + k) /\ OnItsWay(r, c, z) /\ z \in Machines
  <1>1. /\ c \in Codes /\ StringShape(c) /\ m \in Machines /\ m.regs[c[3].a].kind = "string"
        /\ total \in Nat
    BY DEF Appending, RoundsCounted
  <1>2. At(r, c, m, n * 4, x) /\ x.pc = 1 /\ Appended(c, m, n, i, 0, x)
    <2>1. n * 4 + 0 = n * 4 /\ 0 + 1 = 1
      OBVIOUS
    <2>2. QED
      BY <2>1 DEF RoundStart, AppendsTo
  <1>3. \E y : AppendsTo(r, c, m, n * 4, n, i, k, y)
    <2>1. CASE k = 0
      BY <2>1 DEF RoundStart
    <2>2. /\ \E y : AppendsTo(r, c, m, n * 4, n, i, 1, y)
          /\ \E y : AppendsTo(r, c, m, n * 4, n, i, 2, y)
          /\ \E y : AppendsTo(r, c, m, n * 4, n, i, 3, y)
      BY <1>1, <1>2, AppendSteps
    <2>3. k \in {0, 1, 2, 3}
      OBVIOUS
    <2>4. QED
      BY <2>1, <2>2, <2>3
  <1>4. PICK y : AppendsTo(r, c, m, n * 4, n, i, k, y)
    BY <1>3
  <1>5. Committed(c, m, n, i, k, total, z)
    BY <1>1, CommitIs
  <1>6. z \in Machines /\ Appended(c, m, n, i, k, z) /\ z.pc = k + 1
    BY <1>1, <1>5 DEF Committed
  <1>7. y \in Machines /\ Appended(c, m, n, i, k, y) /\ y.pc = k + 1
        /\ y = Instructions(c, m, n * 4 + k) /\ OnItsWay(r, c, y)
    BY <1>4 DEF AppendsTo, At
  <1>8. z = y
    BY <1>6, <1>7, AppendedSame
  <1>9. QED
    BY <1>6, <1>7, <1>8

\* A whole batch goes from boundary to boundary as the instructions do, its
\* window kept.
LEMMA WholeStep ==
  ASSUME HalfAssumption, CapturedAssumption, IntervalAssumption, NEW r \in RangeSet, NEW c, NEW m,
         NEW index, NEW limit, NEW step, NEW total, Appending(r, c, m, index, limit, step, total),
         NEW j \in Nat, j + 1 <= 4 * total - 1,
         NEW s, Whole(r, c, m, index, step, total, j, s)
  PROVE  Whole(r, c, m, index, step, total, j + 1, NextBoundary(c, m, total, j + 1, s))
  <1> DEFINE t == NextBoundary(c, m, total, j + 1, s)
             phase == Phases[(j % 4) + 1]
             completed == [s EXCEPT !.n = @ + 1, !.index = @ + m.regs[2].n]
  <1>1. CASE s.cancelled
    <2>1. t = s
      BY <1>1 DEF NextBoundary
    <2>2. QED
      BY <1>1, <2>1 DEF Whole
  <1>2. CASE ~s.cancelled
    <2>1. /\ s \in WholeStates /\ s.since + s.countdown <= Interval /\ s.done = j
          /\ s.n \in Nat /\ s.index \in Integers64
      BY <1>2 DEF Whole, WholeStates
    <2>2. PICK k : Underway(r, c, m, index, step, total, s.n, s.index, k, j)
      BY <1>2 DEF Whole
    <2>3. PICK n \in Nat : n = s.n
      BY <2>1
    <2>4. PICK i \in Integers64 : i = s.index
      BY <2>1
    <2>5. PICK x : RoundStart(r, c, m, n, i, x)
      BY <2>2, <2>3, <2>4 DEF Underway
    <2>6. k \in 0 .. 3 /\ j = n * 4 + k /\ n < total /\ i = index + n * step
      BY <2>2, <2>3, <2>4 DEF Underway
    <2>7. total \in Nat /\ step = m.regs[2].n
      BY DEF Appending, RoundsCounted
    <2>8. j % 4 = k /\ (j + 1) - 1 = j
      BY <2>6
    <2>9. t = consumeContext(c, m, IF phase = "AfterCompleted" THEN completed ELSE s, phase, total)
      BY <1>2, <2>8 DEF NextBoundary
    <2> HIDE DEF t, phase, completed
    <2>10. CASE k \in 0 .. 2
      <3>1. PICK l \in 1 .. 3 : l = k + 1
        BY <2>10
      <3>2. phase = PhaseOf(l) /\ phase # "AfterCompleted"
        BY <2>8, <2>10, <3>1 DEF phase, Phases, PhaseOf
      <3>3. PICK z : z = commitStringAppendForLoopState(c, m, n, i, PhaseOf(l), total)
        OBVIOUS
      <3>4. z = Instructions(c, m, n * 4 + l) /\ OnItsWay(r, c, z) /\ z \in Machines
        <4>1. l \in 0 .. 3 /\ (l = 0 => n < total)
          OBVIOUS
        <4>2. QED
          BY <2>5, <3>3, <4>1, InsideCommit
      <3>5. t = consumeContext(c, m, s, phase, total)
        BY <2>9, <3>2
      <3>6. Consumed(s, z, t)
        <4>1. z = commitStringAppendForLoopState(c, m, s.n, s.index, phase, total)
          BY <2>3, <2>4, <3>2, <3>3
        <4>2. QED
          BY <1>2, <2>1, <3>4, <3>5, <4>1, Consumes
      <3>7. t \in WholeStates /\ t.n = n /\ t.index = i /\ t.done = j + 1
            /\ t.since + t.countdown <= Interval /\ (t.cancelled => t.m = z)
        BY <2>1, <2>3, <2>4, <3>6 DEF Consumed
      <3>8. n * 4 + l = j + 1 /\ l \in 0 .. 3
        BY <2>6, <3>1
      <3>9. Underway(r, c, m, index, step, total, t.n, t.index, l, j + 1)
        BY <2>5, <2>6, <3>7, <3>8 DEF Underway
      <3>10. QED
        BY <3>4, <3>7, <3>8, <3>9 DEF Whole, t
    <2>11. CASE k = 3
      <3>1. phase = "AfterCompleted" /\ phase = PhaseOf(0)
        BY <2>8, <2>11 DEF phase, Phases, PhaseOf
      <3>2. n + 1 < total /\ j + 1 = (n + 1) * 4 + 0 /\ n + 1 \in Nat
        BY <2>6, <2>7, <2>11
      <3>3. PICK f : RoundStart(r, c, m, n + 1, i + step, f)
        BY <2>5, <2>6, <3>2, NextRoundStart
      <3>4. i + step \in Integers64 /\ i + step = index + (n + 1) * step
        <4>1. /\ index \in Int /\ step \in Int /\ step > 0 /\ i \in Int /\ limit \in Integers64
              /\ limit \in Int /\ i \in Integers64
              /\ index + n * step \in Int /\ index + (n + 1) * step = (index + n * step) + step
              /\ index + (n + 1) * step <= limit
          BY <3>2, IntegersAreIntegers DEF Appending, RoundsCounted
        <4>2. QED
          BY <2>6, <4>1, IntegersAreIntegers
      <3>5. PICK z : z = commitStringAppendForLoopState(c, m, n + 1, i + step, PhaseOf(0), total)
        OBVIOUS
      <3>6. z = Instructions(c, m, (n + 1) * 4 + 0) /\ OnItsWay(r, c, z) /\ z \in Machines
        <4>1. PICK n1 \in Nat : n1 = n + 1
          BY <3>2
        <4>2. PICK i1 \in Integers64 : i1 = i + step
          BY <3>4
        <4>3. 0 \in 0 .. 3 /\ (0 = 0 => n1 < total)
          BY <3>2, <4>1
        <4>4. RoundStart(r, c, m, n1, i1, f)
          BY <3>3, <4>1, <4>2
        <4>5. z = commitStringAppendForLoopState(c, m, n1, i1, PhaseOf(0), total)
          BY <3>5, <4>1, <4>2
        <4>6. z = Instructions(c, m, n1 * 4 + 0) /\ OnItsWay(r, c, z) /\ z \in Machines
          BY <4>3, <4>4, <4>5, InsideCommit
        <4>7. QED
          BY <4>1, <4>6
      <3>7. /\ completed \in WholeStates /\ completed.n = n + 1 /\ completed.index = i + step
            /\ completed.done = j /\ completed.since = s.since /\ completed.countdown = s.countdown
            /\ ~completed.cancelled
        <4>1. completed = [s EXCEPT !.n = n + 1, !.index = i + step]
          BY <2>1, <2>3, <2>4, <2>7 DEF completed, WholeStates
        <4>2. QED
          BY <1>2, <2>1, <3>2, <3>4, <4>1 DEF WholeStates
      <3>8. t = consumeContext(c, m, completed, phase, total)
        BY <2>9, <3>1
      <3>9. Consumed(completed, z, t)
        <4>1. z = commitStringAppendForLoopState(c, m, completed.n, completed.index, phase, total)
          BY <3>1, <3>5, <3>7
        <4>2. completed.since + completed.countdown <= Interval
          BY <2>1, <3>7
        <4>3. QED
          BY <3>6, <3>7, <3>8, <4>1, <4>2, Consumes
      <3>10. t \in WholeStates /\ t.n = n + 1 /\ t.index = i + step /\ t.done = j + 1
            /\ t.since + t.countdown <= Interval /\ (t.cancelled => t.m = z)
        BY <3>7, <3>9 DEF Consumed
      <3>11. Underway(r, c, m, index, step, total, t.n, t.index, 0, j + 1)
        BY <3>2, <3>3, <3>4, <3>10 DEF Underway
      <3>12. QED
        BY <3>2, <3>6, <3>10, <3>11 DEF Whole, t
    <2>12. QED
      BY <2>6, <2>10, <2>11
  <1>3. QED
    BY <1>1, <1>2

-----------------------------------------------------------------------------
(* The end of a whole batch *)

\* The end of the last round: FORLOOP leaves the loop, or wraps.
LEMMA WholeEnds ==
  ASSUME HalfAssumption, CapturedAssumption, NEW r \in RangeSet, NEW c, NEW m, NEW index, NEW limit,
         NEW step, NEW total, Appending(r, c, m, index, limit, step, total),
         NEW n \in Nat, n + 1 = total, NEW i \in Integers64, i = index + n * step,
         NEW x, RoundStart(r, c, m, n, i, x),
         NEW z, z = commitStringAppendForLoopState(c, m, total, i, "AfterCompleted", total)
  PROVE  /\ OnItsWay(r, c, Instructions(c, m, n * 4 + 4))
         /\ z = Instructions(c, m, n * 4 + 4) \/ StopsAtEnd(c, z)
  <1>1. /\ c \in Codes /\ StringShape(c) /\ m \in Machines /\ m.regs[c[3].a].kind = "string"
        /\ Len(c) = 4 /\ limit = m.regs[1].n /\ step = m.regs[2].n /\ MatchStringAppend(c)
        /\ index \in Int /\ limit \in Int /\ step \in Int /\ step > 0 /\ i \in Int
        /\ index \in Integers64 /\ limit \in Integers64 /\ step \in Integers64
        /\ RoundsCounted(index, limit, step, total) /\ OnItsWay(r, c, m)
    BY IntegersAreIntegers DEF Appending, StringShape
  <1>2. At(r, c, m, n * 4, x) /\ x.pc = 1 /\ Appended(c, m, n, i, 0, x)
    <2>1. n * 4 + 0 = n * 4 /\ 0 + 1 = 1
      OBVIOUS
    <2>2. QED
      BY <2>1 DEF RoundStart, AppendsTo
  <1>3. PICK p : AppendsTo(r, c, m, n * 4, n, i, 3, p)
    BY <1>1, <1>2, AppendSteps
  <1>4. /\ At(r, c, m, n * 4 + 3, p) /\ p.pc = 4 /\ Appended(c, m, n, i, 3, p) /\ p \in Machines
        /\ p.table = m.table /\ p.upvalue = m.upvalue /\ OnItsWay(r, c, p)
    BY <1>3 DEF AppendsTo, Appended, At
  <1>5. /\ p.regs[0] = IntegerValue(i) /\ p.regs[Visible] = IntegerValue(i)
        /\ p.regs[1].n = limit /\ p.regs[2].n = step /\ Holds(p, 0 .. 2)
    <2>1. 0 \in FrameRegisters /\ Visible \in FrameRegisters
      BY DEF FrameRegisters, Visible
    <2>2. c[1].a \notin {0, Visible} /\ c[2].a \notin {0, Visible} /\ c[3].a \notin {0, Visible}
      BY <1>1 DEF StringShape
    <2>3. p.regs[0] = IntegerValue(i) /\ p.regs[Visible] = IntegerValue(i)
      BY <1>4, <2>1, <2>2 DEF Appended
    <2>4. QED
      BY <1>1, <1>4, <2>3 DEF OnItsWay
  <1>6. PICK f : f = ExecuteInstruction(c, p)
    OBVIOUS
  <1>7. f = Instructions(c, m, n * 4 + 4) /\ OnItsWay(r, c, f) /\ f \in Machines
    <2>1. (n * 4 + 3) + 1 = n * 4 + 4
      OBVIOUS
    <2>2. At(r, c, m, (n * 4 + 3) + 1, f)
      <3>1. p.pc \in 1 .. Len(c)
        BY <1>1, <1>4
      <3>2. QED
        BY <1>1, <1>4, <1>6, <3>1, NextAt
    <2>3. QED
      BY <2>1, <2>2 DEF At
  <1>8. i <= limit /\ i + step > limit /\ total \in Nat /\ total = n + 1
    <2>1. index + (n + 1) * step = i + step /\ n + 1 \in Nat /\ n < n + 1
      BY <1>1 DEF RoundsCounted
    <2>2. QED
      BY <1>1, <2>1 DEF RoundsCounted
  <1>9. z \in Machines /\ Appended(c, m, n + 1, i, 0, z) /\ z.pc = 5
    <2>1. n + 1 \in Nat /\ 0 \in 0 .. 3 /\ "AfterCompleted" = PhaseOf(0) /\ total = n + 1 /\ total \in Nat
      BY <1>8 DEF PhaseOf
    <2>2. Committed(c, m, n + 1, i, 0, total, z)
      BY <1>1, <2>1, CommitIs
    <2>3. QED
      BY <1>1, <2>1, <2>2 DEF Committed
  <1>10. CASE i + step \in Integers64
    <2>1. PICK next : next = Wrap(p.regs[0].n + p.regs[2].n)
      OBVIOUS
    <2>2. next = i + step /\ ~forIntegerLoopContinues(next, p.regs[1].n, p.regs[2].n)
      <3>1. p.regs[0].n = i
        BY <1>5 DEF IntegerValue
      <3>2. next = i + step
        BY <1>5, <1>10, <2>1, <3>1, WrapOfInteger
      <3>3. QED
        BY <1>1, <1>5, <1>8, <3>2 DEF forIntegerLoopContinues
    <2>3. ForLooped(c, p, next, f)
      <3>1. p.pc = Len(c) /\ p \in Machines /\ Holds(p, 0 .. 2)
        BY <1>1, <1>4, <1>5
      <3>2. QED
        BY <1>1, <1>6, <2>1, <3>1, ForLoops
    <2>4. f.pc = 5 /\ f.regs = p.regs /\ f.table = p.table /\ f.upvalue = p.upvalue
      BY <1>1, <2>2, <2>3 DEF ForLooped
    <2>5. Appended(c, m, n + 1, i, 0, f)
      <3>1. /\ f.table = m.table /\ f.upvalue = m.upvalue
            /\ \A q \in FrameRegisters \ {0, Visible} : f.regs[q] = p.regs[q]
            /\ f.regs[0] = IntegerValue(i) /\ f.regs[Visible] = IntegerValue(i)
        BY <1>4, <1>5, <2>4
      <3>2. QED
        BY <1>1, <1>4, <3>1, AppendLooped
    <2>6. z = f
      BY <1>7, <1>9, <2>4, <2>5, AppendedSame
    <2>7. QED
      BY <1>7, <2>6
  <1>11. CASE i + step \notin Integers64
    <2>1. limit > MaxInteger - step
      BY <1>1, <1>8, <1>11, IntegersAreIntegers
    <2>2. z.regs[1] = m.regs[1] /\ z.regs[2] = m.regs[2]
      <3>1. 1 \in FrameRegisters /\ 2 \in FrameRegisters /\ Visible = 3
        BY DEF FrameRegisters, Visible
      <3>2. c[1].a \notin {1, 2} /\ c[2].a \notin {1, 2} /\ c[3].a \notin {1, 2}
        BY <1>1 DEF StringShape
      <3>3. QED
        BY <1>9, <3>1, <3>2 DEF Appended
    <2>3. StopsAtEnd(c, z)
      BY <1>1, <1>9, <2>1, <2>2 DEF StopsAtEnd
    <2>4. QED
      BY <1>7, <2>3
  <1>12. QED
    BY <1>10, <1>11

WholeOutcome(r, c, m, w) ==
  /\ w.done \in Nat /\ OnItsWay(r, c, Instructions(c, m, w.done))
  /\ w.cancelled => w.m = Instructions(c, m, w.done)
  /\ w.m = Instructions(c, m, w.done) \/ StopsAtEnd(c, w.m)
  /\ w.countdown \in Nat /\ w.since \in Nat /\ w.since + w.countdown <= Interval + 1

\* A whole batch is as many instructions as it has counted, and stops where
\* the check that failed would have stopped them.
LEMMA WholeBatch ==
  ASSUME HalfAssumption, CapturedAssumption, IntervalAssumption, NEW r \in RangeSet, NEW c \in Codes,
         NEW m, OnItsWay(r, c, m), m.pc = 1, MatchStringAppend(c), m.regs[c[3].a].kind = "string",
         positiveIntegerForLoopRemainingIterations(m.regs[0].n, m.regs[1].n, m.regs[2].n) > 0,
         NEW window, window.countdown \in Nat, window.since \in Nat,
         window.since + window.countdown <= Interval, NEW ok \in Nat
  PROVE  WholeOutcome(r, c, m, TryExecuteStringAppendForLoopWholeBatch(c, m, window, ok))
  <1> DEFINE w == TryExecuteStringAppendForLoopWholeBatch(c, m, window, ok)
  <1>1. PICK index : index = m.regs[0].n
    OBVIOUS
  <1>2. PICK limit : limit = m.regs[1].n
    OBVIOUS
  <1>3. PICK step : step = m.regs[2].n
    OBVIOUS
  <1>4. PICK total : total = positiveIntegerForLoopRemainingIterations(index, limit, step)
    OBVIOUS
  <1>5. m \in Machines /\ Holds(m, 0 .. 2) /\ StringShape(c)
    BY StringShapes DEF OnItsWay
  <1>6. /\ index \in Integers64 /\ limit \in Integers64 /\ step \in Integers64
        /\ index \in Int /\ limit \in Int /\ step \in Int
    <2>1. 0 \in 0 .. 2 /\ 1 \in 0 .. 2 /\ 2 \in 0 .. 2
      OBVIOUS
    <2>2. QED
      BY <1>1, <1>2, <1>3, <1>5, <2>1, ControlsAreIntegers
  <1>7. step > 0 /\ index <= limit
    <2>1. total > 0
      BY <1>1, <1>2, <1>3, <1>4
    <2>2. QED
      BY <1>4, <1>6, <2>1 DEF positiveIntegerForLoopRemainingIterations
  <1>8. Appending(r, c, m, index, limit, step, total)
    <2>1. RoundsCounted(index, limit, step, total)
      BY <1>4, <1>6, <1>7, CountRounds
    <2>2. QED
      BY <1>1, <1>2, <1>3, <1>5, <1>6, <1>7, <2>1 DEF Appending
  <1>9. total \in Nat /\ total > 0
    BY <1>8 DEF Appending, RoundsCounted
  <1>10. PICK first : first = [m |-> m, n |-> 0, index |-> index, done |-> 0, ok |-> ok,
                countdown |-> window.countdown, since |-> window.since, cancelled |-> FALSE]
    OBVIOUS
  <1>11. PICK N \in Nat : N = 4 * total - 1
    BY <1>9
  <1>12. PICK last : last = Boundaries(c, m, total, first, N)
    OBVIOUS
  <1>13. w = IF last.cancelled THEN last
             ELSE [last EXCEPT !.n = total, !.done = @ + 1, !.since = @ + 1,
                     !.m = commitStringAppendForLoopState(
                             c, m, total, last.index, "AfterCompleted", total)]
    BY <1>1, <1>2, <1>3, <1>4, <1>10, <1>11, <1>12 DEF TryExecuteStringAppendForLoopWholeBatch
  <1> HIDE DEF w
  <1>14. Whole(r, c, m, index, step, total, 0, first)
    <2>1. /\ first \in WholeStates /\ first.since = window.since /\ first.countdown = window.countdown
          /\ first.n = 0 /\ first.index = index /\ first.done = 0 /\ ~first.cancelled
      BY <1>5, <1>6, <1>10 DEF WholeStates
    <2>2. RoundStart(r, c, m, 0, index, m)
      BY <1>8, FirstRound
    <2>3. index + 0 * step = index /\ 0 = 0 * 4 + 0 /\ 0 < total /\ 0 \in 0 .. 3
      BY <1>6, <1>9
    <2>4. Underway(r, c, m, index, step, total, 0, index, 0, 0)
      BY <2>2, <2>3 DEF Underway
    <2>5. QED
      BY <2>1, <2>4 DEF Whole
  <1> DEFINE Reached == {j \in 0 .. N : Whole(r, c, m, index, step, total, j,
                                              Boundaries(c, m, total, first, j))}
  <1>15. 0 \in Reached
    BY <1>14, BoundariesByOne
  <1>16. ASSUME NEW j \in 0 .. N, j < N, j \in Reached
         PROVE  j + 1 \in Reached
    <2>1. PICK s : s = Boundaries(c, m, total, first, j)
      OBVIOUS
    <2>2. Whole(r, c, m, index, step, total, j, s) /\ j \in Nat /\ j + 1 <= 4 * total - 1
      BY <1>11, <1>16, <2>1
    <2>3. Boundaries(c, m, total, first, j + 1) = NextBoundary(c, m, total, j + 1, s)
      BY <2>1, <2>2, BoundariesByOne
    <2>4. Whole(r, c, m, index, step, total, j + 1, NextBoundary(c, m, total, j + 1, s))
      BY <1>8, <2>2, WholeStep
    <2>5. j + 1 \in 0 .. N
      BY <1>16
    <2>6. QED
      BY <2>3, <2>4, <2>5
  <1>17. N \in Reached
    <2> HIDE DEF Reached
    <2>1. QED
      BY <1>15, <1>16, Induction
  <1>18. Whole(r, c, m, index, step, total, N, last)
    BY <1>12, <1>17
  <1>19. /\ last \in WholeStates /\ last.since + last.countdown <= Interval
         /\ last.since \in Nat /\ last.countdown \in Nat /\ last.done \in Nat /\ last.n \in Nat
         /\ last.index \in Integers64
    BY <1>18 DEF Whole, WholeStates
  <1>20. CASE last.cancelled
    <2>1. last.m = Instructions(c, m, last.done) /\ OnItsWay(r, c, last.m)
      BY <1>18, <1>20 DEF Whole
    <2>2. QED
      BY <1>13, <1>19, <1>20, <2>1 DEF WholeOutcome, w, IntervalAssumption
  <1>21. CASE ~last.cancelled
    <2>1. PICK k : Underway(r, c, m, index, step, total, last.n, last.index, k, N)
      BY <1>18, <1>21 DEF Whole
    <2>2. PICK n \in Nat : n = last.n
      BY <1>19
    <2>3. PICK i \in Integers64 : i = last.index
      BY <1>19
    <2>4. PICK x : RoundStart(r, c, m, n, i, x)
      BY <2>1, <2>2, <2>3 DEF Underway
    <2>5. n + 1 = total /\ i = index + n * step /\ N = n * 4 + 3 /\ last.done = N
      <3>1. k \in 0 .. 3 /\ N = n * 4 + k /\ n < total /\ i = index + n * step
        BY <2>1, <2>2, <2>3 DEF Underway
      <3>2. n + 1 = total /\ k = 3
        BY <1>9, <1>11, <3>1
      <3>3. last.done = N
        BY <1>18, <1>21 DEF Whole
      <3>4. QED
        BY <3>1, <3>2, <3>3
    <2>6. PICK z : z = commitStringAppendForLoopState(c, m, total, i, "AfterCompleted", total)
      OBVIOUS
    <2>7. /\ OnItsWay(r, c, Instructions(c, m, n * 4 + 4))
          /\ z = Instructions(c, m, n * 4 + 4) \/ StopsAtEnd(c, z)
      BY <1>8, <2>4, <2>5, <2>6, WholeEnds
    <2>8. w = [last EXCEPT !.n = total, !.done = @ + 1, !.since = @ + 1, !.m = z]
      BY <1>13, <1>21, <2>3, <2>6
    <2>9. w.done = last.done + 1 /\ w.since = last.since + 1 /\ w.m = z
          /\ w.countdown = last.countdown /\ ~w.cancelled
      BY <1>19, <1>21, <2>8 DEF WholeStates
    <2>10. w.done = n * 4 + 4 /\ w.done \in Nat
      BY <2>5, <2>9
    <2>11. w.since \in Nat /\ w.countdown \in Nat /\ w.since + w.countdown <= Interval + 1
      BY <1>19, <2>9 DEF IntervalAssumption
    <2>12. QED
      BY <2>7, <2>9, <2>10, <2>11 DEF WholeOutcome, w
  <1>22. QED
    BY <1>20, <1>21

-----------------------------------------------------------------------------
(* A step of the driver *)

\* What the machine of the driver may be, of what the instructions have made.
Agrees(c, x, y) == x = y \/ (MixAliased(c) /\ Alike(x, y))

\* After N instructions.
Executed(r, c, y, N, x) ==
  /\ N \in Nat /\ OnItsWay(r, c, Instructions(c, y, N))
  /\ Agrees(c, x, Instructions(c, y, N)) \/ StopsAtEnd(c, x)

IsStep(d) ==
  d = [m |-> d.m, countdown |-> d.countdown, since |-> d.since, done |-> d.done, ok |-> d.ok,
       next |-> d.next]

\* An instruction has been counted, and none of the step's executed.
Counted(d, m) ==
  /\ IsStep(d) /\ d.m = m /\ d.done = 0 /\ d.next = "instruction" /\ d.ok \in Nat
  /\ d.countdown \in Nat /\ d.since \in Nat /\ d.since + d.countdown <= Interval

\* t is d after a super-instruction has been tried.
Tried(r, c, y, d, t) ==
  \/ Counted(t, d.m)
  \/ /\ t.next \in {"handled", "cancelled"} /\ Executed(r, c, y, t.done, t.m)
     /\ t.next = "cancelled" => Agrees(c, t.m, Instructions(c, y, t.done))
     /\ t.countdown \in Nat /\ t.since \in Nat /\ t.since + t.countdown <= Interval + 1

\* Rounds that fit the countdown, taken from it.
LEMMA WindowTried ==
  ASSUME IntervalAssumption, NEW r, NEW c, NEW y, NEW m, NEW d, Counted(d, m), NEW size \in Nat,
         NEW b, b.n \in Nat, b.n > 0 => b.n * size <= d.countdown + 1,
         b.n > 0 => b.n * size > 0 /\ Executed(r, c, y, b.n * size, b.m)
  PROVE  Tried(r, c, y, d, WindowBatch(d, b, size))
  <1> DEFINE t == WindowBatch(d, b, size)
  <1>1. CASE b.n = 0
    BY <1>1 DEF WindowBatch, Tried, Counted
  <1>2. CASE b.n > 0
    <2>1. PICK N : N = b.n * size
      OBVIOUS
    <2>2. N \in Nat /\ N > 0 /\ N <= d.countdown + 1 /\ Executed(r, c, y, N, b.m)
      BY <1>2, <2>1 DEF Executed
    <2>3. t = [d EXCEPT !.m = b.m, !.next = "handled", !.done = N, !.since = d.since + N,
                        !.countdown = @ - (N - 1)]
      BY <1>2, <2>1 DEF WindowBatch, Handled
    <2> HIDE DEF t
    <2>4. /\ t.m = b.m /\ t.next = "handled" /\ t.done = N /\ t.since = d.since + N
          /\ t.countdown = d.countdown - (N - 1)
      BY <2>3 DEF Counted, IsStep
    <2>5. t.countdown \in Nat /\ t.since \in Nat /\ t.since + t.countdown <= Interval + 1
      BY <2>2, <2>4 DEF Counted, IntervalAssumption
    <2>6. QED
      BY <2>2, <2>4, <2>5 DEF Tried, t
  <1>3. QED
    BY <1>1, <1>2

\* A window of whole rounds.
LEMMA OutcomeTried ==
  ASSUME IntervalAssumption, NEW r, NEW c, NEW m, NEW d, Counted(d, m), NEW size \in Nat, size > 0,
         NEW b, Outcome(r, c, m, size, (d.countdown + 1) \div size, b)
  PROVE  Tried(r, c, m, d, WindowBatch(d, b, size))
  <1>1. PICK max : max = (d.countdown + 1) \div size
    OBVIOUS
  <1>2. PICK w \in Nat : w = d.countdown + 1
    BY DEF Counted
  <1>3. max \in Int /\ size * max <= w
    <2>1. w \in Int /\ max = w \div size
      BY <1>1, <1>2
    <2>2. w \div size \in Int /\ w % size \in 0 .. size - 1 /\ w = size * (w \div size) + (w % size)
      BY <2>1, Divided
    <2>3. PICK p : p = size * (w \div size)
      OBVIOUS
    <2>4. p \in Int /\ p <= w
      BY <2>2, <2>3
    <2>5. QED
      BY <2>1, <2>2, <2>3, <2>4
  <1>4. b.n \in Nat /\ b.n <= max
    BY <1>1 DEF Outcome
  <1>5. b.n * size <= w /\ b.n * size \in Nat
    <2>1. PICK u \in Nat : max = b.n + u
      <3>1. max - b.n \in Nat /\ max = b.n + (max - b.n)
        BY <1>3, <1>4
      <3>2. QED
        BY <3>1
    <2>2. PICK n \in Nat : n = b.n
      BY <1>4
    <2>3. size * (n + u) = n * size + size * u /\ size * u >= 0 /\ n * size \in Nat
      OBVIOUS
    <2>4. QED
      BY <1>2, <1>3, <2>1, <2>2, <2>3
  <1>6. b.n > 0 => b.n * size > 0 /\ Executed(r, c, m, b.n * size, b.m)
    <2> SUFFICES ASSUME b.n > 0
                 PROVE  b.n * size > 0 /\ Executed(r, c, m, b.n * size, b.m)
      OBVIOUS
    <2>1. b.n * size > 0
      <3>1. PICK n \in Nat : n = b.n - 1
        BY <1>4
      <3>2. b.n = n + 1 /\ (n + 1) * size = n * size + size /\ n * size >= 0
        BY <1>4, <3>1
      <3>3. QED
        BY <3>2
    <2>2. QED
      BY <1>5, <2>1 DEF Outcome, Executed, Agrees
  <1>7. QED
    BY <1>2, <1>4, <1>5, <1>6, WindowTried

\* A batch of calls.
LEMMA CallTried ==
  ASSUME IntervalAssumption, NEW r, NEW c \in Codes, NEW m, OnItsWay(r, c, m),
         NEW d, Counted(d, m), NEW k \in Nat, k > 0,
         NEW b, CallOutcome(r, c, m, k + 1, d.countdown \div k, b)
  PROVE  Tried(r, c, m, d, CallBatch(d, b, k + 1))
  <1> DEFINE t == CallBatch(d, b, k + 1)
  <1>1. PICK max : max = d.countdown \div k
    OBVIOUS
  <1>2. PICK w \in Nat : w = d.countdown
    BY DEF Counted
  <1>3. max \in Int /\ k * max <= w
    <2>1. w \in Int /\ max = w \div k
      BY <1>1, <1>2
    <2>2. w \div k \in Int /\ w % k \in 0 .. k - 1 /\ w = k * (w \div k) + (w % k)
      BY <2>1, Divided
    <2>3. PICK p : p = k * (w \div k)
      OBVIOUS
    <2>4. p \in Int /\ p <= w
      BY <2>2, <2>3
    <2>5. QED
      BY <2>1, <2>2, <2>3, <2>4
  <1>4. PICK n \in Nat : n = b.n
    BY DEF CallOutcome
  <1>5. n <= max
    BY <1>1, <1>4 DEF CallOutcome
  <1>6. n * k <= w /\ n * k \in Nat /\ n * (k + 1) \in Nat /\ (n > 0 => n * k >= k)
    <2>1. PICK u \in Nat : max = n + u
      <3>1. max - n \in Nat /\ max = n + (max - n)
        BY <1>3, <1>5
      <3>2. QED
        BY <3>1
    <2>2. k * (n + u) = n * k + k * u /\ k * u >= 0 /\ n * k \in Nat /\ n * (k + 1) = n * k + n
      OBVIOUS
    <2>3. n > 0 => n * k >= k
      <3>1. n > 0 => n = (n - 1) + 1 /\ n - 1 \in Nat
        OBVIOUS
      <3>2. \A v \in Nat : (v + 1) * k >= k
        OBVIOUS
      <3>3. QED
        BY <3>1, <3>2
    <2>4. QED
      BY <1>3, <2>1, <2>2, <2>3
  <1>7. Executed(r, c, m, n * (k + 1), b.m) /\ Agrees(c, b.m, Instructions(c, m, n * (k + 1)))
    BY <1>4, <1>6 DEF CallOutcome, Executed, Agrees
  <1>8. d.since \in Nat /\ d.since + w <= Interval
    BY <1>2 DEF Counted
  <1>9. CASE b.cancelled
    <2>1. t = [d EXCEPT !.m = b.m, !.next = "cancelled", !.done = n * (k + 1)]
      BY <1>4, <1>9 DEF CallBatch
    <2> HIDE DEF t
    <2>2. /\ t.m = b.m /\ t.next = "cancelled" /\ t.done = n * (k + 1) /\ t.since = d.since
          /\ t.countdown = w
      BY <1>2, <2>1 DEF Counted, IsStep
    <2>3. t.since + t.countdown <= Interval + 1
      BY <1>8, <2>2 DEF IntervalAssumption
    <2>4. QED
      BY <1>7, <1>8, <2>2, <2>3 DEF Tried, t
  <1>10. CASE ~b.cancelled /\ n = 0
    <2>1. t = [d EXCEPT !.since = 0]
      BY <1>4, <1>10 DEF CallBatch
    <2> HIDE DEF t
    <2>2. IsStep(t) /\ t.m = m /\ t.done = 0 /\ t.next = "instruction" /\ t.ok = d.ok
          /\ t.countdown = d.countdown /\ t.since = 0
      BY <2>1 DEF Counted, IsStep
    <2>3. Counted(t, d.m)
      BY <1>2, <1>8, <2>2 DEF Counted, IntervalAssumption
    <2>4. QED
      BY <2>3 DEF Tried, t
  <1>11. CASE ~b.cancelled /\ n > 0
    <2>1. t = [Handled(d, b, n * (k + 1), n * ((k + 1) - 1), k + 1) EXCEPT !.ok = b.ok]
      BY <1>4, <1>11 DEF CallBatch
    <2>2. (k + 1) - 1 = k
      OBVIOUS
    <2>3. t = [[d EXCEPT !.m = b.m, !.next = "handled", !.done = n * (k + 1), !.since = k + 1,
                        !.countdown = @ - n * k] EXCEPT !.ok = b.ok]
      BY <2>1, <2>2 DEF Handled
    <2> HIDE DEF t
    <2>4. /\ t.m = b.m /\ t.next = "handled" /\ t.done = n * (k + 1) /\ t.since = k + 1
          /\ t.countdown = w - n * k
      BY <1>2, <2>3 DEF Counted, IsStep
    <2>5. PICK p \in Nat : p = n * k
      BY <1>6
    <2>6. p <= w /\ p >= k /\ w <= Interval
      BY <1>6, <1>8, <1>11, <2>5 DEF IntervalAssumption
    <2>7. t.countdown \in Nat /\ t.since \in Nat /\ t.since + t.countdown <= Interval + 1
      BY <2>4, <2>5, <2>6 DEF IntervalAssumption
    <2>8. QED
      BY <1>7, <2>4, <2>7 DEF Tried, t
  <1>12. QED
    BY <1>9, <1>10, <1>11

-----------------------------------------------------------------------------
(* What each super-instruction does to a step *)

\* A machine that has executed nothing.
LEMMA Unexecuted ==
  ASSUME NEW r, NEW c, NEW m, OnItsWay(r, c, m)
  PROVE  Executed(r, c, m, 0, m) /\ Agrees(c, m, Instructions(c, m, 0)) /\ Instructions(c, m, 0) = m
  BY InstructionsByOne DEF Executed, Agrees

\* The check before a batch of calls, of one that cannot be prepared too.
LEMMA CheckTried ==
  ASSUME IntervalAssumption, NEW r, NEW c \in Codes, NEW m, OnItsWay(r, c, m),
         NEW d, Counted(d, m), NEW k \in Nat, k > 0, NEW kind, NEW wanted,
         NEW b, kind = wanted => CallOutcome(r, c, m, k + 1, d.countdown \div k, b)
  PROVE  Tried(r, c, m, d, CheckCall(d, kind = wanted, b, k + 1))
  <1> DEFINE t == CheckCall(d, kind = wanted, b, k + 1)
  <1>1. CASE d.ok = 0
    <2>1. t = [d EXCEPT !.next = "cancelled"]
      BY <1>1 DEF CheckCall
    <2> HIDE DEF t
    <2>2. /\ t.m = m /\ t.next = "cancelled" /\ t.done = 0 /\ t.since = d.since
          /\ t.countdown = d.countdown
      BY <2>1 DEF Counted, IsStep
    <2>3. t.countdown \in Nat /\ t.since \in Nat /\ t.since + t.countdown <= Interval + 1
      BY <2>2 DEF Counted, IntervalAssumption
    <2>4. QED
      BY <2>2, <2>3, Unexecuted DEF Tried, t
  <1>2. CASE d.ok # 0 /\ kind = wanted
    <2>1. t = CallBatch(d, b, k + 1)
      BY <1>2 DEF CheckCall
    <2>2. QED
      BY <1>2, <2>1, CallTried
  <1>3. CASE d.ok # 0 /\ kind # wanted
    <2>1. t = [d EXCEPT !.since = 0, !.ok = @ - 1]
      BY <1>3 DEF CheckCall
    <2> HIDE DEF t
    <2>2. IsStep(t) /\ t.m = m /\ t.done = 0 /\ t.next = "instruction" /\ t.ok = d.ok - 1
          /\ t.countdown = d.countdown /\ t.since = 0
      BY <2>1 DEF Counted, IsStep
    <2>3. d.ok - 1 \in Nat /\ 0 + d.countdown <= Interval
      BY <1>3 DEF Counted, IntervalAssumption
    <2>4. Counted(t, d.m)
      BY <2>2, <2>3 DEF Counted
    <2>5. QED
      BY <2>4 DEF Tried, t
  <1>4. QED
    BY <1>1, <1>2, <1>3

\* A batch, and one round if there is none.
LEMMA EitherTried ==
  ASSUME IntervalAssumption, NEW r, NEW c, NEW m, NEW d, Counted(d, m), NEW size \in Nat, size > 0,
         NEW b, Outcome(r, c, m, size, (d.countdown + 1) \div size, b),
         NEW e, Outcome(r, c, m, size, (d.countdown + 1) \div size, e)
  PROVE  Tried(r, c, m, d, BatchOrRound(d, b, e, size))
  BY OutcomeTried DEF BatchOrRound

\* There is room for one round.
LEMMA RoomForOne ==
  ASSUME NEW left \in Nat, NEW size \in Nat, size > 0, left >= size - 1
  PROVE  (left + 1) \div size \in Nat /\ 1 <= (left + 1) \div size
  <1>1. PICK w \in Nat : w = left + 1
    OBVIOUS
  <1>2. w \in Int /\ w >= size
    BY <1>1
  <1>3. w \div size \in Int /\ w % size \in 0 .. size - 1 /\ w = size * (w \div size) + (w % size)
    BY <1>2, Divided
  <1>4. PICK q \in Int : q = w \div size
    BY <1>3
  <1>5. q >= 1
    <2>1. SUFFICES ASSUME q <= 0 PROVE FALSE
      BY <1>4
    <2>2. PICK u \in Nat : q = -u
      <3>1. -q \in Nat /\ q = -(-q)
        BY <2>1
      <3>2. QED
        BY <3>1
    <2>3. size * (-u) = -(size * u) /\ size * u >= 0 /\ size * u \in Nat
      OBVIOUS
    <2>4. w <= w % size
      BY <1>3, <1>4, <2>2, <2>3
    <2>5. QED
      BY <1>2, <1>3, <2>4
  <1>6. QED
    BY <1>1, <1>4, <1>5

\* The rounds that the countdown has room for.
LEMMA RoomForSome ==
  ASSUME NEW left \in Nat, NEW size \in Nat, size > 0
  PROVE  (left + 1) \div size \in Nat /\ left \div size \in Nat
  <1>1. ASSUME NEW w \in Nat
        PROVE  w \div size \in Nat
    <2>1. CASE w >= size
      <3>1. PICK l \in Nat : w = l + 1
        <4>1. w - 1 \in Nat /\ w = (w - 1) + 1
          BY <2>1
        <4>2. QED
          BY <4>1
      <3>2. QED
        BY <2>1, <3>1, RoomForOne
    <2>2. CASE w < size
      BY <2>2
    <2>3. QED
      BY <2>1, <2>2
  <1>2. left + 1 \in Nat
    OBVIOUS
  <1>3. QED
    BY <1>1, <1>2

\* StringAppend, by a step of either sign.
LEMMA StringTried ==
  ASSUME HalfAssumption, CapturedAssumption, IntervalAssumption, NEW r \in RangeSet, NEW c \in Codes,
         NEW m, OnItsWay(r, c, m), m.pc = 1, MatchStringAppend(c), NEW d, Counted(d, m)
  PROVE  Tried(r, c, m, d, StringAppend(c, d))
  <1> DEFINE text  == m.regs[c[3].a]
             total == positiveIntegerForLoopRemainingIterations(m.regs[0].n, m.regs[1].n, m.regs[2].n)
             t == StringAppend(c, d)
  <1>0. d.m = m /\ d.countdown \in Nat /\ d.ok \in Nat /\ d.since \in Nat
        /\ d.since + d.countdown <= Interval
    BY DEF Counted
  <1>1. CASE text.kind = "string" /\ Holds(m, 0 .. 2) /\ total > 0
    <2>1. PICK whole : whole = TryExecuteStringAppendForLoopWholeBatch(c, m, d, d.ok)
      OBVIOUS
    <2>2. WholeOutcome(r, c, m, whole)
      BY <1>0, <1>1, <2>1, WholeBatch
    <2>3. t = [d EXCEPT !.m = whole.m, !.done = whole.done, !.since = whole.since,
                    !.countdown = whole.countdown,
                    !.next = IF whole.cancelled THEN "cancelled" ELSE "handled"]
      BY <1>0, <1>1, <2>1 DEF StringAppend
    <2> HIDE DEF t
    <2>4. /\ t.m = whole.m /\ t.done = whole.done /\ t.since = whole.since
          /\ t.countdown = whole.countdown
          /\ t.next = IF whole.cancelled THEN "cancelled" ELSE "handled"
      BY <2>3 DEF Counted, IsStep
    <2>5. QED
      BY <2>2, <2>4 DEF WholeOutcome, Tried, Executed, Agrees, t
  <1>2. CASE ~(text.kind = "string" /\ Holds(m, 0 .. 2) /\ total > 0)
    <2>1. PICK max \in Nat : max = (d.countdown + 1) \div 4
      <3>1. 4 \in Nat /\ 4 > 0
        OBVIOUS
      <3>2. QED
        BY <1>0, <3>1, RoomForSome
    <2>2. PICK b : b = TryExecuteStringAppendForLoopBatch(c, m, max, d.ok)
      OBVIOUS
    <2>3. Outcome(r, c, m, 4, max, b)
      BY <1>0, <2>2, StringBatch
    <2>4. t = WindowBatch(d, b, 4)
      BY <1>0, <1>2, <2>1, <2>2 DEF StringAppend
    <2>5. 4 \in Nat /\ 4 > 0
      OBVIOUS
    <2>6. QED
      BY <2>1, <2>3, <2>4, <2>5, OutcomeTried
  <1>3. QED
    BY <1>1, <1>2

-----------------------------------------------------------------------------
(* A step that a family takes *)

\* A batch of calls that can be prepared.
Prepared(r, c, m, d, k, kind, wanted, b) ==
  k \in Nat /\ k > 0 /\ (kind = wanted => CallOutcome(r, c, m, k + 1, d.countdown \div k, b))

\* The same, of a batch that is named.
LEMMA PreparedTried ==
  ASSUME IntervalAssumption, NEW r, NEW c \in Codes, NEW m, OnItsWay(r, c, m),
         NEW d, Counted(d, m), NEW k, NEW kind, NEW wanted, NEW b,
         Prepared(r, c, m, d, k, kind, wanted, b)
  PROVE  Tried(r, c, m, d, CheckCall(d, kind = wanted, b, k + 1))
  BY CheckTried DEF Prepared

\* A machine at the start of a body, and the counted step it is in.
AtBody(r, c, m, d) == OnItsWay(r, c, m) /\ m.pc = 1 /\ Counted(d, m)

\* The families with one way to run,
LEMMA WindowFamilies ==
  ASSUME HalfAssumption, CapturedAssumption, IntervalAssumption, NEW r \in RangeSet, NEW c \in Codes,
         NEW m, NEW d, AtBody(r, c, m, d),
         NEW family \in {"TableWrite", "TableReadAdd", "StringAppend"},
         Matches(family, c, d.countdown)
  PROVE  Tried(r, c, m, d, TrySuperInstruction(family, c, d))
  <1> DEFINE t == TrySuperInstruction(family, c, d)
  <1>1. OnItsWay(r, c, m) /\ m.pc = 1 /\ Counted(d, m) /\ d.m = m /\ d.countdown \in Nat /\ d.ok \in Nat
    BY DEF AtBody, Counted
  <1>2. CASE family = "TableWrite"
    <2>1. 2 \in Nat /\ 2 > 0
      OBVIOUS
    <2>2. PICK max \in Nat : max = (d.countdown + 1) \div 2
      BY <1>1, <2>1, RoomForSome
    <2>3. MatchTableWrite(c)
      BY <1>2 DEF Matches
    <2>4. Outcome(r, c, m, 2, max, TryExecuteTableWriteForLoopBatch(c, m, max, d.ok))
      BY <1>1, <2>3, WriteBatch
    <2>5. t = WindowBatch(d, TryExecuteTableWriteForLoopBatch(c, m, max, d.ok), 2)
      BY <1>1, <1>2, <2>2 DEF TrySuperInstruction
    <2>6. QED
      BY <1>1, <2>1, <2>2, <2>4, <2>5, OutcomeTried
  <1>3. CASE family = "TableReadAdd"
    <2>1. 3 \in Nat /\ 3 > 0
      OBVIOUS
    <2>2. PICK max \in Nat : max = (d.countdown + 1) \div 3
      BY <1>1, <2>1, RoomForSome
    <2>3. MatchTableReadAdd(c)
      BY <1>3 DEF Matches
    <2>4. Outcome(r, c, m, 3, max, TryExecuteTableReadAddForLoopBatch(c, m, max, d.ok))
      BY <1>1, <2>3, ReadAddBatch
    <2>5. t = WindowBatch(d, TryExecuteTableReadAddForLoopBatch(c, m, max, d.ok), 3)
      BY <1>1, <1>3, <2>2 DEF TrySuperInstruction
    <2>6. QED
      BY <1>1, <2>1, <2>2, <2>4, <2>5, OutcomeTried
  <1>4. CASE family = "StringAppend"
    <2>1. MatchStringAppend(c)
      BY <1>4 DEF Matches
    <2>2. t = StringAppend(c, d)
      BY <1>4 DEF TrySuperInstruction
    <2>3. QED
      BY <1>1, <2>1, <2>2, StringTried
  <1>5. QED
    BY <1>2, <1>3, <1>4

\* those that call,
LEMMA CallFamilies ==
  ASSUME HalfAssumption, CapturedAssumption, IntervalAssumption, NEW r \in RangeSet, NEW c \in Codes,
         NEW m, NEW d, AtBody(r, c, m, d),
         NEW family \in {"FunctionCallAssign", "ClosureUpvalue", "FunctionCallAdd"},
         Matches(family, c, d.countdown)
  PROVE  Tried(r, c, m, d, TrySuperInstruction(family, c, d))
  <1> DEFINE t == TrySuperInstruction(family, c, d)
             kind == FunctionKind(c, d)
             f == m.regs[c[1].b.index]
  <1>1. OnItsWay(r, c, m) /\ m.pc = 1 /\ Counted(d, m) /\ d.m = m /\ d.countdown \in Nat /\ d.ok \in Nat
        /\ m \in Machines /\ kind = f.kind
    BY DEF AtBody, Counted, OnItsWay, FunctionKind
  <1>2. CASE family = "FunctionCallAssign"
    <2>1. 5 \in Nat /\ 5 > 0 /\ 5 + 1 = 6
      OBVIOUS
    <2>2. PICK max \in Nat : max = d.countdown \div 5
      BY <1>1, <2>1, RoomForSome
    <2>3. MatchFunctionCallAssign(c)
      BY <1>2 DEF Matches
    <2>4. PICK b : b = TryExecuteFunctionCallAssignForLoopBatch(c, m, max, d.ok)
      OBVIOUS
    <2>5. kind = "adder" => CallOutcome(r, c, m, 5 + 1, d.countdown \div 5, b)
      <3> SUFFICES ASSUME kind = "adder"
                   PROVE  CallOutcome(r, c, m, 6, max, b)
        BY <2>1, <2>2
      <3>1. c[1].b.index \in FrameRegisters
        BY <2>3, AssignOperands
      <3>2. f = Adder
        BY <1>1, <3>1, MachineFields, OtherValues
      <3>3. QED
        BY <1>1, <2>3, <2>4, <3>2, AssignBatch
    <2>6. t = CheckCall(d, kind = "adder", b, 5 + 1)
      BY <1>1, <1>2, <2>1, <2>2, <2>4 DEF TrySuperInstruction
    <2>7. PICK wanted : wanted = "adder"
      OBVIOUS
    <2>8. PICK got : got = kind
      OBVIOUS
    <2>9. PICK each \in Nat : each = 5 /\ each > 0
      BY <2>1
    <2>10. Prepared(r, c, m, d, each, got, wanted, b)
      BY <2>5, <2>7, <2>8, <2>9 DEF Prepared
    <2> HIDE DEF kind
    <2>11. Tried(r, c, m, d, CheckCall(d, got = wanted, b, each + 1))
      BY <1>1, <2>10, PreparedTried
    <2>12. t = CheckCall(d, got = wanted, b, each + 1)
      BY <2>6, <2>7, <2>8, <2>9
    <2>13. QED
      BY <2>11, <2>12
  <1>3. CASE family = "ClosureUpvalue"
    <2>1. 4 \in Nat /\ 4 > 0 /\ 4 + 1 = 5
      OBVIOUS
    <2>2. PICK max \in Nat : max = d.countdown \div 4
      BY <1>1, <2>1, RoomForSome
    <2>3. MatchClosureUpvalue(c)
      BY <1>3 DEF Matches
    <2>4. PICK b : b = TryExecuteClosureUpvalueForLoopBatch(c, m, max, d.ok)
      OBVIOUS
    <2>5. kind = "counter" => CallOutcome(r, c, m, 4 + 1, d.countdown \div 4, b)
      <3> SUFFICES ASSUME kind = "counter"
                   PROVE  CallOutcome(r, c, m, 5, max, b)
        BY <2>1, <2>2
      <3>1. QED
        BY <1>1, <2>3, <2>4, UpvalueBatch
    <2>6. t = CheckCall(d, kind = "counter", b, 4 + 1)
      BY <1>1, <1>3, <2>1, <2>2, <2>4 DEF TrySuperInstruction
    <2>7. PICK wanted : wanted = "counter"
      OBVIOUS
    <2>8. PICK got : got = kind
      OBVIOUS
    <2>9. PICK each \in Nat : each = 4 /\ each > 0
      BY <2>1
    <2>10. Prepared(r, c, m, d, each, got, wanted, b)
      BY <2>5, <2>7, <2>8, <2>9 DEF Prepared
    <2> HIDE DEF kind
    <2>11. Tried(r, c, m, d, CheckCall(d, got = wanted, b, each + 1))
      BY <1>1, <2>10, PreparedTried
    <2>12. t = CheckCall(d, got = wanted, b, each + 1)
      BY <2>6, <2>7, <2>8, <2>9
    <2>13. QED
      BY <2>11, <2>12
  <1>4. CASE family = "FunctionCallAdd"
    <2>1. 5 \in Nat /\ 5 > 0 /\ 5 + 1 = 6
      OBVIOUS
    <2>2. PICK max \in Nat : max = d.countdown \div 5
      BY <1>1, <2>1, RoomForSome
    <2>3. MatchFunctionCallAdd(c)
      BY <1>4 DEF Matches
    <2>4. PICK b : b = TryExecuteFunctionCallAddForLoopBatch(c, m, max, d.ok)
      OBVIOUS
    <2>5. kind = "adder" => CallOutcome(r, c, m, 5 + 1, d.countdown \div 5, b)
      <3> SUFFICES ASSUME kind = "adder"
                   PROVE  CallOutcome(r, c, m, 6, max, b)
        BY <2>1, <2>2
      <3>1. c[1].b.index \in FrameRegisters
        BY <2>3, CallAddOperands
      <3>2. f = Adder
        BY <1>1, <3>1, MachineFields, OtherValues
      <3>3. QED
        BY <1>1, <2>3, <2>4, <3>2, CallAddBatch
    <2>6. t = CheckCall(d, kind = "adder", b, 5 + 1)
      BY <1>1, <1>4, <2>1, <2>2, <2>4 DEF TrySuperInstruction
    <2>7. PICK wanted : wanted = "adder"
      OBVIOUS
    <2>8. PICK got : got = kind
      OBVIOUS
    <2>9. PICK each \in Nat : each = 5 /\ each > 0
      BY <2>1
    <2>10. Prepared(r, c, m, d, each, got, wanted, b)
      BY <2>5, <2>7, <2>8, <2>9 DEF Prepared
    <2> HIDE DEF kind
    <2>11. Tried(r, c, m, d, CheckCall(d, got = wanted, b, each + 1))
      BY <1>1, <2>10, PreparedTried
    <2>12. t = CheckCall(d, got = wanted, b, each + 1)
      BY <2>6, <2>7, <2>8, <2>9
    <2>13. QED
      BY <2>11, <2>12
  <1>5. QED
    BY <1>2, <1>3, <1>4

\* and those with a batch and one round.
LEMMA RoundFamilies ==
  ASSUME HalfAssumption, CapturedAssumption, IntervalAssumption, NEW r \in RangeSet, NEW c \in Codes,
         NEW m, NEW d, AtBody(r, c, m, d),
         NEW family \in {"MixArithmetic", "MulAddSub", "Add"},
         Matches(family, c, d.countdown), ~MixAliased(c)
  PROVE  Tried(r, c, m, d, TrySuperInstruction(family, c, d))
  <1> DEFINE t == TrySuperInstruction(family, c, d)
  <1>1. OnItsWay(r, c, m) /\ m.pc = 1 /\ Counted(d, m) /\ d.m = m /\ d.countdown \in Nat /\ d.ok \in Nat
    BY DEF AtBody, Counted
  <1>2. CASE family = "MixArithmetic"
    <2>1. 7 \in Nat /\ 7 > 0 /\ d.countdown >= 7 - 1 /\ MatchMix(c)
      BY <1>1, <1>2 DEF Matches
    <2>2. PICK max \in Nat : max = (d.countdown + 1) \div 7 /\ 1 <= max
      BY <1>1, <2>1, RoomForOne
    <2>3. Outcome(r, c, m, 7, max, TryExecuteMixArithmeticForLoopBatch(c, m, max, d.ok))
      BY <1>1, <2>1, MixBatch
    <2>4. Outcome(r, c, m, 7, max, TryExecuteMixArithmeticForLoop(c, m, d.ok))
      BY <1>1, <2>1, <2>2, MixOneRound
    <2>5. t = BatchOrRound(d, TryExecuteMixArithmeticForLoopBatch(c, m, max, d.ok),
                           TryExecuteMixArithmeticForLoop(c, m, d.ok), 7)
      BY <1>1, <1>2, <2>2 DEF TrySuperInstruction
    <2>6. QED
      BY <1>1, <2>1, <2>2, <2>3, <2>4, <2>5, EitherTried
  <1>3. CASE family = "MulAddSub"
    <2>1. 4 \in Nat /\ 4 > 0 /\ d.countdown >= 4 - 1 /\ MatchMulAddSub(c)
      BY <1>1, <1>3 DEF Matches
    <2>2. PICK max \in Nat : max = (d.countdown + 1) \div 4 /\ 1 <= max
      BY <1>1, <2>1, RoomForOne
    <2>3. Outcome(r, c, m, 4, max, TryExecuteMulAddSubForLoopBatch(c, m, max, d.ok))
      BY <1>1, <2>1, MulAddSubBatch
    <2>4. Outcome(r, c, m, 4, max, TryExecuteMulAddSubForLoop(c, m, d.ok))
      BY <1>1, <2>1, <2>2, MulAddSubOneRound
    <2>5. t = BatchOrRound(d, TryExecuteMulAddSubForLoopBatch(c, m, max, d.ok),
                           TryExecuteMulAddSubForLoop(c, m, d.ok), 4)
      BY <1>1, <1>3, <2>2 DEF TrySuperInstruction
    <2>6. QED
      BY <1>1, <2>1, <2>2, <2>3, <2>4, <2>5, EitherTried
  <1>4. CASE family = "Add"
    <2>1. 2 \in Nat /\ 2 > 0 /\ d.countdown >= 2 - 1 /\ MatchAdd(c)
      BY <1>1, <1>4 DEF Matches
    <2>2. PICK max \in Nat : max = (d.countdown + 1) \div 2 /\ 1 <= max
      BY <1>1, <2>1, RoomForOne
    <2>3. Outcome(r, c, m, 2, max, TryExecuteAddForLoopBatch(c, m, max, d.ok))
      BY <1>1, <2>1, AddBatch
    <2>4. Outcome(r, c, m, 2, max, TryExecuteAddForLoop(c, m, d.ok))
      BY <1>1, <2>1, <2>2, AddRoundOutcome
    <2>5. t = BatchOrRound(d, TryExecuteAddForLoopBatch(c, m, max, d.ok),
                           TryExecuteAddForLoop(c, m, d.ok), 2)
      BY <1>1, <1>4, <2>2 DEF TrySuperInstruction
    <2>6. QED
      BY <1>1, <2>1, <2>2, <2>3, <2>4, <2>5, EitherTried
  <1>5. QED
    BY <1>2, <1>3, <1>4

-----------------------------------------------------------------------------
(* A step that any family takes *)

\* The body of MixArithmetic is no other family's.
LEMMA MixOnly ==
  ASSUME NEW c, MatchMix(c), NEW family \in Families, NEW left, Matches(family, c, left)
  PROVE  family = "MixArithmetic" /\ left >= 6
  <1>1. PICK t : t = <<"MUL", "ADD", "SUB", "IDIV", "MOD", "ADD", "FORLOOP">>
    OBVIOUS
  <1>2. Ops(c) = t /\ DOMAIN t = 1 .. 7
    BY <1>1 DEF MatchMix
  <1>3. ASSUME NEW u, Ops(c) = u
        PROVE  7 \in DOMAIN u
    BY <1>2, <1>3
  <1>4. /\ ~MatchTableWrite(c) /\ ~MatchTableReadAdd(c) /\ ~MatchAdd(c)
        /\ ~MatchStringAppend(c) /\ ~MatchMulAddSub(c)
    <2>1. Ops(c) # <<"SETTABLE", "FORLOOP">> /\ Ops(c) # <<"ADD", "FORLOOP">>
      BY <1>3
    <2>2. Ops(c) # <<"GETTABLE", "ADD", "FORLOOP">>
      BY <1>3
    <2>3. Ops(c) # <<"MOVE", "LOADK", "CONCAT", "FORLOOP">> /\ Ops(c) # <<"MUL", "ADD", "SUB", "FORLOOP">>
      BY <1>3
    <2>4. QED
      BY <2>1, <2>2, <2>3 DEF MatchTableWrite, MatchTableReadAdd, MatchAdd, MatchStringAppend, MatchMulAddSub
  <1>5. ~MatchFunctionCallAssign(c) /\ ~MatchFunctionCallAdd(c) /\ ~MatchClosureUpvalue(c)
    <2>1. Ops(c) # <<"MOVE", "MOVE", "MOVE", "CALL", "MOVE", "FORLOOP">>
      BY <1>3
    <2>2. Ops(c) # <<"MOVE", "MOVE", "LOADK", "CALL", "ADD", "FORLOOP">>
      BY <1>3
    <2>3. Ops(c) # <<"MOVE", "LOADK", "CALL", "MOVE", "FORLOOP">>
      BY <1>3
    <2>4. QED
      BY <2>1, <2>2, <2>3 DEF MatchFunctionCallAssign, MatchFunctionCallAdd, MatchClosureUpvalue
  <1>6. QED
    BY <1>4, <1>5 DEF Families, Matches

\* The one round of an aliased body.
LEMMA AliasedTried ==
  ASSUME HalfAssumption, CapturedAssumption, IntervalAssumption, NEW r \in RangeSet, NEW c \in Codes,
         NEW y, OnItsWay(r, c, y), y.pc = 1, MixAliased(c), NEW m, Alike(m, y),
         NEW d, Counted(d, m), d.countdown >= 6
  PROVE  Tried(r, c, y, d, TrySuperInstruction("MixArithmetic", c, d))
  <1> DEFINE B == TryExecuteMixArithmeticForLoopBatch(c, m, (d.countdown + 1) \div 7, d.ok)
             O == TryExecuteMixArithmeticForLoop(c, m, d.ok)
             t == TrySuperInstruction("MixArithmetic", c, d)
  <1>1. d.m = m /\ d.ok \in Nat /\ d.countdown \in Nat /\ MatchMix(c)
    BY DEF Counted, MixAliased
  <1>2. B = Batch(m, d.ok)
    <2>1. ~MixRegistersDiffer(c)
      BY DEF MixAliased, MixRegistersDiffer
    <2>2. QED
      BY <2>1 DEF TryExecuteMixArithmeticForLoopBatch, Refused
  <1>3. B.n = 0
    BY <1>2 DEF Batch
  <1>4. t = BatchOrRound(d, B, O, 7)
    BY <1>1 DEF TrySuperInstruction
  <1>5. AliasedOutcome(r, c, y, O)
    BY <1>1, AliasedRound
  <1> HIDE DEF B, O, t
  <1>6. t = WindowBatch(d, O, 7)
    BY <1>3, <1>4 DEF BatchOrRound
  <1>7. PICK size \in Nat : size = 7
    OBVIOUS
  <1>8. O.n \in {0, 1} /\ O.n \in Nat
    BY <1>5 DEF AliasedOutcome
  <1>9. O.n > 0 => O.n * size = 7
    BY <1>7, <1>8
  <1>10. O.n > 0 => O.n * size <= d.countdown + 1
    BY <1>1, <1>9
  <1>11. O.n > 0 => O.n * size > 0 /\ Executed(r, c, y, O.n * size, O.m)
    BY <1>5, <1>9 DEF AliasedOutcome, Executed, Agrees
  <1>12. Tried(r, c, y, d, WindowBatch(d, O, size))
    BY <1>8, <1>10, <1>11, WindowTried
  <1>13. QED
    BY <1>6, <1>7, <1>12 DEF t

\* Whatever family takes a step, it does what the instructions would have done.
LEMMA SuperInstructionTried ==
  ASSUME HalfAssumption, CapturedAssumption, IntervalAssumption, NEW r \in RangeSet, NEW c \in Codes,
         NEW y, OnItsWay(r, c, y), y.pc = 1, NEW m, Agrees(c, m, y),
         NEW d, Counted(d, m), NEW family \in Families, Matches(family, c, d.countdown)
  PROVE  Tried(r, c, y, d, TrySuperInstruction(family, c, d))
  <1>1. CASE MixAliased(c)
    <2>1. Alike(m, y)
      <3>1. CASE m = y
        BY <3>1 DEF Alike, OnItsWay
      <3>2. QED
        BY <3>1 DEF Agrees
    <2>2. family = "MixArithmetic" /\ d.countdown >= 6
      BY <1>1, MixOnly DEF MixAliased
    <2>3. QED
      BY <1>1, <2>1, <2>2, AliasedTried
  <1>2. CASE ~MixAliased(c)
    <2>1. m = y
      BY <1>2 DEF Agrees
    <2>2. AtBody(r, c, y, d)
      BY <2>1 DEF AtBody
    <2>3. QED
      BY <1>2, <2>2, WindowFamilies, CallFamilies, RoundFamilies DEF Families
  <1>3. QED
    BY <1>1, <1>2

-----------------------------------------------------------------------------
(* The inductive invariant of the driver *)

LoopWindow == countdown \in Nat /\ since \in Nat /\ since + countdown <= Interval + 1

LoopInv ==
  /\ loopCode \in Codes /\ range \in RangeSet
  /\ OnItsWay(range, loopCode, plain)
  /\ \/ Agrees(loopCode, fast, plain)
     \/ status = "running" /\ StopsAtEnd(loopCode, fast)
  /\ LoopWindow
  /\ status \in {"running", "cancelled"}

\* A step starts with a count, or with a check.
LEMMA Counting ==
  ASSUME IntervalAssumption, LoopWindow, NEW ok \in Nat, NEW d, d = Count(ok)
  PROVE  \/ Counted(d, fast)
         \/ /\ d.next = "cancelled" /\ d.m = fast /\ d.done = 0 /\ d.countdown = countdown
            /\ d.since = since
  <1>1. PICK s : s = [m |-> fast, countdown |-> countdown, since |-> since, done |-> 0,
                      ok |-> ok, next |-> "instruction"]
    OBVIOUS
  <1>2. CASE countdown > 0
    <2>1. d = [s EXCEPT !.countdown = @ - 1]
      BY <1>1, <1>2 DEF Count
    <2>2. QED
      BY <1>1, <1>2, <2>1 DEF Counted, IsStep, LoopWindow, IntervalAssumption
  <1>3. CASE ~(countdown > 0) /\ ok = 0
    <2>1. d = [s EXCEPT !.next = "cancelled"]
      BY <1>1, <1>3 DEF Count
    <2>2. QED
      BY <1>1, <2>1
  <1>4. CASE ~(countdown > 0) /\ ok # 0
    <2>1. d = [s EXCEPT !.countdown = Interval, !.since = 0, !.ok = @ - 1]
      BY <1>1, <1>4 DEF Count
    <2>2. QED
      <3>1. ok - 1 \in Nat
        BY <1>4
      <3>2. /\ d.m = fast /\ d.done = 0 /\ d.next = "instruction" /\ d.ok = ok - 1
            /\ d.countdown = Interval /\ d.since = 0 /\ IsStep(d)
        BY <1>1, <2>1 DEF IsStep
      <3>3. QED
        BY <3>1, <3>2 DEF Counted, IntervalAssumption
  <1>5. QED
    BY <1>2, <1>3, <1>4

\* A machine that can take a step agrees with that of the instructions.
LEMMA RunningAgrees ==
  ASSUME LoopInv, Running
  PROVE  Agrees(loopCode, fast, plain) /\ fast.pc = plain.pc /\ fast.pc \in 1 .. Len(loopCode)
  <1>1. Len(loopCode) \in Nat /\ DOMAIN loopCode = 1 .. Len(loopCode)
    BY CodeFacts DEF LoopInv
  <1>2. fast.pc \in 1 .. Len(loopCode)
    BY <1>1 DEF Running
  <1>3. ~StopsAtEnd(loopCode, fast)
    BY <1>1, <1>2 DEF StopsAtEnd
  <1>4. Agrees(loopCode, fast, plain)
    BY <1>3 DEF LoopInv
  <1>5. QED
    BY <1>2, <1>4 DEF Agrees, Alike

\* A step that a super-instruction takes keeps the invariant,
LEMMA LoopInvSuperInstruction ==
  ASSUME HalfAssumption, CapturedAssumption, IntervalAssumption, Checks \subseteq Nat, LoopInv,
         NEW family \in Families, SuperInstruction(family)
  PROVE  LoopInv'
  <1>1. PICK ok \in Checks :
          LET d == Count(ok) IN
            /\ d.next = "instruction"
            /\ Matches(family, loopCode, d.countdown)
            /\ Takes(TrySuperInstruction(family, loopCode, d))
    BY DEF SuperInstruction
  <1>2. PICK d : d = Count(ok)
    OBVIOUS
  <1>3. PICK t : t = TrySuperInstruction(family, loopCode, d)
    OBVIOUS
  <1>4. /\ d.next = "instruction" /\ Matches(family, loopCode, d.countdown)
        /\ t.next # "instruction" /\ Effect(t)
    BY <1>1, <1>2, <1>3 DEF Takes
  <1>5. Counted(d, fast)
    <2>1. ok \in Nat /\ LoopWindow
      BY DEF LoopInv
    <2>2. QED
      BY <1>2, <1>4, <2>1, Counting
  <1>6. /\ Agrees(loopCode, fast, plain) /\ plain.pc = 1 /\ OnItsWay(range, loopCode, plain)
        /\ loopCode \in Codes /\ range \in RangeSet
    BY RunningAgrees DEF LoopInv, SuperInstruction
  <1>7. Tried(range, loopCode, plain, d, t)
    BY <1>3, <1>4, <1>5, <1>6, SuperInstructionTried
  <1>8. PICK y : y = Instructions(loopCode, plain, t.done)
    OBVIOUS
  <1>9. /\ t.next \in {"handled", "cancelled"} /\ OnItsWay(range, loopCode, y)
        /\ Agrees(loopCode, t.m, y) \/ StopsAtEnd(loopCode, t.m)
        /\ t.next = "cancelled" => Agrees(loopCode, t.m, y)
        /\ t.countdown \in Nat /\ t.since \in Nat /\ t.since + t.countdown <= Interval + 1
    BY <1>4, <1>7, <1>8 DEF Tried, Executed, Counted
  <1>10. /\ fast' = t.m /\ plain' = y /\ countdown' = t.countdown /\ since' = t.since
         /\ status' = IF t.next = "cancelled" THEN "cancelled" ELSE "running"
         /\ loopCode' = loopCode /\ range' = range
    BY <1>4, <1>8 DEF Effect
  <1>11. OnItsWay(range, loopCode, plain)' 
    BY <1>9, <1>10 DEF OnItsWay, Within
  <1>12. \/ Agrees(loopCode', fast', plain')
         \/ status' = "running" /\ StopsAtEnd(loopCode', fast')
    BY <1>9, <1>10
  <1>13. QED
    BY <1>6, <1>9, <1>10, <1>11, <1>12 DEF LoopInv, LoopWindow, Agrees, StopsAtEnd

\* The instruction that is executed when no family takes the step.
LEMMA NotTaken ==
  ASSUME HalfAssumption, CapturedAssumption, IntervalAssumption, Checks \subseteq Nat, LoopInv,
         Running, NEW d, Counted(d, fast), NEW taken,
         taken = IF fast.pc # 1 THEN {}
                 ELSE {f \in Families : Matches(f, loopCode, d.countdown)},
         NEW f, taken # {} => f \in taken,
         NEW t, taken = {} => t = d, taken # {} => t = TrySuperInstruction(f, loopCode, d),
         t.next = "instruction"
  PROVE  Counted(t, fast)
  <1>1. CASE taken = {}
    BY <1>1
  <1>2. CASE taken # {}
    <2>1. f \in taken /\ t = TrySuperInstruction(f, loopCode, d)
      BY <1>2
    <2>2. f \in Families /\ Matches(f, loopCode, d.countdown) /\ fast.pc = 1
      BY <1>2, <2>1
    <2>3. Agrees(loopCode, fast, plain) /\ plain.pc = 1
      BY <2>2, RunningAgrees
    <2>4. Tried(range, loopCode, plain, d, t)
      BY <2>1, <2>2, <2>3, SuperInstructionTried DEF LoopInv
    <2>5. d.m = fast
      BY DEF Counted
    <2>6. QED
      BY <2>4, <2>5 DEF Tried
  <1>3. QED
    BY <1>1, <1>2

\* so does one that none takes,
LEMMA LoopInvInstruction ==
  ASSUME HalfAssumption, CapturedAssumption, IntervalAssumption, Checks \subseteq Nat, LoopInv,
         Instruction
  PROVE  LoopInv'
  <1>1. PICK ok \in Checks :
          LET d     == Count(ok)
              taken == IF fast.pc # 1 THEN {}
                       ELSE {f \in Families : Matches(f, loopCode, d.countdown)}
              tried == IF taken = {} THEN d
                       ELSE TrySuperInstruction(CHOOSE f \in taken : TRUE, loopCode, d)
          IN /\ d.next = "instruction" /\ tried.next = "instruction"
             /\ Effect([tried EXCEPT !.m = ExecuteInstruction(loopCode, fast), !.done = 1,
                                     !.since = @ + 1])
    BY DEF Instruction, Declines
  <1>2. PICK d : d = Count(ok)
    OBVIOUS
  <1>3. PICK taken : taken = IF fast.pc # 1 THEN {}
                             ELSE {f \in Families : Matches(f, loopCode, d.countdown)}
    OBVIOUS
  <1>4. PICK chosen : chosen = CHOOSE f \in taken : TRUE
    OBVIOUS
  <1>5. PICK t : t = IF taken = {} THEN d ELSE TrySuperInstruction(chosen, loopCode, d)
    OBVIOUS
  <1>6. PICK e : e = [t EXCEPT !.m = ExecuteInstruction(loopCode, fast), !.done = 1, !.since = @ + 1]
    OBVIOUS
  <1>7. d.next = "instruction" /\ t.next = "instruction" /\ Effect(e)
    BY <1>1, <1>2, <1>3, <1>4, <1>5, <1>6
  <1>8. taken # {} => chosen \in taken
    BY <1>4
  <1>9. Running
    BY DEF Instruction
  <1>10. Counted(d, fast)
    <2>1. ok \in Nat /\ LoopWindow
      BY DEF LoopInv
    <2>2. QED
      BY <1>2, <1>7, <2>1, Counting
  <1>11. Counted(t, fast)
    <2>1. (taken = {} => t = d) /\ (taken # {} => t = TrySuperInstruction(chosen, loopCode, d))
      BY <1>5
    <2>2. QED
      BY <1>3, <1>7, <1>8, <1>9, <1>10, <2>1, NotTaken
  <1>12. PICK x : x = ExecuteInstruction(loopCode, fast)
    OBVIOUS
  <1>13. /\ e.m = x /\ e.done = 1 /\ e.since = t.since + 1 /\ e.countdown = t.countdown
         /\ e.next = "instruction"
    BY <1>6, <1>11, <1>12 DEF Counted, IsStep
  <1>14. PICK y : y = ExecuteInstruction(loopCode, plain)
    OBVIOUS
  <1>15. Instructions(loopCode, plain, 1) = y
    <2>1. PICK n \in Nat : n = 0
      OBVIOUS
    <2>2. n + 1 = 1
      BY <2>1
    <2>3. /\ Instructions(loopCode, plain, 0) = plain
          /\ Instructions(loopCode, plain, n + 1) = ExecuteInstruction(loopCode, Instructions(loopCode, plain, n))
      BY InstructionsByOne
    <2>4. QED
      BY <1>14, <2>1, <2>2, <2>3
  <1>16. /\ fast' = x /\ plain' = y /\ countdown' = t.countdown /\ since' = t.since + 1
         /\ status' = "running" /\ loopCode' = loopCode /\ range' = range
    BY <1>7, <1>13, <1>15 DEF Effect
  <1>17. /\ Agrees(loopCode, fast, plain) /\ plain.pc \in 1 .. Len(loopCode)
         /\ OnItsWay(range, loopCode, plain) /\ loopCode \in Codes /\ range \in RangeSet
    BY <1>9, RunningAgrees DEF LoopInv
  <1>18. OnItsWay(range, loopCode, y)
    BY <1>14, <1>17, StepOnItsWay
  <1>19. Agrees(loopCode, x, y)
    <2>1. CASE fast = plain
      BY <1>12, <1>14, <2>1 DEF Agrees
    <2>2. CASE MixAliased(loopCode) /\ Alike(fast, plain)
      <3>1. MatchMix(loopCode) /\ Holds(plain, 0 .. 2)
        BY <1>17, <2>2 DEF MixAliased, OnItsWay
      <3>2. Alike(x, y)
        BY <1>12, <1>14, <1>17, <2>2, <3>1, AliasedStep
      <3>3. QED
        BY <2>2, <3>2 DEF Agrees
    <2>3. QED
      BY <1>17, <2>1, <2>2 DEF Agrees
  <1>20. OnItsWay(range', loopCode', plain') /\ Agrees(loopCode', fast', plain')
    BY <1>16, <1>18, <1>19
  <1>21. LoopWindow'
    BY <1>11, <1>16 DEF Counted, LoopWindow, IntervalAssumption
  <1>22. QED
    BY <1>16, <1>17, <1>20, <1>21 DEF LoopInv, OnItsWay, Within, Agrees, StopsAtEnd

\* and a check that fails.
LEMMA LoopInvCheckFails ==
  ASSUME IntervalAssumption, Checks \subseteq Nat, LoopInv, CheckFails
  PROVE  LoopInv'
  <1>1. PICK ok \in Checks : Count(ok).next = "cancelled" /\ Effect(Count(ok))
    BY DEF CheckFails
  <1>2. PICK d : d = Count(ok)
    OBVIOUS
  <1>3. d.next = "cancelled" /\ Effect(d)
    BY <1>1, <1>2
  <1>4. d.m = fast /\ d.done = 0 /\ d.countdown = countdown /\ d.since = since
    <2>1. ok \in Nat /\ LoopWindow
      BY DEF LoopInv
    <2>2. ~Counted(d, fast)
      BY <1>3 DEF Counted
    <2>3. QED
      BY <1>2, <2>1, <2>2, Counting
  <1>5. Instructions(loopCode, plain, 0) = plain
    BY InstructionsByOne
  <1>6. /\ fast' = fast /\ plain' = plain /\ countdown' = countdown /\ since' = since
        /\ status' = "cancelled" /\ loopCode' = loopCode /\ range' = range
    BY <1>3, <1>4, <1>5 DEF Effect
  <1>7. Agrees(loopCode, fast, plain) /\ OnItsWay(range, loopCode, plain)
    BY RunningAgrees DEF LoopInv, CheckFails
  <1>8. OnItsWay(range', loopCode', plain') /\ Agrees(loopCode', fast', plain')
    BY <1>6, <1>7
  <1>9. LoopWindow'
    BY <1>6 DEF LoopWindow, LoopInv
  <1>10. QED
    BY <1>6, <1>8, <1>9 DEF LoopInv, OnItsWay, Within, Agrees, StopsAtEnd

-----------------------------------------------------------------------------
(* The theorems *)

\* What the proofs use of the assumption on the constants.
LEMMA Assumed ==
  ASSUME LoopsAssumption
  PROVE  HalfAssumption /\ CapturedAssumption /\ IntervalAssumption /\ Checks \subseteq Nat
  BY DEF LoopsAssumption, HalfAssumption, CapturedAssumption, IntervalAssumption

\* A loop that is entered waits for its first FORLOOP, at what is before its
\* first value.
LEMMA Entering ==
  ASSUME HalfAssumption, NEW r \in RangeSet, NEW c \in Codes, NEW frame,
         frame.regs \in [FrameRegisters -> LoopValues], frame.table \in LoopTables,
         frame.upvalue \in LoopValues
  PROVE  OnItsWay(r, c, Enter(c, r, frame))
  <1> DEFINE m == Enter(c, r, frame)
             limit == forIntegerLimitValue(r.limit, r.step)
             before == Wrap(r.start - r.step)
             p == ForPrep(r)
  <1>1. r.start \in Integers64 /\ r.step \in Integers64 /\ r.start \in Int /\ r.step \in Int
        /\ limit \in Integers64 /\ before \in Integers64
    <2>1. r.start \in Integers64 /\ r.step \in Integers64
      BY DEF RangeSet
    <2>2. r.start \in Int /\ r.step \in Int
      BY <2>1, IntegersAreIntegers
    <2>3. QED
      BY <2>1, <2>2, LimitLets, WrapInRange
  <1> HIDE DEF limit, before
  <1>2. p[0] = IntegerValue(before) /\ p[1] = IntegerValue(limit) /\ p[2] = IntegerValue(r.step)
    BY DEF ForPrep, limit, before
  <1>3. \A x \in Integers64 : IntegerValue(x) \in LoopValues /\ IsInteger(IntegerValue(x))
                              /\ IntegerValue(x).n = x
    BY IntegerFacts
  <1>4. NoValue \in LoopValues
    BY DEF NoValue, LoopValues
  <1> HIDE DEF p
  <1>5. PICK regs : regs = [i \in FrameRegisters |-> CASE i \in 0 .. 2 -> p[i]
                                                       [] i = Visible -> NoValue
                                                       [] OTHER -> frame.regs[i]]
    OBVIOUS
  <1>6. m = [regs |-> regs, pc |-> Len(c), table |-> frame.table, upvalue |-> frame.upvalue]
    BY <1>5 DEF Enter, p
  <1> HIDE DEF m
  <1>7. regs[0] = p[0] /\ regs[1] = p[1] /\ regs[2] = p[2]
    <2>1. 0 \in FrameRegisters /\ 1 \in FrameRegisters /\ 2 \in FrameRegisters
          /\ 0 \in 0 .. 2 /\ 1 \in 0 .. 2 /\ 2 \in 0 .. 2
      BY DEF FrameRegisters
    <2>2. ASSUME NEW i \in FrameRegisters, i \in 0 .. 2
          PROVE  regs[i] = p[i]
      BY <1>5, <2>2 DEF Visible
    <2>3. QED
      BY <2>1, <2>2
  <1>8. regs \in [FrameRegisters -> LoopValues]
    <2>1. \A i \in FrameRegisters : (CASE i \in 0 .. 2 -> p[i] [] i = Visible -> NoValue
                                       [] OTHER -> frame.regs[i]) \in LoopValues
      <3>1. p[0] \in LoopValues /\ p[1] \in LoopValues /\ p[2] \in LoopValues
        BY <1>1, <1>2, <1>3
      <3>2. TAKE i \in FrameRegisters
      <3>3. i \in 0 .. 2 => i = 0 \/ i = 1 \/ i = 2
        OBVIOUS
      <3>4. QED
        BY <1>4, <3>1, <3>3
    <2>2. QED
      BY <1>5, <2>1
  <1>9. Len(c) \in Nat /\ Len(c) >= 1
    BY CodeFacts
  <1>10. /\ m.regs = regs /\ m.pc = Len(c) /\ m \in Machines
    BY <1>6, <1>8, <1>9 DEF Machines
  <1>11. /\ IsInteger(m.regs[0]) /\ IsInteger(m.regs[1]) /\ IsInteger(m.regs[2])
         /\ m.regs[0].n = before /\ m.regs[1].n = limit /\ m.regs[2].n = r.step
    BY <1>1, <1>2, <1>3, <1>7, <1>10
  <1>12. Holds(m, 0 .. 2)
    <2>1. \A i \in 0 .. 2 : i = 0 \/ i = 1 \/ i = 2
      OBVIOUS
    <2>2. QED
      BY <1>11, <2>1 DEF Holds
  <1>13. ~Wraps(r) => before = Before(r)
    BY WrapOfInteger DEF Wraps, Before, before
  <1>14. Within(r, c, m)
    <2>1. m.pc \notin 1 .. Len(c) - 1 /\ m.pc # Len(c) + 1
      BY <1>9, <1>10
    <2>2. QED
      BY <1>11, <1>13, <2>1 DEF Within
  <1>15. m.pc \in 0 .. Len(c) + 1 /\ ~(m.pc = 1 /\ Len(c) > 1)
    <2>1. PICK n \in Nat : n = Len(c)
      BY <1>9
    <2>2. n \in 0 .. n + 1 /\ ~(n = 1 /\ n > 1)
      OBVIOUS
    <2>3. QED
      BY <1>10, <2>1, <2>2
  <1>16. OnItsWay(r, c, m)
    BY <1>10, <1>11, <1>12, <1>14, <1>15 DEF OnItsWay, limit
  <1>17. QED
    BY <1>16 DEF m

\* A loop that is entered has the invariant,
LEMMA LoopInvInit ==
  ASSUME LoopsAssumption, LoopInit
  PROVE  LoopInv
  <1>1. PICK body \in Bodies : loopCode = body \o <<ForLoop>>
    BY DEF LoopInit
  <1>2. PICK frame \in Frames(loopCode) : fast = Enter(loopCode, range, frame)
    BY DEF LoopInit
  <1>3. body \in Seq(BodyInstructions)
    BY DEF LoopsAssumption
  <1>4. loopCode \in Codes
    BY <1>1, <1>3 DEF Codes
  <1>5. range \in RangeSet
    BY DEF LoopInit, LoopsAssumption, RangeSet
  <1>6. /\ frame.regs \in [FrameRegisters -> LoopValues] /\ frame.table \in LoopTables
        /\ frame.upvalue \in LoopValues
    BY <1>1, <1>2 DEF LoopsAssumption
  <1>7. OnItsWay(range, loopCode, fast)
    BY <1>2, <1>4, <1>5, <1>6, Assumed, Entering
  <1>8. fast = plain /\ status = "running"
    BY DEF LoopInit
  <1>9. LoopWindow
    <2>1. /\ countdown \in Nat /\ countdown <= Interval /\ since = Interval + 1 - countdown
          /\ Interval \in Nat
      BY DEF LoopInit, LoopsAssumption
    <2>2. QED
      BY <2>1 DEF LoopWindow
  <1>10. QED
    BY <1>4, <1>5, <1>7, <1>8, <1>9 DEF LoopInv, Agrees

\* and every step keeps it.
LEMMA LoopInvNext ==
  ASSUME LoopsAssumption, LoopInv, [LoopNext]_loopVars
  PROVE  LoopInv'
  <1>1. HalfAssumption /\ CapturedAssumption /\ IntervalAssumption /\ Checks \subseteq Nat
    BY Assumed
  <1>2. CASE Instruction
    BY <1>1, <1>2, LoopInvInstruction
  <1>3. CASE CheckFails
    BY <1>1, <1>3, LoopInvCheckFails
  <1>4. CASE \E f \in Families : SuperInstruction(f)
    BY <1>1, <1>4, LoopInvSuperInstruction
  <1>5. CASE UNCHANGED loopVars
    <2>1. /\ loopCode' = loopCode /\ range' = range /\ fast' = fast /\ plain' = plain
          /\ countdown' = countdown /\ since' = since /\ status' = status
      BY <1>5 DEF loopVars
    <2>2. OnItsWay(range', loopCode', plain')
      BY <2>1 DEF LoopInv
    <2>3. Agrees(loopCode', fast', plain') \/ (status' = "running" /\ StopsAtEnd(loopCode', fast'))
      BY <2>1 DEF LoopInv
    <2>4. LoopWindow'
      BY <2>1 DEF LoopInv, LoopWindow
    <2>5. QED
      BY <2>1, <2>2, <2>3, <2>4 DEF LoopInv, OnItsWay, Within, Agrees, StopsAtEnd
  <1>6. QED
    BY <1>2, <1>3, <1>4, <1>5 DEF LoopNext

\* The driver's machine is that of the instructions it has counted, but for
\* the registers of an aliased Mix body and a loop that two super-
\* instructions leave at the end of the integers; the machine of the
\* instructions is on its way through its range, and the window of the next
\* check is kept (runtime/vm.go, TryExecute...ForLoop...; lua/api.go,
\* contextCheckCountdown).
THEOREM LoopInvHolds == ASSUME LoopsAssumption PROVE LoopSpec => []LoopInv
  <1>1. LoopInit => LoopInv
    BY LoopInvInit
  <1>2. LoopInv /\ [LoopNext]_loopVars => LoopInv'
    BY LoopInvNext
  <1>3. QED
    BY <1>1, <1>2, PTL DEF LoopSpec

\* No more than Interval + 1 instructions run between two checks, for any
\* interval, however many of them a super-instruction takes at once
\* (lua/api.go, contextCheckCountdown).
THEOREM WindowHolds == ASSUME LoopsAssumption PROVE LoopSpec => []WindowKept
  <1>1. LoopInv => WindowKept
    BY DEF LoopInv, LoopWindow, WindowKept
  <1>2. QED
    BY <1>1, LoopInvHolds, PTL

\* A super-instruction leaves the registers, the upvalue, the table and the
\* pc as the instructions it stands for would have, for every body that is
\* recognised, every aliasing of its operands but one, integers of any width
\* and every limit but those at their end (runtime/vm.go,
\* TryExecute...ForLoop...).
THEOREM BatchHolds == ASSUME LoopsAssumption PROVE LoopSpec => []BatchIsInstructions
  <1>1. LoopInv => BatchIsInstructions
    BY DEF LoopInv, Agrees, BatchIsInstructions
  <1>2. QED
    BY <1>1, LoopInvHolds, PTL

\* A batch that a cancellation stops leaves the state of the instruction
\* boundary where the check failed (runtime/vm.go,
\* commitStringAppendForLoopState,
\* commitFunctionCallAssignForLoopBatchRegisters).
THEOREM CancellationHolds == ASSUME LoopsAssumption PROVE LoopSpec => []CancelledBetweenInstructions
  <1>1. LoopInv => CancelledBetweenInstructions
    BY DEF LoopInv, Agrees, CancelledBetweenInstructions
  <1>2. QED
    BY <1>1, LoopInvHolds, PTL

\* A loop that does not wrap visits the values of its range, from the first
\* on, and ends on the last, for any start, step and limit (runtime/vm.go,
\* FORPREP, FORLOOP, forIntegerLimitValue).
THEOREM RangeHolds == ASSUME LoopsAssumption PROVE LoopSpec => []RangeKept
  <1>1. LoopInv => RangeKept
    BY DEF LoopInv, OnItsWay, Within, RangeKept
  <1>2. QED
    BY <1>1, LoopInvHolds, PTL
=============================================================================
