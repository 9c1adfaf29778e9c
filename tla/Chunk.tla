------------------------------- MODULE Chunk -------------------------------
(***************************************************************************)
(* Binary chunks (bytecode): what string.dump and luac write, and load     *)
(* reads.  A chunk is the sequence of the fields the Go code appends and   *)
(* reads one after the other.  A reader is what it reads from and where it *)
(* stands; what reads a field gives its value, and the reader behind it.   *)
(*                                                                         *)
(* Abstracted: the bytes of a field, and with them every damage that leaves*)
(* fields of other types; where the text of a program stands: all of it is *)
(* on one line of one file.                                                *)
(***************************************************************************)
EXTENDS Codegen
LOCAL INSTANCE SequencesExt
LOCAL INSTANCE FiniteSetsExt

-----------------------------------------------------------------------------
(* Constant tables.  Code in a chunk refers to constants by index. *)

\* The operands of an instruction that may be constants.
OpArgK(op) ==
  CASE op \in {ArithmeticOp[o] : o \in DOMAIN ArithmeticOp} \cup {"EQ", "LT", "LE", "SETTABLE", "SETTABUP"} -> <<"b", "c">>
    [] op \in {"GETTABLE", "GETTABUP", "SELF"} -> <<"c">>
    [] op = "LOADK" -> <<"b">>
    [] OTHER -> <<>>

IsK(i, field) == Contains(OpArgK(i.op), field) /\ i[field].constant

addConstant(constants, v) == IF Contains(constants, v) THEN constants ELSE Append(constants, v)

ConstantsOf(code) ==
  LET Of(i) == SelectSeq(OpArgK(i.op), LAMBDA field : i[field].constant)
      Add(constants, i) == FoldLeft(LAMBDA cs, field : addConstant(cs, i[field].value), constants, Of(i))
  IN FoldLeft(Add, <<>>, code)

RKAsK(index) == [constant |-> TRUE, index |-> index]

Encode(i, constants) ==
  [field \in DOMAIN i |-> IF field \in {"b", "c"} /\ IsK(i, field)
                          THEN RKAsK(SelectInSeq(constants, LAMBDA v : v = i[field].value)) ELSE i[field]]

constantToValue(i, constants) ==
  [field \in DOMAIN i |-> IF field \in {"b", "c"} /\ IsK(i, field) THEN K(constants[i[field].index]) ELSE i[field]]

\* What the generator would have left, had it a constant table and lines.
RECURSIVE Listed(_)
Listed(proto) ==
  LET constants == ConstantsOf(proto.code)
  IN [proto EXCEPT !.code = [n \in DOMAIN @ |-> Encode(@[n], constants)],
                   !.protos = [n \in DOMAIN @ |-> Listed(@[n])]]
     @@ [constants |-> constants, source |-> "chunk", lineInfo |-> [n \in DOMAIN proto.code |-> 1]]

RECURSIVE Decoded(_)
Decoded(proto) ==
  [proto EXCEPT !.code = [n \in DOMAIN @ |-> constantToValue(@[n], proto.constants)],
                !.protos = [n \in DOMAIN @ |-> Decoded(@[n])]]

RECURSIVE StripDebug(_)
StripDebug(proto) ==
  [proto EXCEPT !.source = "", !.lineInfo = <<>>,
                !.localVars = [n \in DOMAIN @ |-> [@[n] EXCEPT !.name = ""]],
                !.upvalues = [n \in DOMAIN @ |-> [@[n] EXCEPT !.name = ""]],
                !.protos = [n \in DOMAIN @ |-> StripDebug(@[n])]]

-----------------------------------------------------------------------------
(* Writing. *)

\* Of the signature and of LUAC_DATA the first byte, of 370.5 the integer.
ChunkHeader == <<27, 83, 0, 25, 4, 8, 4, 8, 8, 22136, 370>>

\* A string is its size and its text; none is a size of 0.
appendNullableLuaString(s) == IF s = "" THEN <<0>> ELSE <<1, s>>

Appended(fields) == <<Len(fields)>> \o FlattenSeq(fields)

AppendConstants(constants) ==
  LET Tag(v) == CASE v = NilValue -> <<0>> [] v[1] = "boolean" -> <<1, v[2]>>
                  [] v[1] = "integer" -> <<19, v[2]>> [] v[1] = "number" -> <<3, v[2]>> [] v[1] = "string" -> <<4, 1, v[2]>>
  IN Appended([n \in DOMAIN constants |-> Tag(constants[n])])

appendUpvalues(upvalues) ==
  Appended([n \in DOMAIN upvalues |-> <<IF upvalues[n].inStack THEN 1 ELSE 0, upvalues[n].index>>])

appendDebug(proto) ==
  <<Len(proto.lineInfo)>> \o proto.lineInfo
  \o Appended([n \in DOMAIN proto.localVars |->
                appendNullableLuaString(proto.localVars[n].name)
                \o <<proto.localVars[n].start, proto.localVars[n].end>>])
  \o Appended([n \in DOMAIN proto.upvalues |-> appendNullableLuaString(proto.upvalues[n].name)])

\* A function from its parent's source does not repeat it.
RECURSIVE appendProtoWithParentSource(_, _)
appendProtoWithParentSource(proto, parentSource) ==
  appendNullableLuaString(IF proto.source = parentSource THEN "" ELSE proto.source)
  \o <<proto.params, IF proto.vararg THEN 1 ELSE 0, proto.maxStackSize>>
  \o <<Len(proto.code)>> \o proto.code
  \o AppendConstants(proto.constants)
  \o appendUpvalues(proto.upvalues)
  \o Appended([n \in DOMAIN proto.protos |-> appendProtoWithParentSource(proto.protos[n], proto.source)])
  \o appendDebug(proto)

DumpBinaryChunk(proto) ==
  ChunkHeader \o <<Len(proto.upvalues)>> \o appendProtoWithParentSource(proto, "")

-----------------------------------------------------------------------------
(* Reading.  A field that is not there, or cannot be, ends it. *)

Value(v, r) == [value |-> v, r |-> r]
Broken(r)   == [r EXCEPT !.ok = FALSE]

Read(r) ==
  IF r.ok /\ r.at <= Len(r.input) THEN Value(r.input[r.at], [r EXCEPT !.at = @ + 1]) ELSE Value(0, Broken(r))

readExpectedSize(expected, r) ==
  LET x == Read(r) IN IF x.r.ok /\ x.value = expected THEN x.r ELSE Broken(x.r)

LoadChunkHeader(r) == FoldLeft(LAMBDA t, field : readExpectedSize(field, t), r, ChunkHeader)

\* n values, as long as they can be read.
Several(n, r, Load(_)) ==
  LET More(x, k) ==
        IF ~x.r.ok THEN x ELSE LET y == Load(x.r) IN Value(Append(x.value, y.value), y.r)
  IN FoldLeft(More, Value(<<>>, r), [k \in 1 .. n |-> k])

readCount(r) ==
  LET n == Read(r) IN IF n.r.ok /\ n.value >= 0 THEN n ELSE Value(0, Broken(n.r))

\* n fields of one kind are taken at once.
readFields(r) ==
  LET n    == readCount(r)
      next == n.r.at + n.value
  IN IF n.r.ok /\ next <= Len(r.input) + 1 THEN Value(SubSeq(r.input, n.r.at, next - 1), [n.r EXCEPT !.at = next])
     ELSE Value(<<>>, Broken(n.r))

Many(r, Load(_)) == LET n == readCount(r) IN Several(n.value, n.r, Load)

readNullableLuaString(r) ==
  LET size == Read(r)
      text == Read(size.r)
  IN IF size.value # 0 /\ text.r.ok THEN text ELSE Value("", IF size.value = 0 THEN size.r ELSE text.r)

loadConstant(r) ==
  LET tag == Read(r)
      x   == Read(IF tag.value = 4 THEN Read(tag.r).r ELSE tag.r)
  IN CASE tag.value = 0  -> Value(NilValue, tag.r)
       [] tag.value = 1  -> Value(Boolean(x.value), x.r)
       [] tag.value = 3  -> Value(Float(x.value), x.r)
       [] tag.value = 19 -> Value(Number(x.value), x.r)
       [] tag.value = 4  -> Value(String(x.value), x.r)
       [] OTHER          -> Value(NilValue, Broken(tag.r))

loadUpvalue(r) ==
  LET inStack == Read(r)
      index   == Read(inStack.r)
  IN Value([name |-> "", inStack |-> inStack.value # 0, index |-> index.value], index.r)

(* A chunk does not say in which register a local lives: that is guessed.  *)

SetsA(op) == op \notin {"SETTABUP", "SETUPVAL", "SETTABLE", "JMP", "EQ", "LT", "LE", "TEST",
                        "RETURN", "TFORCALL", "SETLIST"}

loadedLocalRegisterFromStartInstruction(v, code, shared) ==
  LET places == SelectSeq(IF shared THEN <<v.start - 1>> ELSE <<v.start, v.start - 1>>,
                          LAMBDA pc : pc + 1 \in DOMAIN code /\ code[pc + 1].op = "CLOSURE")
  IN IF places = <<>> THEN <<>> ELSE <<code[places[1] + 1].a>>

loadedLocalRegisterFromInitializerLine(v, code, lineInfo, active) ==
  LET line == {n \in DOMAIN lineInfo : /\ v.start \in DOMAIN lineInfo /\ n <= v.start
                                       /\ \A k \in n .. v.start : lineInfo[k] = lineInfo[v.start]}
      free == {code[n].a : n \in {k \in line : SetsA(code[k].op)}} \ DOMAIN active
  IN IF free = {} THEN <<>> ELSE <<Min(free)>>

assignLoadedLocalRegisters(localVars, code, lineInfo) ==
  LET Shared(v) == \E n, k \in DOMAIN localVars : n # k /\ {localVars[n].start, localVars[k].start} = {v.start}
      Guess(x, v) ==
        LET active == [register \in {q \in DOMAIN x.active : x.active[q] > v.start} |-> x.active[register]]
            known  == loadedLocalRegisterFromStartInstruction(v, code, Shared(v))
                      \o loadedLocalRegisterFromInitializerLine(v, code, lineInfo, active)
                      \o <<Min(0 .. Cardinality(DOMAIN active) \ DOMAIN active)>>
        IN [vars |-> Append(x.vars, [v EXCEPT !.register = known[1]]), active |-> (known[1] :> v.end) @@ active]
  IN FoldLeft(Guess, [vars |-> <<>>, active |-> <<>>], localVars).vars

loadLocalVar(r) ==
  LET name  == readNullableLuaString(r)
      start == Read(name.r)
      end   == Read(start.r)
  IN Value([name |-> name.value, register |-> 0, start |-> start.value, end |-> end.value], end.r)

loadDebug(proto, r) ==
  LET lines  == readFields(r)
      locals == Many(lines.r, loadLocalVar)
      count  == readCount(locals.r)
      names  == Several(count.value, count.r, readNullableLuaString)
      Named(u, n) == IF n \in DOMAIN names.value THEN [u EXCEPT !.name = names.value[n]] ELSE u
  IN IF ~lines.r.ok \/ ~locals.r.ok \/ ~count.r.ok \/ count.value > Len(proto.upvalues) THEN Value(proto, Broken(r))
     ELSE Value([proto EXCEPT !.localVars = assignLoadedLocalRegisters(locals.value, proto.code, lines.value),
                              !.lineInfo = lines.value,
                              !.upvalues = [n \in DOMAIN @ |-> Named(@[n], n)]], names.r)

RECURSIVE loadProto(_, _)
loadProto(r, parentSource) ==
  LET name      == readNullableLuaString(r)
      source    == IF name.value = "" THEN parentSource ELSE name.value
      params    == Read(name.r)
      vararg    == Read(params.r)
      max       == Read(vararg.r)
      code      == readFields(max.r)
      constants == Many(code.r, loadConstant)
      upvalues  == Many(constants.r, loadUpvalue)
      protos    == Many(upvalues.r, LAMBDA t : loadProto(t, source))
      proto     == [params |-> params.value, vararg |-> vararg.value # 0, maxStackSize |-> max.value,
                    code |-> code.value, constants |-> constants.value, upvalues |-> upvalues.value,
                    protos |-> protos.value, source |-> source, lineInfo |-> <<>>, localVars |-> <<>>,
                    rejected |-> FALSE]
  IN IF max.r.ok /\ code.r.ok /\ constants.r.ok /\ upvalues.r.ok /\ protos.r.ok
     THEN loadDebug(proto, protos.r) ELSE Value(proto, Broken(r))

RECURSIVE fillMissingProtoSource(_, _)
fillMissingProtoSource(proto, source) ==
  LET own == IF proto.source = "" THEN source ELSE proto.source
  IN [proto EXCEPT !.source = own, !.protos = [n \in DOMAIN @ |-> fillMissingProtoSource(@[n], own)]]

LoadBinaryChunk(input) ==
  LET header == LoadChunkHeader([input |-> input, at |-> 1, ok |-> TRUE])
      count  == Read(header)
      main   == loadProto(count.r, "")
  IN IF ~header.ok \/ ~main.r.ok \/ count.value # Len(main.value.upvalues) THEN [rejected |-> TRUE]
     ELSE Decoded(IF main.value.source = "" THEN fillMissingProtoSource(main.value, "=?") ELSE main.value)
=============================================================================
