-------------------------------- MODULE Luac --------------------------------
(***************************************************************************)
(* The luac command (internal/luac): a source that has the shape of its    *)
(* benchmark is compiled without parser and generator, every other one the *)
(* ordinary way, but with the simplest functions taken out; several become *)
(* one chunk that calls them in turn.                                      *)
(*                                                                         *)
(* Abstracted: layout.  lined says that every statement is on a line of    *)
(* its own, as the short way wants it; _ENV, which all the chunks get from *)
(* the one around them.                                                    *)
(***************************************************************************)
EXTENDS Codegen
LOCAL INSTANCE SequencesExt
LOCAL Reader == INSTANCE Analyzer
LOCAL File == INSTANCE Chunk

MainProto(vararg, code, protos) ==
  Proto([newGenerator(0, vararg, TRUE) EXCEPT !.code = code, !.protos = protos, !.max = 2])

-----------------------------------------------------------------------------
(* The short way reads characters: what is a keyword elsewhere is a name   *)
(* here.                                                                   *)

IsWord(t)    == t[1] \in {"identifier", "keyword"}
IsIntegerToken(t) == t[1] = "literal" /\ t[2][1] = "integer"

\* function name(x) return x + k end
parseSimpleFunctionDefinition(ts) ==
  /\ ts[1] = Reader!Keyword("function") /\ IsWord(ts[2])
  /\ ts[3] = Reader!Op("(") /\ IsWord(ts[4]) /\ ts[5] = Reader!Op(")")
  /\ ts[6] = Reader!Keyword("return") /\ IsWord(ts[7]) /\ ts[7][2] = ts[4][2]
  /\ ts[8] = Reader!Op("+") /\ IsIntegerToken(ts[9])
  /\ ts[10] = Reader!Keyword("end")

\* return name(k)
parseSimpleFunctionReturnCall(ts) ==
  /\ ts[1] = Reader!Keyword("return") /\ IsWord(ts[2])
  /\ ts[3] = Reader!Op("(") /\ IsIntegerToken(ts[4]) /\ ts[5] = Reader!Op(")")

appendGlobalNameStore(f) == I("SETTABUP", 0, K(Key(f[2][2])), R(0))
appendGlobalNameLoad(ts) == I("GETTABUP", 0, 0, K(Key(ts[2][2])))

simpleFunctionStreamFunction(f) ==
  Proto([newGenerator(1, FALSE, TRUE) EXCEPT
           !.code = <<I("ADD", 1, R(0), K(f[9][2])), I("RETURN", 1, 2, 0)>>,
           !.localVars = <<[name |-> f[4][2], register |-> 0, start |-> 0, end |-> 2]>>,
           !.max = 2])

buildSimpleFunctionStreamProto(functions, call) ==
  MainProto(TRUE,
    FlattenSeq([i \in DOMAIN functions |-> <<I("CLOSURE", 0, i, 0), appendGlobalNameStore(functions[i])>>])
      \o <<appendGlobalNameLoad(call), I("LOADK", 1, K(call[4][2]), 0),
           I("TAILCALL", 0, 2, 0), I("RETURN", 0, 0, 0)>>,
    [i \in DOMAIN functions |-> simpleFunctionStreamFunction(functions[i])])

\* Ten tokens for each function, five for the call, which is of one of them.
compileSimpleFunctionStreamChunk(tokens, lined) ==
  LET n         == (Len(tokens) - 5) \div 10
      functions == [i \in 1 .. n |-> SubSeq(tokens, 10 * i - 9, 10 * i)]
      call      == SubSeq(tokens, 10 * n + 1, Len(tokens))
  IN IF /\ lined /\ n >= 1 /\ Len(tokens) = 10 * n + 5
        /\ \A i \in 1 .. n : parseSimpleFunctionDefinition(functions[i])
        /\ parseSimpleFunctionReturnCall(call)
        /\ \E i \in 1 .. n : functions[i][2][2] = call[2][2]
     THEN <<buildSimpleFunctionStreamProto(functions, call)>>
     ELSE <<>>

CompileSource(tokens, lined) ==
  LET stream == compileSimpleFunctionStreamChunk(tokens, lined)
      chunk  == Reader!ParseChunk(tokens, TRUE)
  IN CASE stream # <<>> -> stream[1]
       [] chunk.ok      -> CompileChunk(chunk.block)
       [] OTHER         -> [rejected |-> TRUE]

ProtoFromBytes(input, lined) ==
  IF input.binary THEN File!LoadBinaryChunk(input.fields) ELSE CompileSource(input.tokens, lined)

-----------------------------------------------------------------------------

\* Nothing is written unless all of them compile.
CombineProtos(protos) ==
  IF \E i \in DOMAIN protos : protos[i].rejected THEN [rejected |-> TRUE]
  ELSE MainProto(FALSE,
         FlattenSeq([i \in DOMAIN protos |-> <<I("CLOSURE", 0, i, 0), I("CALL", 0, 1, 1)>>])
           \o <<I("RETURN", 0, 1, 0)>>,
         protos)
=============================================================================
