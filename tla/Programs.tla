------------------------------ MODULE Programs ------------------------------
(* The programs of ProgramFamilies and TextFamilies as Load leaves them,    *)
(* from their tokens on, and what they are to do.                           *)
EXTENDS Luac, TextFamilies
LOCAL INSTANCE SequencesExt

Reader == INSTANCE Analyzer
Manual == INSTANCE Source
File == INSTANCE Chunk

\* A chunk that is not well-formed never runs.
Load(tokens) ==
  LET chunk == Reader!ParseChunk(tokens, FALSE)
  IN IF chunk.ok THEN CompileChunk(chunk.block) ELSE [rejected |-> TRUE]

\* A chunk need not come from this compiler: a last RETURN of nothing may go.
RECURSIVE WithoutLastReturn(_)
WithoutLastReturn(p) ==
  [p EXCEPT !.code = IF Last(@).op = "RETURN" /\ Last(@).b = 1 THEN Front(@) ELSE @,
            !.protos = [n \in DOMAIN @ |-> WithoutLastReturn(@[n])]]

DumpOf(p, stripped) ==
  LET proto == File!Listed(p)
  IN File!DumpBinaryChunk(IF stripped THEN File!StripDebug(proto) ELSE proto)

\* A chunk cut off behind every field, one with another header, with a count
\* that is too high or negative; or with something behind its end.
DamagedCases ==
  LET length == Len(DumpOf(Load(WriteBlock(Dumped)), FALSE))
      header == Len(File!ChunkHeader)
      Of(how, places) == [n \in 1 .. Len(places) |-> <<"damaged", how, places[n]>>]
  IN Of("cut", [n \in 1 .. length |-> n - 1])
     \o Of("other", [n \in 1 .. header |-> n])
     \o Of("negative", <<header + 1, header + 7, length>>) \o Of("more", <<header + 1, length, length + 1>>)

Damaged(how, n, chunk) ==
  CASE how = "cut"   -> SubSeq(chunk, 1, n)
    [] how = "other" -> [chunk EXCEPT ![n] = @ + 1]
    [] how = "negative" -> [chunk EXCEPT ![n] = -1]
    [] how = "more"  -> IF n \in DOMAIN chunk THEN [chunk EXCEPT ![n] = @ + 1] ELSE Append(chunk, 0)
Harmless(c) == c[2] = "more" /\ c[3] = Len(DumpOf(Load(WriteBlock(Dumped)), FALSE)) + 1

AllCases == Cases \o NumberCases \o TextCases \o DamagedCases

Compiled(c) ==
  CASE c[1] = "luac"     -> ProtoFromBytes([binary |-> FALSE, tokens |-> Text(c)], c[3])
    [] c[1] = "combined" ->
         LET files == CombinedForms[c[2]]
             Input(b) == LET chunk == CompileSource(WriteBlock(b), TRUE)
                         IN IF ~c[3] \/ chunk.rejected THEN [binary |-> FALSE, tokens |-> WriteBlock(b)]
                            ELSE [binary |-> TRUE, fields |-> DumpOf(chunk, FALSE)]
         IN CombineProtos([i \in DOMAIN files |-> ProtoFromBytes(Input(files[i]), TRUE)] \o <<>>)
    [] c[1] = "chunk"    -> LET p == Load(Text(c))
                            IN IF p.rejected THEN p
                               ELSE File!LoadBinaryChunk(DumpOf(
                                      IF c[2] = "open" THEN WithoutLastReturn(p) ELSE p,
                                      c[2] = "stripped"))
    [] c[1] = "damaged"  -> File!LoadBinaryChunk(Damaged(c[2], c[3], DumpOf(Load(Text(c)), FALSE)))
    [] OTHER             -> Load(Text(c))

Rejected == [output |-> <<>>, fails |-> TRUE]
OutcomeOf(c) ==
  CASE ~WellFormed(c)                     -> Rejected
    [] c[1] = "damaged" /\ ~Harmless(c)   -> Rejected
    [] ~Manual!Legal(TreeOf(c))           -> Rejected
    [] OTHER                              -> Manual!Meaning(TreeOf(c))

\* Definitions without parameters are evaluated once, when TLC starts.
Loaded   == LET cases == AllCases IN [i \in DOMAIN cases |-> Compiled(cases[i])] \o <<>>
Expected == LET cases == AllCases IN [i \in DOMAIN cases |-> OutcomeOf(cases[i])] \o <<>>
LoadedLoop == LET programs == <<OverwrittenLoop>>
              IN [i \in DOMAIN programs |-> Load(WriteBlock(programs[i]))] \o <<>>
=============================================================================
