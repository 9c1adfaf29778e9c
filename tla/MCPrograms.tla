----------------------------- MODULE MCPrograms -----------------------------
(* Programs on Machine, against what they mean.                             *)
EXTENDS Programs, Machine
LOCAL INSTANCE SequencesExt

CONSTANT Outcomes  \* what each program is to emit, and whether it is to fail then
Meanings == Outcomes \o <<>>

ThePrograms        == LET programs == Loaded IN programs
TheOutcomes        == LET outcomes == Expected IN outcomes
TheOverwrittenLoop == LET programs == LoadedLoop IN programs

(* A program emits what the manual says, no more and in that order, and    *)
(* comes to its end or, if it is to fail, to an error; a text that is no   *)
(* program emits nothing.                                                  *)
RunsAsWritten ==
  LET meaning == Meanings[program]
  IN /\ IsPrefix(output, meaning.output)
     /\ frames = <<>> /\ ~failed => output = meaning.output /\ ~meaning.fails
     /\ failed => output = meaning.output /\ meaning.fails

\* Nothing else may stop a program.
Rest == ~Running /\ UNCHANGED vars

ProgramsSpec == Init /\ [][Next \/ Rest]_vars /\ Fairness
=============================================================================
