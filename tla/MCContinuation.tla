--------------------------- MODULE MCContinuation ---------------------------
(* Continuation on interchangeable coroutines. *)
EXTENDS Continuation, TLC

Symmetry == Permutations(Threads)

\* A continuation saved for the wrong coroutine may never be taken, so that
\* the chains of the delicate shapes grow without bound.
ShortChains == \A t \in Threads : Len(Chain(t)) <= MaxDepth
=============================================================================
