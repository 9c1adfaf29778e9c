---------------------------- MODULE MCCoroutine ----------------------------
(* Coroutine on three interchangeable threads. *)
EXTENDS Coroutine, TLC

Symmetry == Permutations(Threads)
=============================================================================
