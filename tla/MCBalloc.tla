------------------------------ MODULE MCBalloc ------------------------------
(* Interchangeable callers of the allocator.                               *)
EXTENDS Balloc, TLC

CONSTANTS c1, c2

Callers_MC == {c1, c2}
Interchangeable == Permutations(Callers_MC)
=============================================================================
