------------------------------ MODULE MCLanes ------------------------------
(* Threads on the lanes of a small machine.                                *)
EXTENDS Lanes, TLC

CONSTANTS t1, t2, t3

Threads_MC == {t1, t2, t3}
Interchangeable == Permutations(Threads_MC)
=============================================================================
