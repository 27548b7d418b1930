---------------------------- MODULE MCIntentLog ----------------------------
(* Two writers that run the same code are interchangeable.                 *)
EXTENDS IntentLog, TLC

CONSTANTS w1, w2

Writers_MC == {w1, w2}
Interchangeable == Permutations(Writers_MC)
=============================================================================
