------------------------------ MODULE MCWrites ------------------------------
(* Two callers on a device of a few data blocks.                           *)
EXTENDS Writes

CONSTANTS c1, c2

Callers_MC == {c1, c2}
=============================================================================
