---------------------------- MODULE MCCoverage -----------------------------
(* Coverage on words of six values, so that sums wrap often: an image whose *)
(* data region has three blocks.                                           *)
EXTENDS Coverage

Sizes_MC == {DataStart + 3}
Counts_MC == {0, 1, 2}
=============================================================================
