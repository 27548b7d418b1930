----------------------------- MODULE Intervals -----------------------------
(***************************************************************************)
(* Runs of blocks, as aetherfsprogs/image.c keeps them in its interval     *)
(* lists.  The C code identifies an interval by its position in a list;    *)
(* here that position is the field id, so that a list is a set and two     *)
(* equal runs noted twice stay two elements.                               *)
(***************************************************************************)
EXTENDS Integers

Interval(i, s, l) == [id |-> i, start |-> s, len |-> l]

(* The blocks of an interval, without wrap-around.                         *)
Covers(i, b) == i.start <= b /\ b < i.start + i.len

(***************************************************************************)
(* What an allocation map promises about the blocks lo..hi-1: no interval  *)
(* leaves the range, and every block is in exactly one of them.            *)
(***************************************************************************)
InRange(S, lo, hi) == \A i \in S : lo <= i.start /\ i.start + i.len <= hi

CoveredOnce(S, lo, hi) ==
    \A b \in lo .. (hi - 1) :
        \E i \in S : Covers(i, b) /\ \A j \in S : Covers(j, b) => j = i

ExactTiling(S, lo, hi) == InRange(S, lo, hi) /\ CoveredOnce(S, lo, hi)
=============================================================================
