------------------------------- MODULE MCMount -------------------------------
(* A clean image, a member of a pool, and a file too short for the         *)
(* bootstrap blocks.                                                       *)
EXTENDS Mount, MCImages

Images_MC == {OneFile(12), PoolMember(12), Blank(3)}
=============================================================================
