------------------------------- MODULE MCMkfs -------------------------------
(* Targets for the formatter: a clean image with one file, a device that   *)
(* was a member of a pool, and a file just created.                        *)
EXTENDS Mkfs, MCImages

Targets_MC == {[device |-> FALSE, disk |-> OneFile(11)],
               [device |-> TRUE, disk |-> PoolMember(11)],
               [device |-> FALSE, disk |-> Blank(0)]}
=============================================================================
