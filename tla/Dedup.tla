-------------------------------- MODULE Dedup --------------------------------
(***************************************************************************)
(* The block table of kernel/reflink.c: for each checksum the number of    *)
(* blocks that share its entry.  The table has a lock.  dd_enabled and     *)
(* dd_mode are tested before it is taken, and a switch of deduplication    *)
(* changes them one after the other.  A call that deduplication is off for *)
(* returns 0 like one that was counted; the release that follows does not  *)
(* ask.                                                                    *)
(*                                                                         *)
(* A user stands for one block between dedup_block and dedup_release.  The *)
(* block number of an entry and the statistics are left out.  Nothing      *)
(* orders the switches of two threads.                                     *)
(***************************************************************************)
EXTENDS Integers, FiniteSets

CONSTANTS
    Users,
    Switchers,  \* threads that switch deduplication on and off
    Sums,       \* checksums; 0 may be one
    W           \* the values of a uint32_t: db_refcount wraps at W

NONE == 0
REFLINK == 1
BLOCK == 2
CDC == 3
Modes == NONE .. CDC

VARIABLES
    dd_enabled, dd_mode,
    dedup_tree,   \* the checksums that have an entry
    db_refcount,  \* of each checksum: that of its entry, 0 without one
    switch,       \* of each switcher: "on" or "off" between its two stores, or "done"
    pc,           \* of each user: "idle", "enabled", "mode", "table", "holds"
    sum,          \* the checksum of its block
    counted,      \* whether its reference was counted
    skewed        \* history, of each checksum: an uncounted user released it

table == << dedup_tree, db_refcount, pc, sum, counted, skewed >>
vars == << table, dd_enabled, dd_mode, switch >>

(* aetherfs_dedup_init.                                                    *)
Init ==
    /\ dd_enabled = FALSE /\ dd_mode = REFLINK
    /\ switch = [x \in Switchers |-> "done"] /\ dedup_tree = {}
    /\ db_refcount = [s \in Sums |-> 0] /\ skewed = [s \in Sums |-> FALSE]
    /\ pc = [u \in Users |-> "idle"] /\ sum \in [Users -> Sums]
    /\ counted = [u \in Users |-> FALSE]

-----------------------------------------------------------------------------
(* aetherfs_dedup_enable stores the mode, then the flag; disable the flag, *)
(* then the mode.                                                          *)
dedup_enable(x, mode) ==
    /\ switch[x] = "done"
    /\ dd_mode' = mode /\ switch' = [switch EXCEPT ![x] = "on"]
    /\ UNCHANGED << table, dd_enabled >>

SetEnabled(x) ==
    /\ switch[x] = "on"
    /\ dd_enabled' = TRUE /\ switch' = [switch EXCEPT ![x] = "done"]
    /\ UNCHANGED << table, dd_mode >>

dedup_disable(x) ==
    /\ switch[x] = "done"
    /\ dd_enabled' = FALSE /\ switch' = [switch EXCEPT ![x] = "off"]
    /\ UNCHANGED << table, dd_mode >>

ClearMode(x) ==
    /\ switch[x] = "off"
    /\ dd_mode' = NONE /\ switch' = [switch EXCEPT ![x] = "done"]
    /\ UNCHANGED << table, dd_enabled >>

-----------------------------------------------------------------------------
Goto(u, step) == pc' = [pc EXCEPT ![u] = step]

(* aetherfs_dedup_block, up to the lock.                                   *)
dedup_block(u, s) ==
    /\ pc[u] = "idle"
    /\ sum' = [sum EXCEPT ![u] = s] /\ counted' = [counted EXCEPT ![u] = FALSE]
    /\ Goto(u, "enabled")
    /\ UNCHANGED << dedup_tree, db_refcount, skewed, dd_enabled, dd_mode, switch >>

TestEnabled(u) ==
    /\ pc[u] = "enabled"
    /\ Goto(u, IF dd_enabled THEN "mode" ELSE "holds")
    /\ UNCHANGED << dedup_tree, db_refcount, sum, counted, skewed, dd_enabled, dd_mode, switch >>

TestMode(u) ==
    /\ pc[u] = "mode"
    /\ Goto(u, IF dd_mode < BLOCK THEN "holds" ELSE "table")
    /\ UNCHANGED << dedup_tree, db_refcount, sum, counted, skewed, dd_enabled, dd_mode, switch >>

(* An entry is shared, or made.                                            *)
Count(u) ==
    /\ pc[u] = "table"
    /\ db_refcount' = [db_refcount EXCEPT ![sum[u]] = (@ + 1) % W]
    /\ dedup_tree' = dedup_tree \cup {sum[u]}
    /\ counted' = [counted EXCEPT ![u] = TRUE]
    /\ Goto(u, "holds")
    /\ UNCHANGED << sum, skewed, dd_enabled, dd_mode, switch >>

(* An entry that cannot be made: -ENOMEM, or the tree's error.             *)
NoEntry(u) ==
    /\ pc[u] = "table" /\ sum[u] \notin dedup_tree
    /\ Goto(u, "idle")
    /\ UNCHANGED << dedup_tree, db_refcount, sum, counted, skewed, dd_enabled, dd_mode, switch >>

(* aetherfs_cdc_dedup hands out the checksums of the chunks, but passes    *)
(* block number 0, which dedup_block refuses.                              *)
cdc_dedup(u, s) ==
    /\ pc[u] = "idle" /\ dd_mode = CDC
    /\ sum' = [sum EXCEPT ![u] = s] /\ counted' = [counted EXCEPT ![u] = FALSE]
    /\ Goto(u, "holds")
    /\ UNCHANGED << dedup_tree, db_refcount, skewed, dd_enabled, dd_mode, switch >>

(* aetherfs_dedup_release: checksum 0 and one without entry are refused.   *)
dedup_release(u) ==
    LET s == sum[u]
        found == s # 0 /\ s \in dedup_tree
        refs == (db_refcount[s] - 1) % W
    IN
    /\ pc[u] = "holds"
    /\ db_refcount' = [db_refcount EXCEPT ![s] = IF found THEN refs ELSE @]
    /\ dedup_tree' = IF found /\ refs = 0 THEN dedup_tree \ {s} ELSE dedup_tree
    /\ skewed' = [skewed EXCEPT ![s] = @ \/ (found /\ ~counted[u])]
    /\ Goto(u, "idle")
    /\ UNCHANGED << sum, counted, dd_enabled, dd_mode, switch >>

-----------------------------------------------------------------------------
Next ==
    \/ \E x \in Switchers :
         \/ \E mode \in Modes : dedup_enable(x, mode)
         \/ SetEnabled(x) \/ dedup_disable(x) \/ ClearMode(x)
    \/ \E u \in Users :
         \/ \E s \in Sums : dedup_block(u, s) \/ cdc_dedup(u, s)
         \/ TestEnabled(u) \/ TestMode(u) \/ Count(u) \/ NoEntry(u) \/ dedup_release(u)

Spec == Init /\ [][Next]_vars
-----------------------------------------------------------------------------
(* The table, the switches and the users are well formed.                  *)
TypeOK ==
    /\ dd_enabled \in BOOLEAN /\ dd_mode \in Modes
    /\ switch \in [Switchers -> {"on", "off", "done"}]
    /\ dedup_tree \subseteq Sums /\ db_refcount \in [Sums -> 0 .. (W - 1)]
    /\ skewed \in [Sums -> BOOLEAN]
    /\ pc \in [Users -> {"idle", "enabled", "mode", "table", "holds"}]
    /\ sum \in [Users -> Sums] /\ counted \in [Users -> BOOLEAN]

Holders(s) == {u \in Users : pc[u] = "holds" /\ counted[u] /\ sum[u] = s}

(***************************************************************************)
(* However threads switch deduplication on and off meanwhile, an entry     *)
(* counts exactly the blocks that share it and goes with the last of them, *)
(* until a block that was never counted is released: only that makes an    *)
(* entry go while others still refer to it.  Checksum 0 cannot be          *)
(* released.                                                               *)
(***************************************************************************)
RefsExact ==
    \A s \in Sums \ {0} : ~skewed[s] =>
        /\ db_refcount[s] = Cardinality(Holders(s))
        /\ s \in dedup_tree <=> Holders(s) # {}
=============================================================================
