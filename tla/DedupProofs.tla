---------------------------- MODULE DedupProofs ----------------------------
(***************************************************************************)
(* The reference counts of the deduplication table, for every number of    *)
(* blocks, checksums and switching threads.  RefsExact is inductive with   *)
(* the types and Uncounted.                                                *)
(***************************************************************************)
EXTENDS Dedup, FiniteSetTheorems, TLAPS

(* A user on its way to the lock is not counted yet.                       *)
Uncounted == \A u \in Users : pc[u] \in {"enabled", "mode", "table"} => ~counted[u]

(* There are fewer blocks than values of a db_refcount.                    *)
FewUsers == IsFiniteSet(Users) /\ W \in Nat /\ Cardinality(Users) < W

DedupInv == TypeOK /\ RefsExact /\ Uncounted

(* The holders of an entry are finitely many.                              *)
LEMMA HoldersFinite ==
    ASSUME IsFiniteSet(Users), NEW s
    PROVE  /\ IsFiniteSet(Holders(s)) /\ Cardinality(Holders(s)) \in Nat
           /\ Cardinality(Holders(s)) <= Cardinality(Users) /\ Cardinality(Users) \in Nat
           /\ Holders(s) # {} <=> Cardinality(Holders(s)) # 0
BY FS_Subset, FS_CardinalityType, FS_EmptySet DEF Holders

(* Nothing is counted in the beginning.                                    *)
LEMMA InitDedup == FewUsers /\ Init => DedupInv
<1> SUFFICES ASSUME FewUsers, Init PROVE DedupInv
  OBVIOUS
<1>1. ASSUME NEW s \in Sums PROVE Holders(s) = {}
  BY DEF Init, Holders
<1>2. TypeOK
  <2>1. dd_mode \in Modes
    BY DEF Init, Modes, NONE, REFLINK, CDC
  <2> QED
    <3>1. 0 \in 0 .. (W - 1)
      BY FS_CardinalityType DEF FewUsers
    <3> QED
      BY <2>1, <3>1 DEF Init, TypeOK
<1>3. Uncounted
  BY DEF Init, Uncounted
<1>4. RefsExact
  BY <1>1, FS_EmptySet DEF Init, RefsExact
<1> QED
  BY <1>2, <1>3, <1>4 DEF DedupInv

(* Switching deduplication on and off leaves the table alone.              *)
LEMMA SwitchStep ==
    ASSUME DedupInv,
           \/ \E x \in Switchers :
                \/ \E mode \in Modes : dedup_enable(x, mode)
                \/ SetEnabled(x) \/ dedup_disable(x) \/ ClearMode(x)
           \/ UNCHANGED vars
    PROVE  DedupInv'
<1>1. UNCHANGED table
  BY DEF vars, dedup_enable, SetEnabled, dedup_disable, ClearMode
<1>2. /\ dd_enabled' \in BOOLEAN /\ dd_mode' \in Modes
      /\ switch' \in [Switchers -> {"on", "off", "done"}]
  <2>1. NONE \in Modes
    BY DEF Modes, NONE, CDC
  <2> QED
    BY <2>1 DEF DedupInv, TypeOK, vars, dedup_enable, SetEnabled, dedup_disable, ClearMode
<1>3. ASSUME NEW s \in Sums PROVE Holders(s)' = Holders(s)
  BY <1>1 DEF table, Holders
<1> QED
  BY <1>1, <1>2, <1>3 DEF DedupInv, TypeOK, RefsExact, Uncounted, table

(***************************************************************************)
(* The steps of a user before its reference is counted, a failed insertion *)
(* and a call of cdc_dedup: the user is not a holder before or after.      *)
(***************************************************************************)
LEMMA UncountedStep ==
    ASSUME DedupInv, NEW u \in Users,
           \/ TestEnabled(u) \/ TestMode(u) \/ NoEntry(u)
           \/ \E s \in Sums : dedup_block(u, s) \/ cdc_dedup(u, s)
    PROVE  DedupInv'
<1>1. UNCHANGED << dedup_tree, db_refcount, skewed, dd_enabled, dd_mode, switch >>
  BY DEF TestEnabled, TestMode, NoEntry, dedup_block, cdc_dedup
<1>2. \E step \in {"idle", "enabled", "mode", "table", "holds"} :
        pc' = [pc EXCEPT ![u] = step] /\ pc[u] # "holds"
  BY DEF TestEnabled, TestMode, NoEntry, dedup_block, cdc_dedup, Goto
<1>3. sum' \in [Users -> Sums] /\ counted' \in [Users -> BOOLEAN]
  BY DEF DedupInv, TypeOK, TestEnabled, TestMode, NoEntry, dedup_block, cdc_dedup
<1>4. ASSUME NEW s \in Sums PROVE Holders(s)' = Holders(s)
  <2>1. \A w \in Users \ {u} : pc'[w] = pc[w] /\ sum'[w] = sum[w] /\ counted'[w] = counted[w]
    BY DEF DedupInv, TypeOK, TestEnabled, TestMode, NoEntry, dedup_block, cdc_dedup, Goto
  <2>2. ~(pc'[u] = "holds" /\ counted'[u])
    BY DEF DedupInv, TypeOK, Uncounted, TestEnabled, TestMode, NoEntry, dedup_block,
           cdc_dedup, Goto
  <2> QED
    BY <1>2, <2>1, <2>2 DEF Holders
<1>5. Uncounted'
  BY <1>2 DEF DedupInv, TypeOK, Uncounted, TestEnabled, TestMode, NoEntry, dedup_block,
         cdc_dedup, Goto
<1>6. TypeOK'
  BY <1>1, <1>2, <1>3 DEF DedupInv, TypeOK
<1> QED
  BY <1>1, <1>4, <1>5, <1>6 DEF DedupInv, RefsExact

(* What RefsExact says of one checksum.                                    *)
Exact(s) ==
    /\ db_refcount[s] = Cardinality(Holders(s))
    /\ s \in dedup_tree <=> Holders(s) # {}

(* A user that neither has nor had a counted reference to s changes        *)
(* nothing for it.                                                         *)
LEMMA OtherSum ==
    ASSUME NEW s, Exact(s), Holders(s)' = Holders(s), db_refcount'[s] = db_refcount[s],
           s \in dedup_tree' <=> s \in dedup_tree
    PROVE  Exact(s)'
BY DEF Exact

(* Under the lock an entry and its holders grow together.                  *)
LEMMA CountStep ==
    ASSUME FewUsers, DedupInv, NEW u \in Users, Count(u) PROVE DedupInv'
<1> USE DEF Count, Goto
<1>1. TypeOK' /\ Uncounted'
  <2>1. \A n \in 0 .. (W - 1) : (n + 1) % W \in 0 .. (W - 1)
    BY FS_CardinalityType DEF FewUsers
  <2>2. sum[u] \in Sums
    BY DEF DedupInv, TypeOK
  <2>3. db_refcount' \in [Sums -> 0 .. (W - 1)] /\ dedup_tree' \subseteq Sums
    BY <2>1, <2>2 DEF DedupInv, TypeOK
  <2> QED
    BY <2>3 DEF DedupInv, TypeOK, Uncounted
<1>2. ASSUME NEW s \in Sums \ {0}, ~skewed'[s] PROVE Exact(s)'
  <2>1. Exact(s)
    BY <1>2 DEF DedupInv, RefsExact, Exact
  <2>2. CASE s = sum[u]
    <3>1. u \notin Holders(s) /\ Holders(s)' = Holders(s) \cup {u}
      BY <2>2 DEF DedupInv, TypeOK, Holders
    <3>2. Cardinality(Holders(s) \cup {u}) = Cardinality(Holders(s)) + 1
      BY <3>1, HoldersFinite, FS_AddElement DEF FewUsers
    <3>3. Cardinality(Holders(s)') = Cardinality(Holders(s)) + 1
      BY <3>1, <3>2
    <3>4. Cardinality(Holders(s)') <= Cardinality(Users)
      <4>1. Holders(s)' \subseteq Users
        BY DEF Holders
      <4> QED
        BY <4>1, FS_Subset DEF FewUsers
    <3>5. db_refcount'[s] = (Cardinality(Holders(s)) + 1) % W
      BY <2>1, <2>2 DEF DedupInv, TypeOK, Exact
    <3>6. (Cardinality(Holders(s)) + 1) % W = Cardinality(Holders(s)) + 1
      BY <3>3, <3>4, HoldersFinite DEF FewUsers
    <3>7. s \in dedup_tree'
      BY <2>2
    <3> QED
      BY <3>1, <3>3, <3>5, <3>6, <3>7 DEF Exact
  <2>3. CASE s # sum[u]
    <3>1. Holders(s)' = Holders(s)
      BY <2>3 DEF DedupInv, TypeOK, Holders
    <3>2. db_refcount'[s] = db_refcount[s] /\ (s \in dedup_tree' <=> s \in dedup_tree)
      BY <2>3 DEF DedupInv, TypeOK
    <3> QED
      BY <2>1, <3>1, <3>2, OtherSum
  <2> QED
    BY <2>2, <2>3
<1> QED
  BY <1>1, <1>2 DEF DedupInv, RefsExact, Exact

(***************************************************************************)
(* A release of a counted block takes one from the entry, which is there   *)
(* because the block is one of its holders.  A release of an uncounted     *)
(* block finds no entry, or is the one that skews the count.               *)
(***************************************************************************)
LEMMA ReleaseStep ==
    ASSUME FewUsers, DedupInv, NEW u \in Users, dedup_release(u) PROVE DedupInv'
<1> DEFINE s0 == sum[u]
           found == s0 # 0 /\ s0 \in dedup_tree
           refs == (db_refcount[s0] - 1) % W
<1>1. /\ s0 \in Sums /\ refs \in 0 .. (W - 1)
      /\ W \in Nat /\ db_refcount \in [Sums -> 0 .. (W - 1)] /\ dedup_tree \subseteq Sums
      /\ skewed \in [Sums -> BOOLEAN] /\ counted[u] \in BOOLEAN
  BY FS_CardinalityType DEF DedupInv, TypeOK, FewUsers
<1>2. /\ db_refcount' = [db_refcount EXCEPT ![s0] = IF found THEN refs ELSE @]
      /\ dedup_tree' = IF found /\ refs = 0 THEN dedup_tree \ {s0} ELSE dedup_tree
      /\ skewed' = [skewed EXCEPT ![s0] = @ \/ (found /\ ~counted[u])]
      /\ pc' = [pc EXCEPT ![u] = "idle"] /\ pc[u] = "holds"
      /\ UNCHANGED << sum, counted, dd_enabled, dd_mode, switch >>
  BY DEF dedup_release, Goto
<1>3. TypeOK' /\ Uncounted'
  <2>1. db_refcount' \in [Sums -> 0 .. (W - 1)] /\ dedup_tree' \subseteq Sums
    BY <1>1, <1>2
  <2>2. skewed' \in [Sums -> BOOLEAN]
    BY <1>1, <1>2, Zenon
  <2> QED
    BY <1>2, <2>1, <2>2 DEF DedupInv, TypeOK, Uncounted
<1>4. ASSUME NEW s \in Sums \ {0}, ~skewed'[s] PROVE Exact(s)'
  <2>1. ~skewed[s] /\ (s = s0 /\ found => counted[u])
    BY <1>1, <1>2, <1>4
  <2>2. Exact(s)
    BY <1>4, <2>1 DEF DedupInv, RefsExact, Exact
  <2>3. CASE s = s0 /\ counted[u]
    <3>1. u \in Holders(s) /\ Holders(s)' = Holders(s) \ {u}
      BY <1>2, <2>3 DEF DedupInv, TypeOK, Holders
    <3>2. Cardinality(Holders(s)') = Cardinality(Holders(s)) - 1
      BY <3>1, HoldersFinite, FS_RemoveElement DEF FewUsers
    <3>3. /\ Cardinality(Holders(s)) \in 1 .. (W - 1)
          /\ Holders(s)' = {} <=> Cardinality(Holders(s)') = 0
      <4>1. Cardinality(Holders(s)) # 0
        BY <3>1, HoldersFinite DEF FewUsers
      <4>2. IsFiniteSet(Holders(s)')
        BY <3>1, HoldersFinite, FS_RemoveElement DEF FewUsers
      <4>3. Holders(s)' = {} <=> Cardinality(Holders(s)') = 0
        BY <4>2, FS_EmptySet
      <4> QED
        BY <4>1, <4>3, HoldersFinite DEF FewUsers
    <3>4. found /\ refs = Cardinality(Holders(s)) - 1
      BY <1>1, <1>4, <2>2, <2>3, <3>1, <3>3 DEF Exact
    <3>5. db_refcount'[s] = refs /\ (s \in dedup_tree' <=> refs # 0)
      BY <1>1, <1>2, <2>3, <3>4
    <3> QED
      BY <3>2, <3>3, <3>4, <3>5 DEF Exact
  <2>4. CASE ~(s = s0 /\ counted[u])
    <3>1. Holders(s)' = Holders(s)
      BY <1>2, <2>4 DEF DedupInv, TypeOK, Holders
    <3>2. db_refcount'[s] = db_refcount[s] /\ (s \in dedup_tree' <=> s \in dedup_tree)
      BY <1>1, <1>2, <2>1, <2>4
    <3> QED
      BY <2>2, <3>1, <3>2, OtherSum
  <2> QED
    BY <2>3, <2>4
<1> QED
  BY <1>3, <1>4 DEF DedupInv, RefsExact, Exact

(***************************************************************************)
(* For any number of blocks below W, and any number of threads that switch *)
(* deduplication, an entry of the table counts exactly the blocks counted  *)
(* by aetherfs_dedup_block and not yet released, unless a block that was   *)
(* not counted has been released.                                          *)
(***************************************************************************)
THEOREM EntriesCountHolders == FewUsers => (Spec => []RefsExact)
<1> SUFFICES ASSUME FewUsers PROVE Spec => []RefsExact
  OBVIOUS
<1>1. Init => DedupInv
  BY InitDedup
<1>2. DedupInv /\ [Next]_vars => DedupInv'
  BY SwitchStep, UncountedStep, CountStep, ReleaseStep DEF Next
<1>3. DedupInv => RefsExact
  BY DEF DedupInv
<1> QED
  BY <1>1, <1>2, <1>3, PTL DEF Spec
=============================================================================
