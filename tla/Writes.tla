-------------------------------- MODULE Writes --------------------------------
(***************************************************************************)
(* The kernel functions that take a block or a number while others do the  *)
(* same: journaled, copy-on-write and inline writes, block mapping, tail   *)
(* packing and inode creation.  They meet in three counters without a      *)
(* lock: s_free_blocks, s_next_ino, which numbers blocks as well as        *)
(* inodes, and the static txn_counter.  A plain ++, -= or += is a load and *)
(* a store.  The intent log has a lock; each use of it is one step.        *)
(*                                                                         *)
(* Buffers and memory may be refused at every call that asks for them.     *)
(* The data itself, and the paths that return before they change anything, *)
(* are left out.                                                           *)
(***************************************************************************)
EXTENDS Integers, FiniteSets

CONSTANTS
    Callers,
    PerGroup,     \* AETHERFS_BLOCKS_PER_GROUP
    DataStart,    \* AETHERFS_DATA_START_BLOCK
    BlocksCount,  \* s_blocks_count
    RootIno,      \* AETHERFS_ROOT_INO
    FreeCounts,   \* s_free_blocks as mounted
    W,            \* number of values of s_free_blocks
    IntMax,       \* number of values of an int that are not negative
    il_capacity,  \* intents the log has room for
    MaxCalls      \* bound: calls begun

ASSUME WritesAssumption ==
    /\ IsFiniteSet(Callers)
    /\ {PerGroup, DataStart, W, IntMax} \subseteq Nat \ {0}
    /\ {BlocksCount, RootIno, il_capacity, MaxCalls} \subseteq Nat
    /\ FreeCounts \subseteq 0 .. (W - 1)

(* The functions modelled; map_first is aetherfs_get_blocks for logical    *)
(* block 0, journal a transaction that takes no block.                     *)
Takers == {"cow", "mode", "map_first", "map", "inline", "tail"}
Ops == Takers \cup {"journal", "inode"}

VARIABLES
    s_free_blocks, s_next_ino, txn_counter,
    il_intents,   \* the intent log
    pc,           \* of each caller: the step it takes next
    call,         \* of each caller: the call it is in
    done,         \* history: the calls that have returned
    calls,        \* number of calls begun
    mounted_free, \* history: s_free_blocks as mounted
    lost_count,   \* history: a stale s_free_blocks was stored, or it passed 0
    lost_number   \* history: a stale s_next_ino was stored

counters == << s_free_blocks, s_next_ino, txn_counter >>
history == << calls, mounted_free >>
vars == << counters, il_intents, pc, call, done, history, lost_count, lost_number >>

NewCall(no, op) == [no |-> no, op |-> op, seen |-> 0, number |-> 0, xt_id |-> 0, ret |-> "ok"]
NoCall == NewCall(0, "none")

Init ==
    /\ s_free_blocks \in FreeCounts /\ mounted_free = s_free_blocks
    /\ s_next_ino = 0 /\ txn_counter = 1 /\ il_intents = {}
    /\ pc = [c \in Callers |-> "idle"] /\ call = [c \in Callers |-> NoCall]
    /\ done = {} /\ calls = 0 /\ lost_count = FALSE /\ lost_number = FALSE

Goto(c, step) == pc' = [pc EXCEPT ![c] = step]

Return(c, ret) ==
    /\ Goto(c, "idle")
    /\ call' = [call EXCEPT ![c] = NoCall]
    /\ done' = done \cup {[no |-> call[c].no, op |-> call[c].op,
                           number |-> call[c].number, ret |-> ret]}

Begin(c, op) ==
    /\ pc[c] = "idle" /\ calls < MaxCalls
    /\ calls' = calls + 1
    /\ call' = [call EXCEPT ![c] = NewCall(calls + 1, op)]
    /\ Goto(c, CASE op \in Takers -> "check" [] op = "journal" -> "begin" [] OTHER -> "number")
    /\ UNCHANGED << counters, il_intents, done, mounted_free, lost_count, lost_number >>

-----------------------------------------------------------------------------
(***************************************************************************)
(* aetherfs_alloc_blocks for one block.  No bitmap is looked at: the       *)
(* number comes from s_next_ino.                                           *)
(***************************************************************************)
CheckFree(c) ==
    /\ pc[c] = "check"
    /\ IF s_free_blocks = 0 THEN Return(c, "ENOSPC")
                            ELSE Goto(c, "number") /\ UNCHANGED << call, done >>
    /\ UNCHANGED << counters, il_intents, history, lost_count, lost_number >>

LoadNumber(c) ==
    /\ pc[c] = "number"
    /\ call' = [call EXCEPT ![c].seen = s_next_ino]
    /\ Goto(c, "bump")
    /\ UNCHANGED << counters, il_intents, done, history, lost_count, lost_number >>

BlockOf_dataBlocks(n) ==
    LET block == (n % PerGroup) + DataStart IN
    IF block >= BlocksCount - DataStart THEN DataStart ELSE block

BlockOf(n) ==
    LET block == (n % PerGroup) + DataStart IN IF block >= BlocksCount THEN DataStart ELSE block

(* aetherfs_new_inode: the numbers up to the root's become the next one.   *)
InoOf(n) == IF n < RootIno + 1 THEN RootIno + 1 ELSE n

StoreNumber(c) ==
    LET n == call[c].seen  inode == call[c].op = "inode" IN
    /\ pc[c] = "bump"
    /\ s_next_ino' = n + 1
    /\ lost_number' = (lost_number \/ n # s_next_ino)
    /\ call' = [call EXCEPT ![c].number = IF inode THEN InoOf(n) ELSE BlockOf(n)]
    /\ Goto(c, IF inode THEN "inode" ELSE "count")
    /\ UNCHANGED << s_free_blocks, txn_counter, il_intents, done, history, lost_count >>

(* new_inode() may fail; the number is spent.                              *)
NewInode(c, ret) ==
    /\ pc[c] = "inode" /\ ret \in {"ok", "ENOMEM"}
    /\ Return(c, ret)
    /\ UNCHANGED << counters, il_intents, history, lost_count, lost_number >>

LoadFree(c) ==
    /\ pc[c] \in {"count", "give"}
    /\ call' = [call EXCEPT ![c].seen = s_free_blocks]
    /\ Goto(c, IF pc[c] = "count" THEN "take" ELSE "given")
    /\ UNCHANGED << counters, il_intents, done, history, lost_count, lost_number >>

Stale(c) == call[c].seen # s_free_blocks

TakeBlock(c) ==
    /\ pc[c] = "take"
    /\ s_free_blocks' = (call[c].seen - 1) % W
    /\ lost_count' = (lost_count \/ Stale(c) \/ s_free_blocks = 0)
    /\ Goto(c, IF call[c].op = "cow" THEN "begin" ELSE "use")
    /\ call' = [call EXCEPT ![c].seen = 0]
    /\ UNCHANGED << s_next_ino, txn_counter, il_intents, done, history, lost_number >>

(* aetherfs_free_blocks, on the way out with an error.                     *)
GiveBlock(c) ==
    /\ pc[c] = "given"
    /\ s_free_blocks' = (call[c].seen + 1) % W
    /\ lost_count' = (lost_count \/ Stale(c))
    /\ Return(c, call[c].ret)
    /\ UNCHANGED << s_next_ino, txn_counter, il_intents, history, lost_number >>

-----------------------------------------------------------------------------
(***************************************************************************)
(* What the callers do with the block, and what they do when that fails.   *)
(* Only tail_pack and data_write_with_intent give it back.                 *)
(***************************************************************************)
GivesBack_cow(op) == op = "cow"
GivesBack(op) == op \in {"cow", "tail"}

Fail(c, ret) ==
    /\ IF GivesBack(call[c].op)
       THEN Goto(c, "give") /\ call' = [call EXCEPT ![c].ret = ret] /\ UNCHANGED done
       ELSE Return(c, ret)

UseBlock(c, op, error) ==
    /\ pc[c] = "use" /\ call[c].op = op
    /\ Return(c, "ok") \/ Fail(c, error)
    /\ UNCHANGED << counters, il_intents, history, lost_count, lost_number >>

(* A buffer for the block may be refused.                                  *)
write_mode(c) == UseBlock(c, "mode", "EIO")
convert_inline(c) == UseBlock(c, "inline", "EIO")
tail_pack(c) == UseBlock(c, "tail", "EIO")

(* aetherfs_extent_set needs memory, and refuses logical block 0.          *)
get_blocks(c) == UseBlock(c, "map", "ENOMEM")

get_first_block(c) ==
    /\ pc[c] = "use" /\ call[c].op = "map_first"
    /\ Fail(c, "EINVAL")
    /\ UNCHANGED << counters, il_intents, history, lost_count, lost_number >>

-----------------------------------------------------------------------------
(***************************************************************************)
(* data_write_with_intent and metadata_cow_commit: transaction_begin.  Its *)
(* 64-bit identifier is returned as an int, where a negative one is taken  *)
(* for an error.                                                           *)
(***************************************************************************)
NoTransaction(c) ==
    /\ pc[c] = "begin"
    /\ Fail(c, "ENOMEM")
    /\ UNCHANGED << counters, il_intents, history, lost_count, lost_number >>

LoadTxn(c) ==
    /\ pc[c] = "begin"
    /\ call' = [call EXCEPT ![c].xt_id = txn_counter]
    /\ Goto(c, "id")
    /\ UNCHANGED << counters, il_intents, done, history, lost_count, lost_number >>

StoreTxn(c) ==
    /\ pc[c] = "id"
    /\ txn_counter' = call[c].xt_id + 1
    /\ Goto(c, "test")
    /\ UNCHANGED << s_free_blocks, s_next_ino, il_intents, call, done, history,
                    lost_count, lost_number >>

NegativeAsInt(id) == id % (2 * IntMax) >= IntMax

Intent(c) == [no |-> call[c].no, ie_txn |-> call[c].xt_id, ie_new |-> call[c].number,
              ie_state |-> "PENDING"]

LogHasRoom_late == Cardinality(il_intents) <= il_capacity
LogHasRoom == Cardinality(il_intents) < il_capacity

TestTxn_addsFirst(c) ==
    /\ pc[c] = "test" /\ LogHasRoom
    /\ il_intents' = il_intents \cup {Intent(c)}
    /\ IF NegativeAsInt(call[c].xt_id) THEN Fail(c, "id")
                                        ELSE Goto(c, "commit") /\ UNCHANGED << call, done >>
    /\ UNCHANGED << counters, history, lost_count, lost_number >>

TestTxn(c) ==
    /\ pc[c] = "test"
    /\ IF NegativeAsInt(call[c].xt_id) THEN Fail(c, "id")
                                        ELSE Goto(c, "add") /\ UNCHANGED << call, done >>
    /\ UNCHANGED << counters, il_intents, history, lost_count, lost_number >>

(* transaction_add_intent ignores that the log is full.                    *)
AddIntent(c) ==
    /\ pc[c] = "add"
    /\ il_intents' = IF LogHasRoom THEN il_intents \cup {Intent(c)} ELSE il_intents
    /\ Goto(c, "commit")
    /\ UNCHANGED << counters, call, done, history, lost_count, lost_number >>

CommitTxn(c) ==
    /\ pc[c] = "commit"
    /\ il_intents' = {IF i.ie_txn = call[c].xt_id THEN [i EXCEPT !.ie_state = "COMMITTED"] ELSE i
                        : i \in il_intents}
    /\ Return(c, "ok")
    /\ UNCHANGED << counters, history, lost_count, lost_number >>

-----------------------------------------------------------------------------
Next == \E c \in Callers :
    \/ \E op \in Ops : Begin(c, op)
    \/ CheckFree(c) \/ LoadNumber(c) \/ StoreNumber(c)
    \/ \E ret \in {"ok", "ENOMEM"} : NewInode(c, ret)
    \/ LoadFree(c) \/ TakeBlock(c) \/ GiveBlock(c)
    \/ write_mode(c) \/ convert_inline(c) \/ tail_pack(c) \/ get_blocks(c) \/ get_first_block(c)
    \/ NoTransaction(c) \/ LoadTxn(c) \/ StoreTxn(c) \/ TestTxn(c)
    \/ AddIntent(c) \/ CommitTxn(c)

Spec == Init /\ [][Next]_vars
-----------------------------------------------------------------------------
Calls == {call[c] : c \in Callers} \cup done
Numbers(ops) == {k \in Calls : k.op \in ops /\ k.number # 0}

(* The counters, the log and the calls in progress are well formed.        *)
TypeOK ==
    /\ s_free_blocks \in 0 .. (W - 1) /\ s_next_ino \in Nat /\ txn_counter \in Nat \ {0}
    /\ Cardinality(il_intents) <= il_capacity
    /\ \A k \in Calls : k.op \in Ops \cup {"none"} /\ k.number \in Nat
    /\ \A k \in Numbers(Takers) : k.number \in DataStart .. (DataStart + PerGroup - 1)
    /\ \A k \in Numbers({"inode"}) : k.number > RootIno

Quiet == \A c \in Callers : pc[c] = "idle"
Kept == {d \in done : d.op \in Takers /\ d.ret = "ok"}

(***************************************************************************)
(* When no call is running, the free count is the mounted one less a block *)
(* for each call that returned 0: a call that fails costs no space.        *)
(***************************************************************************)
NoLeakedBlock == Quiet => s_free_blocks = mounted_free - Cardinality(Kept)

(* The calls that failed after the allocation and have no call to          *)
(* aetherfs_free_blocks on that way.                                       *)
Leaked == {d \in done : d.op \in {"mode", "inline", "map", "map_first"}
                          /\ d.ret \notin {"ok", "ENOSPC"}}

(***************************************************************************)
(* NoLeakedBlock fails, and each block that is missing is the one of a     *)
(* write_mode, convert_inline or get_blocks that failed: every other       *)
(* error, the one of an identifier that is negative as an int included,    *)
(* costs no space and gives no block back twice.  It holds until an        *)
(* unlocked update is lost or passes zero.                                 *)
(***************************************************************************)
SpaceAccounted ==
    Quiet /\ ~lost_count =>
        s_free_blocks = mounted_free - Cardinality(Kept) - Cardinality(Leaked)

(***************************************************************************)
(* One counter numbers blocks and inodes.  Two calls get the same block    *)
(* only after an increment was lost or once the counter has gone past the  *)
(* group or the device; two inodes get the same number only after a lost   *)
(* increment or while the counter is not past the root's number.           *)
(***************************************************************************)
NumbersDistinct ==
    ~lost_number =>
        /\ s_next_ino <= PerGroup /\ s_next_ino <= BlocksCount - DataStart =>
              \A j, k \in Numbers(Takers) : j.no # k.no => j.number # k.number
        /\ \A j, k \in Numbers({"inode"}) :
              j.no # k.no => j.number # k.number \/ j.number = RootIno + 1

(***************************************************************************)
(* Every intent in the log belongs to a write that holds the block the     *)
(* intent names: a write that returned an error, and so gave its block     *)
(* back, has left none for a replay to find.                               *)
(***************************************************************************)
IntentsHoldBlocks ==
    \A i \in il_intents, k \in Calls :
        k.no = i.no => k.ret = "ok" /\ k.number = i.ie_new
=============================================================================
