---------------------------- MODULE WritesProofs ----------------------------
(***************************************************************************)
(* TypeOK, SpaceAccounted, IntentsHoldBlocks and NumbersDistinct for every *)
(* number of callers and calls, every width of the counters and every      *)
(* capacity of the log.                                                    *)
(*                                                                         *)
(* The first two speak of calls that have returned.  WritesInv says what   *)
(* the running ones hold: which callers have taken a block they have       *)
(* neither used nor given back (Holding), and that a write with an intent  *)
(* in the log has nothing left to do but commit.  Shape ties the step a    *)
(* caller is at to the function it is in, and the numbers of the calls     *)
(* keep them apart.  NumberInv says that what was given out lies below the *)
(* counter.                                                                *)
(***************************************************************************)
EXTENDS Writes, FiniteSetTheorems, TLAPS

Results == {"ok", "ENOSPC", "EIO", "ENOMEM", "EINVAL", "id"}
Steps == {"idle", "check", "number", "bump", "inode", "count", "take", "use", "give", "given",
          "begin", "id", "test", "add", "commit"}
Call == [no : Nat, op : Ops \cup {"none"}, seen : Nat, number : Nat, xt_id : Nat, ret : Results]

(* The steps of a function, and the result a caller carries there.         *)
Fits(step, k) ==
    \/ step \in {"check", "count", "take"} /\ k.op \in Takers /\ k.ret = "ok"
    \/ step = "use" /\ k.op \in Takers \ {"cow"} /\ k.ret = "ok"
    \/ step \in {"number", "bump"} /\ k.op \in Takers \cup {"inode"} /\ k.ret = "ok"
    \/ step = "inode" /\ k.op = "inode" /\ k.ret = "ok"
    \/ step \in {"begin", "id", "test", "add", "commit"}
         /\ k.op \in {"cow", "journal"} /\ k.ret = "ok"
    \/ step \in {"give", "given"} /\ k.op \in {"cow", "tail"} /\ k.ret \notin {"ok", "ENOSPC"}

Running == {c \in Callers : pc[c] # "idle"}

Shape ==
    /\ s_free_blocks \in 0 .. (W - 1) /\ mounted_free \in 0 .. (W - 1)
    /\ s_next_ino \in Nat /\ txn_counter \in Nat /\ calls \in Nat
    /\ lost_count \in BOOLEAN
    /\ pc \in [Callers -> Steps] /\ call \in [Callers -> Call]
    /\ IsFiniteSet(done)
    /\ \A c \in Callers \ Running : call[c] = NoCall
    /\ \A c \in Running : call[c].no \in 1 .. calls /\ Fits(pc[c], call[c])
    /\ \A b, c \in Running : b # c => call[b].no # call[c].no
    /\ \A d \in done : d.no \in 1 .. calls /\ \A c \in Running : call[c].no # d.no

Entry == [no : Nat, ie_txn : Nat, ie_new : Nat, ie_state : {"PENDING", "COMMITTED"}]

(* An intent of a call that still runs, and of one that has returned.      *)
Backed(i) ==
    /\ i \in Entry /\ i.no \in 1 .. calls
    /\ \A c \in Running : call[c].no = i.no => pc[c] = "commit" /\ call[c].number = i.ie_new
    /\ \A d \in done : d.no = i.no => d.ret = "ok" /\ d.number = i.ie_new

LogInv == \A i \in il_intents : Backed(i)

(* What has become of the blocks taken.                                    *)
Holds(c) ==
    \/ pc[c] \in {"use", "give", "given"}
    \/ call[c].op = "cow" /\ pc[c] \in {"begin", "id", "test", "add", "commit"}

Holding == {c \in Callers : Holds(c)}

IsKept(op, ret) == op \in Takers /\ ret = "ok"
IsLost(op, ret) == op \in {"mode", "inline", "map", "map_first"} /\ ret \notin {"ok", "ENOSPC"}

SpaceInv ==
    ~lost_count =>
        s_free_blocks + Cardinality(Kept) + Cardinality(Leaked) + Cardinality(Holding)
            = mounted_free

WritesInv == Shape /\ LogInv /\ SpaceInv

-----------------------------------------------------------------------------
(* The callers that hold a block, and the blocks kept and lost, are        *)
(* finitely many.                                                          *)
LEMMA CountsFinite ==
    ASSUME Shape
    PROVE  /\ IsFiniteSet(Holding) /\ Cardinality(Holding) \in Nat
           /\ IsFiniteSet(Kept) /\ Cardinality(Kept) \in Nat
           /\ IsFiniteSet(Leaked) /\ Cardinality(Leaked) \in Nat
<1>1. Holding \subseteq Callers /\ Kept \subseteq done /\ Leaked \subseteq done
  BY DEF Holding, Kept, IsKept, Leaked, IsLost
<1> QED
  BY <1>1, WritesAssumption, FS_Subset, FS_CardinalityType DEF Shape

(* In the beginning nobody runs, nothing is taken, the log is empty.       *)
LEMMA InitWrites == Init => WritesInv
<1> SUFFICES ASSUME Init PROVE WritesInv
  OBVIOUS
<1>1. Running = {} /\ Holding = {} /\ Kept = {} /\ Leaked = {}
  BY DEF Init, Running, Holding, Holds, Kept, IsKept, Leaked, IsLost
<1>2. NoCall \in Call
  BY DEF NoCall, NewCall, Call, Results
<1>3. Shape
  <2>1. /\ s_free_blocks \in 0 .. (W - 1) /\ mounted_free \in 0 .. (W - 1)
        /\ s_next_ino \in Nat /\ txn_counter \in Nat /\ calls \in Nat
    BY WritesAssumption DEF Init
  <2>2. pc \in [Callers -> Steps] /\ call \in [Callers -> Call] /\ lost_count \in BOOLEAN
    BY <1>2 DEF Init, Steps
  <2> QED
    BY <1>1, <2>1, <2>2, FS_EmptySet DEF Init, Shape
<1>4. LogInv
  BY DEF Init, LogInv
<1>5. SpaceInv
  BY <1>1, WritesAssumption, FS_EmptySet DEF Init, SpaceInv
<1> QED
  BY <1>3, <1>4, <1>5 DEF WritesInv
-----------------------------------------------------------------------------
(* The counters keep their types.                                          *)
CountersOK ==
    /\ s_free_blocks' \in 0 .. (W - 1) /\ s_next_ino' \in Nat /\ txn_counter' \in Nat
    /\ lost_count' \in BOOLEAN /\ UNCHANGED history

(* A caller goes on to another step of its call.                           *)
Moves(c, step, k) ==
    /\ pc' = [pc EXCEPT ![c] = step] /\ call' = [call EXCEPT ![c] = k] /\ UNCHANGED done
    /\ k.no = call[c].no /\ Fits(step, k)

(* Going on keeps the calls in order.                                      *)
LEMMA MoveShape ==
    ASSUME Shape, NEW c \in Running, NEW step \in Steps \ {"idle"}, NEW k \in Call,
           Moves(c, step, k), CountersOK
    PROVE  Shape' /\ Running' = Running
<1> USE DEF Moves
<1>1. c \in Callers
  BY DEF Running
<1>2. Running' = Running
  BY <1>1 DEF Shape, Running
<1>3. pc' \in [Callers -> Steps] /\ call' \in [Callers -> Call]
  BY <1>1 DEF Shape
<1>4. \A b \in Callers : call'[b] = IF b = c THEN k ELSE call[b]
  BY <1>1 DEF Shape
<1>5. \A b \in Callers : call'[b].no = call[b].no
  BY <1>4
<1>6. \A b \in Running : Fits(pc[b], call[b])'
  BY <1>1, <1>4 DEF Shape, Running, Fits
<1>7. calls' = calls /\ mounted_free' = mounted_free
  BY DEF CountersOK, history
<1>8. \A b \in Callers \ Running : call'[b] = NoCall
  BY <1>4 DEF Shape
<1>9. \A b \in Running : b \in Callers
  BY DEF Running
<1>10. /\ \A b \in Running : call'[b].no \in 1 .. calls
       /\ \A a, b \in Running : a # b => call'[a].no # call'[b].no
       /\ \A d \in done : d.no \in 1 .. calls /\ \A b \in Running : call'[b].no # d.no
  BY <1>5, <1>9 DEF Shape
<1> QED
  BY <1>2, <1>3, <1>6, <1>7, <1>8, <1>10 DEF Shape, CountersOK

(* Before the commit a call has no intent in the log, so going on keeps    *)
(* every intent backed.                                                    *)
LEMMA MoveLog ==
    ASSUME Shape, LogInv, NEW c \in Running, NEW step \in Steps \ {"idle"}, NEW k \in Call,
           Moves(c, step, k), CountersOK, pc[c] # "commit", UNCHANGED il_intents
    PROVE  LogInv'
<1> USE DEF Moves
<1>1. Running' = Running /\ calls' = calls
  BY MoveShape DEF CountersOK, history
<1>2. \A b \in Running \ {c} : pc'[b] = pc[b] /\ call'[b] = call[b]
  BY DEF Shape, Running
<1>3. call'[c].no = call[c].no
  BY DEF Shape, Running
<1>4. ASSUME NEW i \in il_intents PROVE Backed(i)'
  <2>1. Backed(i) /\ call[c].no # i.no
    BY DEF LogInv, Backed
  <2> QED
    BY <1>1, <1>2, <1>3, <2>1 DEF Backed
<1> QED
  BY <1>4 DEF LogInv

-----------------------------------------------------------------------------
(* Returning keeps the calls in order.                                     *)
LEMMA ReturnShape ==
    ASSUME Shape, NEW c \in Running, NEW ret \in Results, Return(c, ret), CountersOK
    PROVE  Shape' /\ Running' = Running \ {c}
<1> USE DEF Return, Goto
<1>1. c \in Callers
  BY DEF Running
<1>2. \A b \in Callers : /\ pc'[b] = IF b = c THEN "idle" ELSE pc[b]
                         /\ call'[b] = IF b = c THEN NoCall ELSE call[b]
  BY <1>1 DEF Shape
<1>3. Running' = Running \ {c}
  BY <1>2 DEF Running
<1>4. NoCall \in Call
  BY DEF NoCall, NewCall, Call, Results
<1>5. pc' \in [Callers -> Steps] /\ call' \in [Callers -> Call]
  BY <1>1, <1>4 DEF Shape, Steps
<1>6. calls' = calls /\ mounted_free' = mounted_free
  BY DEF CountersOK, history
<1>7. IsFiniteSet(done')
  BY FS_AddElement DEF Shape
<1>8. \A b \in Callers \ Running' : call'[b] = NoCall
  BY <1>2, <1>3 DEF Shape
<1>9. \A b \in Running' : call'[b].no \in 1 .. calls /\ Fits(pc[b], call[b])'
  <2> SUFFICES ASSUME NEW b \in Running' PROVE call'[b].no \in 1 .. calls /\ Fits(pc[b], call[b])'
    OBVIOUS
  <2>1. b \in Running /\ pc'[b] = pc[b] /\ call'[b] = call[b]
    BY <1>2, <1>3 DEF Running
  <2> QED
    BY <2>1 DEF Shape, Fits
<1>10. \A a, b \in Running' : a # b => call'[a].no # call'[b].no
  BY <1>2, <1>3 DEF Shape, Running
<1>11. \A d \in done' : d.no \in 1 .. calls /\ \A b \in Running' : call'[b].no # d.no
  BY <1>2, <1>3 DEF Shape, Running
<1> QED
  BY <1>3, <1>5, <1>6, <1>7, <1>8, <1>9, <1>10, <1>11 DEF Shape, CountersOK

(***************************************************************************)
(* A call that returns had no intent, or it was at its commit and returns  *)
(* 0.  The commit changes only the state of intents.                       *)
(***************************************************************************)
LEMMA ReturnLog ==
    ASSUME Shape, LogInv, NEW c \in Running, NEW ret \in Results, Return(c, ret), CountersOK,
           pc[c] = "commit" => ret = "ok",
           \A i \in il_intents' :
               i \in Entry /\ \E j \in il_intents : i.no = j.no /\ i.ie_new = j.ie_new
    PROVE  LogInv'
<1> USE DEF Return, Goto
<1>1. Running' = Running \ {c} /\ calls' = calls
  BY ReturnShape DEF CountersOK, history
<1>2. \A b \in Running \ {c} : pc'[b] = pc[b] /\ call'[b] = call[b]
  BY DEF Shape, Running
<1>3. ASSUME NEW i \in il_intents' PROVE Backed(i)'
  <2>1. PICK j \in il_intents : i.no = j.no /\ i.ie_new = j.ie_new
    OBVIOUS
  <2>2. Backed(j)
    BY DEF LogInv
  <2>3. \A d \in done' : d.no = i.no => d.ret = "ok" /\ d.number = i.ie_new
    BY <2>1, <2>2 DEF Backed
  <2> QED
    BY <1>1, <1>2, <2>1, <2>2, <2>3 DEF Backed
<1> QED
  BY <1>3 DEF LogInv

-----------------------------------------------------------------------------
(***************************************************************************)
(* A step that leaves the free count alone keeps the balance if a caller   *)
(* that goes on holds what it held, ...                                    *)
(***************************************************************************)
LEMMA MoveSpace ==
    ASSUME WritesInv, NEW c \in Running, NEW step \in Steps \ {"idle"}, NEW k \in Call,
           Moves(c, step, k), CountersOK,
           UNCHANGED << s_free_blocks, lost_count >>, Holds(c)' <=> Holds(c)
    PROVE  SpaceInv'
<1>1. Kept' = Kept /\ Leaked' = Leaked
  BY DEF Moves, Kept, IsKept, Leaked, IsLost
<1>2. \A b \in Callers \ {c} : Holds(b)' <=> Holds(b)
  BY DEF WritesInv, Shape, Moves, Holds
<1>3. Holding' = Holding
  BY <1>2 DEF Holding
<1> QED
  BY <1>1, <1>3 DEF WritesInv, SpaceInv, CountersOK, history

(* Such a step before the commit keeps the invariant.                      *)
LEMMA QuietMove ==
    ASSUME WritesInv, NEW c \in Running, NEW step \in Steps \ {"idle"}, NEW k \in Call,
           Moves(c, step, k), CountersOK, pc[c] # "commit",
           UNCHANGED << il_intents, s_free_blocks, lost_count >>, Holds(c)' <=> Holds(c)
    PROVE  WritesInv'
BY MoveShape, MoveLog, MoveSpace DEF WritesInv

(* What a return adds to the blocks kept and lost, and takes from those    *)
(* held.                                                                   *)
LEMMA ReturnCounts ==
    ASSUME Shape, NEW c \in Running, NEW ret \in Results, Return(c, ret)
    PROVE  /\ Cardinality(Kept') = Cardinality(Kept) + IF IsKept(call[c].op, ret) THEN 1 ELSE 0
           /\ Cardinality(Leaked') = Cardinality(Leaked) + IF IsLost(call[c].op, ret) THEN 1 ELSE 0
           /\ Cardinality(Holding') = Cardinality(Holding) - IF Holds(c) THEN 1 ELSE 0
<1> DEFINE d == [no |-> call[c].no, op |-> call[c].op, number |-> call[c].number, ret |-> ret]
<1>1. done' = done \cup {d} /\ d \notin done /\ d.op = call[c].op /\ d.ret = ret
  BY DEF Return, Shape
<1> HIDE DEF d
<1>2. Cardinality(Kept') = Cardinality(Kept) + IF IsKept(call[c].op, ret) THEN 1 ELSE 0
  <2>1. CASE IsKept(call[c].op, ret)
    <3>1. Kept' = Kept \cup {d} /\ d \notin Kept
      BY <1>1, <2>1 DEF Kept, IsKept
    <3> QED
      BY <2>1, <3>1, CountsFinite, FS_AddElement
  <2>2. CASE ~IsKept(call[c].op, ret)
    <3>1. Kept' = Kept
      BY <1>1, <2>2 DEF Kept, IsKept
    <3> QED
      BY <2>2, <3>1, CountsFinite
  <2> QED
    BY <2>1, <2>2
<1>3. Cardinality(Leaked') = Cardinality(Leaked) + IF IsLost(call[c].op, ret) THEN 1 ELSE 0
  <2>1. CASE IsLost(call[c].op, ret)
    <3>1. Leaked' = Leaked \cup {d} /\ d \notin Leaked
      BY <1>1, <2>1 DEF Leaked, IsLost
    <3> QED
      BY <2>1, <3>1, CountsFinite, FS_AddElement
  <2>2. CASE ~IsLost(call[c].op, ret)
    <3>1. Leaked' = Leaked
      BY <1>1, <2>2 DEF Leaked, IsLost
    <3> QED
      BY <2>2, <3>1, CountsFinite
  <2> QED
    BY <2>1, <2>2
<1>4. Cardinality(Holding') = Cardinality(Holding) - IF Holds(c) THEN 1 ELSE 0
  <2>1. Holding' = Holding \ {c}
    <3>1. \A b \in Callers \ {c} : Holds(b)' <=> Holds(b)
      BY DEF Shape, Return, Goto, Holds
    <3>2. ~Holds(c)'
      BY DEF Shape, Running, Return, Goto, Holds
    <3> QED
      BY <3>1, <3>2 DEF Holding
  <2>2. CASE Holds(c)
    <3>1. c \in Holding
      BY <2>2 DEF Holding, Running
    <3> QED
      BY <2>1, <2>2, <3>1, CountsFinite, FS_RemoveElement
  <2>3. CASE ~Holds(c)
    <3>1. Holding \ {c} = Holding
      BY <2>3 DEF Holding
    <3> QED
      BY <2>1, <2>3, <3>1, CountsFinite
  <2> QED
    BY <2>2, <2>3
<1> QED
  BY <1>2, <1>3, <1>4

(* ... or if a caller that returns keeps or loses the block it held.       *)
LEMMA QuietReturn ==
    ASSUME WritesInv, NEW c \in Running, NEW ret \in Results, Return(c, ret), CountersOK,
           UNCHANGED << s_free_blocks, lost_count >>,
           Holds(c) <=> (IsKept(call[c].op, ret) \/ IsLost(call[c].op, ret)),
           pc[c] = "commit" => ret = "ok",
           \A i \in il_intents' :
               i \in Entry /\ \E j \in il_intents : i.no = j.no /\ i.ie_new = j.ie_new
    PROVE  WritesInv'
<1>1. Shape' /\ LogInv'
  BY ReturnShape, ReturnLog DEF WritesInv
<1>2. ~(IsKept(call[c].op, ret) /\ IsLost(call[c].op, ret))
  BY DEF IsKept, IsLost
<1>3. Cardinality(Kept') + Cardinality(Leaked') + Cardinality(Holding')
        = Cardinality(Kept) + Cardinality(Leaked) + Cardinality(Holding)
  BY <1>2, ReturnCounts, CountsFinite DEF WritesInv
<1>4. s_free_blocks \in Nat /\ Shape
  BY WritesAssumption DEF WritesInv, Shape
<1>5. SpaceInv'
  <2>1. /\ Cardinality(Kept') \in Int /\ Cardinality(Leaked') \in Int
        /\ Cardinality(Holding') \in Int
    BY <1>4, ReturnCounts, CountsFinite
  <2> QED
    BY <1>3, <1>4, <2>1, CountsFinite DEF WritesInv, SpaceInv, CountersOK, history
<1> QED
  BY <1>1, <1>5 DEF WritesInv

-----------------------------------------------------------------------------
(* A caller that begins a call holds nothing, and its number is new.       *)
LEMMA BeginStep ==
    ASSUME WritesInv, NEW c \in Callers, NEW op \in Ops, Begin(c, op)
    PROVE  WritesInv'
<1> DEFINE k == NewCall(calls + 1, op)
           step == CASE op \in Takers -> "check" [] op = "journal" -> "begin" [] OTHER -> "number"
<1> USE DEF Begin, Goto
<1>1. /\ k \in Call /\ k.no = calls + 1 /\ k.op = op /\ k.ret = "ok"
      /\ step \in Steps \ {"idle"} /\ Fits(step, k)
  <2>1. k \in Call /\ k.no = calls + 1 /\ k.op = op /\ k.ret = "ok"
    <3>1. k = [no |-> calls + 1, op |-> op, seen |-> 0, number |-> 0, xt_id |-> 0, ret |-> "ok"]
      BY DEF NewCall
    <3>2. calls + 1 \in Nat /\ op \in Ops \cup {"none"} /\ "ok" \in Results
      BY DEF WritesInv, Shape, Results
    <3> QED
      BY <3>1, <3>2 DEF Call
  <2> HIDE DEF k
  <2>2. CASE op \in Takers
    BY <2>1, <2>2 DEF Steps, Fits
  <2>3. CASE op = "journal"
    BY <2>1, <2>3 DEF Steps, Fits, Takers
  <2>4. CASE op = "inode"
    BY <2>1, <2>4 DEF Steps, Fits, Takers
  <2> QED
    BY <2>1, <2>2, <2>3, <2>4 DEF Ops
<1>2. step = "begin" => op # "cow"
  BY DEF Takers
<1>3. step \in {"check", "begin", "number"}
  OBVIOUS
<1>4. pc' = [pc EXCEPT ![c] = step] /\ call' = [call EXCEPT ![c] = k]
  OBVIOUS
<1> HIDE DEF k, step
<1>5. /\ calls' = calls + 1 /\ pc[c] = "idle"
      /\ UNCHANGED << counters, il_intents, done, mounted_free, lost_count >>
  OBVIOUS
<1>6. \A b \in Callers : /\ pc'[b] = IF b = c THEN step ELSE pc[b]
                         /\ call'[b] = IF b = c THEN k ELSE call[b]
  BY <1>4 DEF WritesInv, Shape
<1>7. Running' = Running \cup {c} /\ c \notin Running
  BY <1>1, <1>5, <1>6 DEF Running
<1>8. Shape'
  <2>1. pc' \in [Callers -> Steps] /\ call' \in [Callers -> Call]
    BY <1>1, <1>4 DEF WritesInv, Shape
  <2>2. \A b \in Running' : call'[b].no \in 1 .. calls' /\ Fits(pc[b], call[b])'
    <3>1. \A b \in Running : pc'[b] = pc[b] /\ call'[b] = call[b]
      BY <1>6, <1>7 DEF Running
    <3>2. \A b \in Running : call'[b].no \in 1 .. calls' /\ Fits(pc[b], call[b])'
      BY <1>5, <3>1 DEF WritesInv, Shape, Fits
    <3>3. call'[c].no \in 1 .. calls' /\ Fits(pc[c], call[c])'
      <4>1. pc'[c] = step /\ call'[c] = k
        BY <1>6
      <4>2. calls + 1 \in 1 .. (calls + 1)
        BY DEF WritesInv, Shape
      <4> QED
        BY <1>1, <1>5, <4>1, <4>2 DEF Fits
    <3> QED
      BY <1>7, <3>2, <3>3
  <2>3. \A a, b \in Running' : a # b => call'[a].no # call'[b].no
    BY <1>1, <1>5, <1>6, <1>7 DEF WritesInv, Shape, Running
  <2>4. \A d \in done' : d.no \in 1 .. calls' /\ \A b \in Running' : call'[b].no # d.no
    BY <1>1, <1>5, <1>6, <1>7 DEF WritesInv, Shape, Running
  <2>5. \A b \in Callers \ Running' : call'[b] = NoCall
    BY <1>6, <1>7 DEF WritesInv, Shape
  <2> QED
    BY <1>5, <2>1, <2>2, <2>3, <2>4, <2>5 DEF WritesInv, Shape, counters
<1>9. LogInv'
  BY <1>1, <1>5, <1>6, <1>7 DEF WritesInv, Shape, LogInv, Backed, Running
<1>10. SpaceInv'
  <2>1. \A b \in Callers : Holds(b)' <=> Holds(b)
    BY <1>1, <1>2, <1>3, <1>5, <1>6 DEF Holds
  <2>2. Holding' = Holding /\ Kept' = Kept /\ Leaked' = Leaked
    BY <1>5, <2>1 DEF Holding, Kept, IsKept, Leaked, IsLost
  <2> QED
    BY <1>5, <2>2 DEF WritesInv, SpaceInv, counters
<1> QED
  BY <1>8, <1>9, <1>10 DEF WritesInv

-----------------------------------------------------------------------------
(* What an action leaves alone.                                            *)
Rest == UNCHANGED << counters, history, lost_count >>

(* Such an action keeps the types of the counters.                         *)
LEMMA RestOK ==
    ASSUME Shape, Rest
    PROVE  CountersOK /\ UNCHANGED << s_free_blocks, lost_count >>
BY DEF Rest, Shape, CountersOK, counters, history

(***************************************************************************)
(* An error after the block was taken: it is on its way back or, in        *)
(* write_mode, convert_inline and get_blocks, lost.  A transaction without *)
(* a block loses nothing.                                                  *)
(***************************************************************************)
LEMMA FailStep ==
    ASSUME WritesInv, NEW c \in Callers, pc[c] \in {"use", "begin", "test"},
           NEW error \in Results \ {"ok", "ENOSPC"}, Fail(c, error), Rest, UNCHANGED il_intents
    PROVE  WritesInv'
<1>1. c \in Running /\ Fits(pc[c], call[c]) /\ call[c] \in Call /\ Shape
  BY DEF WritesInv, Shape, Running
<1>2. CountersOK /\ UNCHANGED << s_free_blocks, lost_count >>
  BY <1>1, RestOK
<1>3. CASE GivesBack(call[c].op)
  <2> DEFINE k == [call[c] EXCEPT !.ret = error]
  <2>1. k \in Call /\ k.no = call[c].no /\ k.op = call[c].op /\ k.ret = error
    BY <1>1 DEF Call
  <2>2. pc' = [pc EXCEPT ![c] = "give"] /\ call' = [call EXCEPT ![c] = k] /\ UNCHANGED done
    BY <1>3 DEF Fail, Goto
  <2> HIDE DEF k
  <2>3. Moves(c, "give", k)
    BY <1>3, <2>1, <2>2 DEF Moves, Fits, GivesBack
  <2>4. Holds(c) /\ Holds(c)'
    BY <1>1, <1>3, <2>2 DEF Shape, Holds, Fits, GivesBack
  <2>5. "give" \in Steps \ {"idle"}
    BY DEF Steps
  <2> QED
    BY <1>1, <1>2, <2>1, <2>3, <2>4, <2>5, QuietMove
<1>4. CASE ~GivesBack(call[c].op)
  <2>1. Return(c, error)
    BY <1>4 DEF Fail
  <2>2. Holds(c) <=> (IsKept(call[c].op, error) \/ IsLost(call[c].op, error))
    BY <1>1, <1>4 DEF Fits, Holds, IsKept, IsLost, GivesBack, Takers
  <2> QED
    BY <1>1, <1>2, <2>1, <2>2, QuietReturn DEF WritesInv, LogInv, Backed
<1> QED
  BY <1>3, <1>4

(* The users of a block keep it, or fail.                                  *)
LEMMA UseStep ==
    ASSUME WritesInv, NEW c \in Callers,
           \/ write_mode(c) \/ convert_inline(c) \/ tail_pack(c)
           \/ get_blocks(c) \/ get_first_block(c)
    PROVE  WritesInv'
<1>1. Rest /\ UNCHANGED il_intents /\ pc[c] = "use"
  BY DEF write_mode, convert_inline, tail_pack, get_blocks, get_first_block, UseBlock, Rest
<1>2. \/ Return(c, "ok")
      \/ \E error \in Results \ {"ok", "ENOSPC"} : Fail(c, error)
  BY DEF write_mode, convert_inline, tail_pack, get_blocks, get_first_block, UseBlock, Results
<1>3. CASE Return(c, "ok")
  <2>1. c \in Running /\ Fits(pc[c], call[c]) /\ Shape
    BY <1>1 DEF WritesInv, Shape, Running
  <2>2. CountersOK /\ UNCHANGED << s_free_blocks, lost_count >> /\ "ok" \in Results
    BY <1>1, <2>1, RestOK DEF Results
  <2>3. Holds(c) /\ IsKept(call[c].op, "ok")
    BY <1>1, <2>1 DEF Holds, Fits, IsKept
  <2> QED
    BY <1>1, <1>3, <2>1, <2>2, <2>3, QuietReturn DEF WritesInv, LogInv, Backed
<1> QED
  BY <1>1, <1>2, <1>3, FailStep

(* A return without a block: no space, or the end of new_inode.            *)
LEMMA EmptyHanded ==
    ASSUME WritesInv, NEW c \in Callers,
           \/ pc[c] = "check" /\ Return(c, "ENOSPC")
           \/ \E ret \in {"ok", "ENOMEM"} : NewInode(c, ret),
           Rest, UNCHANGED il_intents
    PROVE  WritesInv'
<1>1. c \in Running /\ Fits(pc[c], call[c]) /\ Shape
  BY DEF WritesInv, Shape, Running, NewInode
<1>2. CountersOK /\ UNCHANGED << s_free_blocks, lost_count >>
  BY <1>1, RestOK
<1>3. PICK ret \in Results :
        Return(c, ret) /\ pc[c] \in {"check", "inode"} /\ (pc[c] = "check" => ret = "ENOSPC")
  BY DEF Results, NewInode
<1>4. ~Holds(c)
  BY <1>3 DEF Holds
<1>5. ~IsKept(call[c].op, ret) /\ ~IsLost(call[c].op, ret)
  <2>1. CASE pc[c] = "check"
    BY <1>3, <2>1 DEF IsKept, IsLost
  <2>2. CASE pc[c] = "inode"
    BY <1>1, <2>2 DEF Fits, IsKept, IsLost, Takers
  <2> QED
    BY <1>3, <2>1, <2>2
<1>6. pc[c] = "commit" => ret = "ok"
  BY <1>3
<1>7. \A i \in il_intents' :
        i \in Entry /\ \E j \in il_intents : i.no = j.no /\ i.ie_new = j.ie_new
  BY DEF WritesInv, LogInv, Backed
<1> QED
  BY <1>1, <1>2, <1>3, <1>4, <1>5, <1>6, <1>7, QuietReturn

-----------------------------------------------------------------------------
(* The loads, and the tests that let a call go on.                         *)
LEMMA LoadStep ==
    ASSUME WritesInv, NEW c \in Callers,
           LoadNumber(c) \/ LoadFree(c) \/ LoadTxn(c)
    PROVE  WritesInv'
<1>1. c \in Running /\ Fits(pc[c], call[c]) /\ call[c] \in Call /\ Shape
  BY DEF WritesInv, Shape, Running, LoadNumber, LoadFree, LoadTxn
<1>2. /\ CountersOK /\ UNCHANGED << s_free_blocks, lost_count, il_intents, done >>
      /\ pc[c] \in {"number", "count", "give", "begin"}
  BY <1>1, RestOK DEF Rest, LoadNumber, LoadFree, LoadTxn
<1>3. \E n \in Nat : \/ call' = [call EXCEPT ![c] = [call[c] EXCEPT !.seen = n]]
                     \/ call' = [call EXCEPT ![c] = [call[c] EXCEPT !.xt_id = n]]
  <2>1. s_next_ino \in Nat /\ s_free_blocks \in Nat /\ txn_counter \in Nat
    BY WritesAssumption DEF WritesInv, Shape
  <2> QED
    BY <2>1 DEF LoadNumber, LoadFree, LoadTxn
<1>4. PICK k \in Call : /\ call' = [call EXCEPT ![c] = k]
                       /\ k.no = call[c].no /\ k.op = call[c].op /\ k.ret = call[c].ret
  BY <1>1, <1>3 DEF Call
<1>5. PICK step \in {"bump", "take", "given", "id"} :
        /\ pc' = [pc EXCEPT ![c] = step]
        /\ pc[c] = "number" <=> step = "bump"
        /\ pc[c] = "count" <=> step = "take"
        /\ pc[c] = "give" <=> step = "given"
  BY DEF LoadNumber, LoadFree, LoadTxn, Goto
<1>6. Moves(c, step, k)
  BY <1>1, <1>2, <1>4, <1>5 DEF Moves, Fits
<1>7. Holds(c)' <=> Holds(c)
  BY <1>1, <1>2, <1>4, <1>5 DEF Shape, Holds
<1>8. step \in Steps \ {"idle"}
  BY <1>5 DEF Steps
<1> QED
  BY <1>1, <1>2, <1>6, <1>7, <1>8, QuietMove

(* A block number or an inode number is a natural number.                  *)
LEMMA NumberType == ASSUME NEW n \in Nat PROVE BlockOf(n) \in Nat /\ InoOf(n) \in Nat
<1>1. n % PerGroup \in Nat
  BY WritesAssumption
<1> QED
  BY <1>1, WritesAssumption DEF BlockOf, InoOf

(* The store of s_next_ino, with the number the call will use.             *)
LEMMA StoreNumberStep ==
    ASSUME WritesInv, NEW c \in Callers, StoreNumber(c) PROVE WritesInv'
<1> DEFINE number == IF call[c].op = "inode" THEN InoOf(call[c].seen) ELSE BlockOf(call[c].seen)
           k == [call[c] EXCEPT !.number = number]
           step == IF call[c].op = "inode" THEN "inode" ELSE "count"
<1>1. c \in Running /\ Fits(pc[c], call[c]) /\ call[c] \in Call /\ pc[c] = "bump"
  BY DEF WritesInv, Shape, Running, StoreNumber
<1>2. CountersOK /\ UNCHANGED << s_free_blocks, lost_count, il_intents, done >>
  <2>1. call[c].seen \in Nat
    BY <1>1 DEF Call
  <2> QED
    BY <2>1 DEF WritesInv, Shape, StoreNumber, CountersOK, history
<1>3. k \in Call /\ k.no = call[c].no /\ k.op = call[c].op /\ k.ret = call[c].ret
  <2>1. number \in Nat
    BY <1>1, NumberType DEF Call
  <2> HIDE DEF number
  <2> QED
    BY <1>1, <2>1 DEF Call
<1>4. call' = [call EXCEPT ![c] = k] /\ pc' = [pc EXCEPT ![c] = step]
  BY DEF StoreNumber, Goto
<1>5. Fits(step, k) /\ step \in Steps \ {"idle"} /\ step \in {"inode", "count"}
  BY <1>1, <1>3 DEF Fits, Steps
<1> HIDE DEF k, step
<1>6. Moves(c, step, k)
  BY <1>2, <1>3, <1>4, <1>5 DEF Moves
<1>7. ~Holds(c) /\ ~Holds(c)'
  BY <1>1, <1>4, <1>5 DEF WritesInv, Shape, Holds
<1> QED
  BY <1>1, <1>2, <1>3, <1>5, <1>6, <1>7, QuietMove

(* A test that succeeds, and the store of txn_counter.                     *)
LEMMA PassStep ==
    ASSUME WritesInv, NEW c \in Callers, UNCHANGED << call, done, il_intents >>, CountersOK,
           UNCHANGED << s_free_blocks, lost_count >>,
           \/ pc[c] = "check" /\ Goto(c, "number")
           \/ pc[c] = "id" /\ Goto(c, "test")
           \/ pc[c] = "test" /\ Goto(c, "add")
    PROVE  WritesInv'
<1>1. c \in Running /\ Fits(pc[c], call[c]) /\ call[c] \in Call
  BY DEF WritesInv, Shape, Running
<1>2. PICK step \in {"number", "test", "add"} :
        /\ pc' = [pc EXCEPT ![c] = step]
        /\ pc[c] \in {"check", "id", "test"}
        /\ pc[c] = "check" <=> step = "number"
  BY DEF Goto
<1>3. call' = [call EXCEPT ![c] = call[c]]
  BY DEF WritesInv, Shape
<1>4. Moves(c, step, call[c])
  BY <1>1, <1>2, <1>3 DEF Moves, Fits
<1>5. Holds(c)' <=> Holds(c)
  BY <1>1, <1>2 DEF WritesInv, Shape, Holds
<1>6. step \in Steps \ {"idle"}
  BY <1>2 DEF Steps
<1> QED
  BY <1>1, <1>2, <1>4, <1>5, <1>6, QuietMove

-----------------------------------------------------------------------------
(* Arithmetic modulo W stays in range, and is exact within it.             *)
LEMMA Wraps ==
    ASSUME NEW n \in Int
    PROVE  n % W \in 0 .. (W - 1) /\ (n \in 0 .. (W - 1) => n % W = n)
<1>1. W \in Nat \ {0}
  BY WritesAssumption
<1> QED
  BY <1>1

(* The store that takes a block: one more caller holds one.                *)
LEMMA TakeStep == ASSUME WritesInv, NEW c \in Callers, TakeBlock(c) PROVE WritesInv'
<1> DEFINE k == [call[c] EXCEPT !.seen = 0]
           step == IF call[c].op = "cow" THEN "begin" ELSE "use"
<1>1. c \in Running /\ Fits(pc[c], call[c]) /\ call[c] \in Call /\ pc[c] = "take"
  BY DEF WritesInv, Shape, Running, TakeBlock
<1>2. call[c].seen \in Nat /\ s_free_blocks \in 0 .. (W - 1) /\ W \in Nat
  BY <1>1, WritesAssumption DEF WritesInv, Shape, Call
<1>3. CountersOK /\ UNCHANGED << il_intents, done >>
  BY <1>2, Wraps DEF WritesInv, Shape, TakeBlock, CountersOK, history
<1>4. k \in Call /\ k.no = call[c].no /\ k.op = call[c].op /\ k.ret = call[c].ret
  BY <1>1 DEF Call
<1>5. call' = [call EXCEPT ![c] = k] /\ pc' = [pc EXCEPT ![c] = step]
  BY DEF TakeBlock, Goto
<1>6. Fits(step, k) /\ step \in Steps \ {"idle"}
  BY <1>1, <1>4 DEF Fits, Steps
<1>7. step = "use" \/ (step = "begin" /\ k.op = "cow")
  BY <1>4
<1> HIDE DEF k, step
<1>8. Moves(c, step, k)
  BY <1>3, <1>4, <1>5, <1>6 DEF Moves
<1>9. Shape' /\ LogInv'
  BY <1>1, <1>3, <1>4, <1>6, <1>8, MoveShape, MoveLog DEF WritesInv
<1>10. Kept' = Kept /\ Leaked' = Leaked
  BY <1>3 DEF Kept, IsKept, Leaked, IsLost
<1>11. c \notin Holding /\ Holding' = Holding \cup {c}
  <2>1. \A b \in Callers \ {c} : Holds(b)' <=> Holds(b)
    BY <1>5 DEF WritesInv, Shape, Holds
  <2>2. ~Holds(c) /\ Holds(c)'
    BY <1>1, <1>4, <1>5, <1>7 DEF WritesInv, Shape, Holds
  <2> QED
    BY <2>1, <2>2 DEF Holding
<1>12. Cardinality(Holding') = Cardinality(Holding) + 1
  BY <1>11, CountsFinite, FS_AddElement DEF WritesInv
<1>13. SpaceInv'
  <2> SUFFICES ASSUME ~lost_count'
               PROVE  s_free_blocks' + Cardinality(Kept') + Cardinality(Leaked')
                        + Cardinality(Holding') = mounted_free'
    BY DEF SpaceInv
  <2>1. ~lost_count /\ call[c].seen = s_free_blocks /\ s_free_blocks # 0
    BY DEF TakeBlock, Stale
  <2>2. s_free_blocks' = s_free_blocks - 1
    BY <1>2, <2>1, Wraps DEF TakeBlock
  <2>3. s_free_blocks + Cardinality(Kept) + Cardinality(Leaked) + Cardinality(Holding)
          = mounted_free
    BY <2>1 DEF WritesInv, SpaceInv
  <2> QED
    BY <1>2, <1>3, <1>10, <1>12, <2>2, <2>3, CountsFinite DEF CountersOK, history, WritesInv
<1> QED
  BY <1>9, <1>13 DEF WritesInv

(* The store that gives a block back.  It cannot pass W: a block is held.  *)
LEMMA GiveStep == ASSUME WritesInv, NEW c \in Callers, GiveBlock(c) PROVE WritesInv'
<1> DEFINE ret == call[c].ret
<1>1. /\ c \in Running /\ Fits(pc[c], call[c]) /\ call[c] \in Call /\ pc[c] = "given"
      /\ Shape
  BY DEF WritesInv, Shape, Running, GiveBlock
<1>2. /\ call[c].seen \in Nat /\ s_free_blocks \in 0 .. (W - 1) /\ W \in Nat
      /\ ret \in Results /\ mounted_free \in 0 .. (W - 1)
  BY <1>1, WritesAssumption DEF Shape, Call
<1>3. CountersOK /\ UNCHANGED il_intents /\ Return(c, ret)
  BY <1>1, <1>2, Wraps DEF Shape, GiveBlock, CountersOK, history
<1>4. Holds(c) /\ ~IsKept(call[c].op, ret) /\ ~IsLost(call[c].op, ret)
  BY <1>1 DEF Holds, Fits, IsKept, IsLost
<1>5. Shape' /\ LogInv'
  BY <1>1, <1>2, <1>3, ReturnShape, ReturnLog DEF WritesInv, LogInv, Backed
<1>6. /\ Cardinality(Kept') = Cardinality(Kept) /\ Cardinality(Leaked') = Cardinality(Leaked)
      /\ Cardinality(Holding') = Cardinality(Holding) - 1
  BY <1>1, <1>2, <1>3, <1>4, ReturnCounts, CountsFinite
<1>7. Cardinality(Holding) # 0
  <2>1. c \in Holding
    BY <1>4 DEF Holding
  <2> QED
    BY <1>1, <2>1, CountsFinite, FS_EmptySet
<1>8. SpaceInv'
  <2> SUFFICES ASSUME ~lost_count'
               PROVE  s_free_blocks' + Cardinality(Kept') + Cardinality(Leaked')
                        + Cardinality(Holding') = mounted_free'
    BY DEF SpaceInv
  <2>1. ~lost_count /\ call[c].seen = s_free_blocks
    BY DEF GiveBlock, Stale
  <2>2. s_free_blocks + Cardinality(Kept) + Cardinality(Leaked) + Cardinality(Holding)
          = mounted_free
    BY <2>1 DEF WritesInv, SpaceInv
  <2>3. s_free_blocks + 1 \in 0 .. (W - 1)
    BY <1>1, <1>2, <1>7, <2>2, CountsFinite
  <2>4. s_free_blocks' = s_free_blocks + 1
    BY <1>2, <2>1, <2>3, Wraps DEF GiveBlock
  <2> QED
    BY <1>1, <1>2, <1>3, <1>6, <2>2, <2>4, CountsFinite DEF CountersOK, history
<1> QED
  BY <1>5, <1>8 DEF WritesInv

-----------------------------------------------------------------------------
(* The intent is added under the number of the call, which is at its       *)
(* commit from then on; no other call has that number.                     *)
LEMMA AddIntentStep == ASSUME WritesInv, NEW c \in Callers, AddIntent(c) PROVE WritesInv'
<1>1. /\ c \in Running /\ Fits(pc[c], call[c]) /\ call[c] \in Call /\ pc[c] = "add"
      /\ Shape /\ LogInv
  BY DEF WritesInv, Shape, Running, AddIntent
<1>2. CountersOK /\ UNCHANGED << s_free_blocks, lost_count, calls >>
  BY <1>1, RestOK DEF Rest, AddIntent, CountersOK, history
<1>3. /\ pc' = [pc EXCEPT ![c] = "commit"] /\ call' = [call EXCEPT ![c] = call[c]]
      /\ UNCHANGED << call, done >>
  BY <1>1 DEF Shape, AddIntent, Goto
<1>4. Moves(c, "commit", call[c]) /\ "commit" \in Steps \ {"idle"}
  BY <1>1, <1>3 DEF Moves, Fits, Steps
<1>5. Shape' /\ Running' = Running
  BY <1>1, <1>2, <1>4, MoveShape
<1>6. Holds(c)' <=> Holds(c)
  BY <1>1, <1>3 DEF Shape, Holds
<1>7. SpaceInv'
  BY <1>1, <1>2, <1>4, <1>6, MoveSpace
<1>8. \A b \in Running \ {c} : pc'[b] = pc[b]
  BY <1>1, <1>3 DEF Shape, Running
<1>9. ASSUME NEW i \in il_intents PROVE Backed(i)'
  <2>1. Backed(i) /\ call[c].no # i.no
    BY <1>1 DEF LogInv, Backed
  <2> QED
    BY <1>2, <1>3, <1>5, <1>8, <2>1 DEF Backed
<1>10. Backed(Intent(c))'
  <2> DEFINE i == Intent(c)
  <2>1. i.no = call[c].no /\ i.ie_new = call[c].number /\ i \in Entry
    BY <1>1 DEF Intent, Call, Entry
  <2>2. Intent(c)' = i
    BY <1>3 DEF Intent
  <2> HIDE DEF i
  <2>3. i.no \in 1 .. calls /\ pc'[c] = "commit"
    BY <1>1, <1>3, <2>1 DEF Shape, Running
  <2>4. \A b \in Running : call[b].no = i.no => b = c
    BY <1>1, <2>1 DEF Shape
  <2>5. \A d \in done : d.no # i.no
    BY <1>1, <2>1 DEF Shape
  <2> QED
    BY <1>2, <1>3, <1>5, <2>1, <2>2, <2>3, <2>4, <2>5 DEF Backed
<1>11. LogInv'
  <2>1. \A i \in il_intents' : i \in il_intents \/ i = Intent(c)
    BY DEF AddIntent
  <2>2. Intent(c)' = Intent(c)
    BY <1>3 DEF Intent
  <2> QED
    BY <1>9, <1>10, <2>1, <2>2 DEF LogInv
<1> QED
  BY <1>5, <1>7, <1>11 DEF WritesInv

(* The commit changes the state of intents, and the write returns 0.       *)
LEMMA CommitStep == ASSUME WritesInv, NEW c \in Callers, CommitTxn(c) PROVE WritesInv'
<1>1. /\ c \in Running /\ Fits(pc[c], call[c]) /\ pc[c] = "commit" /\ Shape
  BY DEF WritesInv, Shape, Running, CommitTxn
<1>2. CountersOK /\ UNCHANGED << s_free_blocks, lost_count >> /\ "ok" \in Results
  BY <1>1, RestOK DEF Rest, CommitTxn, Results
<1>3. Return(c, "ok")
  BY DEF CommitTxn
<1>4. Holds(c) <=> (IsKept(call[c].op, "ok") \/ IsLost(call[c].op, "ok"))
  BY <1>1 DEF Fits, Holds, IsKept, IsLost, Takers
<1>5. \A i \in il_intents' :
        i \in Entry /\ \E j \in il_intents : i.no = j.no /\ i.ie_new = j.ie_new
  <2> SUFFICES ASSUME NEW i \in il_intents'
               PROVE  i \in Entry /\ \E j \in il_intents : i.no = j.no /\ i.ie_new = j.ie_new
    OBVIOUS
  <2>1. PICK j \in il_intents : i = j \/ i = [j EXCEPT !.ie_state = "COMMITTED"]
    BY DEF CommitTxn
  <2>2. j \in Entry
    BY DEF WritesInv, LogInv, Backed
  <2> QED
    BY <2>1, <2>2 DEF Entry
<1> QED
  BY <1>1, <1>2, <1>3, <1>4, <1>5, QuietReturn

(* The tests and stores that go on or fail.                                *)
LEMMA TestStep ==
    ASSUME WritesInv, NEW c \in Callers,
           CheckFree(c) \/ NoTransaction(c) \/ StoreTxn(c) \/ TestTxn(c)
    PROVE  WritesInv'
<1>1. Shape /\ call[c] \in Call /\ {"ENOMEM", "id"} \subseteq Results \ {"ok", "ENOSPC"}
  BY DEF WritesInv, Shape, Results
<1>2. CASE CheckFree(c)
  <2>1. Rest /\ UNCHANGED il_intents /\ pc[c] = "check"
    BY <1>2 DEF CheckFree, Rest
  <2> QED
    BY <1>1, <1>2, <2>1, RestOK, EmptyHanded, PassStep DEF CheckFree
<1>3. CASE NoTransaction(c)
  BY <1>1, <1>3, FailStep DEF NoTransaction, Rest
<1>4. CASE StoreTxn(c)
  <2>1. CountersOK
    BY <1>1, <1>4 DEF StoreTxn, Shape, Call, CountersOK, history
  <2> QED
    BY <1>4, <2>1, PassStep DEF StoreTxn
<1>5. CASE TestTxn(c)
  <2>1. Rest /\ UNCHANGED il_intents /\ pc[c] = "test"
    BY <1>5 DEF TestTxn, Rest
  <2> QED
    BY <1>1, <1>5, <2>1, RestOK, FailStep, PassStep DEF TestTxn
<1> QED
  BY <1>2, <1>3, <1>4, <1>5

(* Every step keeps the invariant.                                         *)
LEMMA WritesStep == WritesInv /\ [Next]_vars => WritesInv'
<1> SUFFICES ASSUME WritesInv, [Next]_vars PROVE WritesInv'
  OBVIOUS
<1>1. CASE UNCHANGED vars
  <2>1. /\ s_free_blocks' = s_free_blocks /\ s_next_ino' = s_next_ino
        /\ txn_counter' = txn_counter /\ il_intents' = il_intents /\ pc' = pc
        /\ call' = call /\ done' = done /\ calls' = calls
        /\ mounted_free' = mounted_free /\ lost_count' = lost_count
    BY <1>1 DEF vars, counters, history
  <2>2. Running' = Running
    BY <2>1 DEF Running
  <2>3. Holding' = Holding
    BY <2>1 DEF Holding, Holds
  <2>4. Kept' = Kept /\ Leaked' = Leaked
    BY <2>1 DEF Kept, Leaked
  <2>5. Shape'
    BY <2>1, <2>2 DEF WritesInv, Shape
  <2>6. LogInv'
    BY <2>1, <2>2 DEF WritesInv, LogInv, Backed
  <2>7. SpaceInv'
    BY <2>1, <2>3, <2>4 DEF WritesInv, SpaceInv
  <2> QED
    BY <2>5, <2>6, <2>7 DEF WritesInv
<1>2. ASSUME NEW c \in Callers, NEW op \in Ops, Begin(c, op) PROVE WritesInv'
  BY <1>2, BeginStep
<1>3. ASSUME NEW c \in Callers, NEW ret \in {"ok", "ENOMEM"}, NewInode(c, ret) PROVE WritesInv'
  BY <1>3, EmptyHanded DEF NewInode, Rest
<1>4. CASE Next
  BY <1>2, <1>3, <1>4, TestStep, LoadStep, StoreNumberStep, TakeStep, GiveStep, UseStep,
     AddIntentStep, CommitStep DEF Next
<1> QED
  BY <1>1, <1>4

-----------------------------------------------------------------------------
(***************************************************************************)
(* With any number of callers, and wherever they are interrupted: as long  *)
(* as no update of s_free_blocks is lost, the free count is exact whenever *)
(* nobody is inside a write, counting the blocks that write_mode,          *)
(* convert_inline and get_blocks lose when they fail.                      *)
(***************************************************************************)
THEOREM FreeSpaceExact == Spec => []SpaceAccounted
<1>1. WritesInv => SpaceAccounted
  <2> SUFFICES ASSUME WritesInv, Quiet, ~lost_count
               PROVE  s_free_blocks = mounted_free - Cardinality(Kept) - Cardinality(Leaked)
    BY DEF SpaceAccounted
  <2>1. Holding = {}
    <3>1. \A c \in Callers : call[c] = NoCall
      BY DEF WritesInv, Shape, Running, Quiet
    <3> QED
      BY <3>1 DEF Holding, Holds, Quiet, NoCall, NewCall
  <2>2. s_free_blocks \in Nat /\ mounted_free \in Nat /\ Shape
    BY WritesAssumption DEF WritesInv, Shape
  <2> QED
    BY <2>1, <2>2, CountsFinite, FS_EmptySet DEF WritesInv, SpaceInv
<1> QED
  BY <1>1, InitWrites, WritesStep, PTL DEF Spec

(***************************************************************************)
(* With any number of callers and any capacity of the log: no write that   *)
(* failed, and gave its block back, has left an intent for a replay.       *)
(***************************************************************************)
THEOREM NoIntentOfFailedWrite == Spec => []IntentsHoldBlocks
<1>1. WritesInv => IntentsHoldBlocks
  <2> SUFFICES ASSUME WritesInv, NEW i \in il_intents, NEW k \in Calls, k.no = i.no
               PROVE  k.ret = "ok" /\ k.number = i.ie_new
    BY DEF IntentsHoldBlocks
  <2>1. Shape /\ Backed(i)
    BY DEF WritesInv, LogInv
  <2>2. CASE k \in done
    BY <2>1, <2>2 DEF Backed
  <2>3. ASSUME NEW c \in Callers, k = call[c] PROVE k.ret = "ok" /\ k.number = i.ie_new
    <3>1. c \in Running
      BY <2>1, <2>3 DEF Shape, Backed, NoCall, NewCall
    <3> QED
      BY <2>1, <2>3, <3>1 DEF Shape, Backed, Fits
  <2> QED
    BY <2>2, <2>3 DEF Calls
<1> QED
  BY <1>1, InitWrites, WritesStep, PTL DEF Spec

-----------------------------------------------------------------------------
(***************************************************************************)
(* Numbers: those given out lie below the counter, so the next one is new. *)
(***************************************************************************)
BlocksApart ==
    s_next_ino <= PerGroup /\ s_next_ino <= BlocksCount - DataStart =>
        /\ \A k \in Numbers(Takers) : k.number < DataStart + s_next_ino
        /\ \A j, k \in Numbers(Takers) : j.no # k.no => j.number # k.number

InodesApart ==
    /\ \A k \in Numbers({"inode"}) : k.number = RootIno + 1 \/ k.number < s_next_ino
    /\ \A j, k \in Numbers({"inode"}) :
          j.no # k.no => j.number # k.number \/ j.number = RootIno + 1

NumberInv ==
    /\ lost_number \in BOOLEAN /\ \A k \in Calls : k.number \in Nat
    /\ ~lost_number => BlocksApart /\ InodesApart

Same(j, k) == j.no = k.no /\ j.op = k.op /\ j.number = k.number

(* The calls of the next state that have a number have it now.             *)
Carried == \A k \in Calls' : k.number = 0 \/ \E j \in Calls : Same(j, k)

(* Such a step gives out no number.                                        *)
LEMMA CarriedStep ==
    ASSUME NumberInv, Carried, UNCHANGED << s_next_ino, lost_number >>
    PROVE  NumberInv'
<1>1. \A k \in Calls' : k.number \in Nat
  BY DEF NumberInv, Carried, Same
<1>2. ASSUME NEW ops, NEW k \in Numbers(ops)'
      PROVE  \E j \in Numbers(ops) : Same(j, k)
  BY DEF Numbers, Carried, Same
<1>3. ASSUME ~lost_number PROVE BlocksApart'
  <2> SUFFICES ASSUME s_next_ino <= PerGroup, s_next_ino <= BlocksCount - DataStart
               PROVE  /\ \A k \in Numbers(Takers)' : k.number < DataStart + s_next_ino
                      /\ \A j, k \in Numbers(Takers)' : j.no # k.no => j.number # k.number
    BY DEF BlocksApart
  <2>1. /\ \A k \in Numbers(Takers) : k.number < DataStart + s_next_ino
        /\ \A j, k \in Numbers(Takers) : j.no # k.no => j.number # k.number
    BY <1>3 DEF NumberInv, BlocksApart
  <2> QED
    BY <1>2, <2>1 DEF Same
<1>4. ASSUME ~lost_number PROVE InodesApart'
  <2>1. /\ \A k \in Numbers({"inode"}) : k.number = RootIno + 1 \/ k.number < s_next_ino
        /\ \A j, k \in Numbers({"inode"}) :
              j.no # k.no => j.number # k.number \/ j.number = RootIno + 1
    BY <1>4 DEF NumberInv, InodesApart
  <2>2. \A k \in Numbers({"inode"})' : \E j \in Numbers({"inode"}) : Same(j, k)
    BY <1>2
  <2> QED
    BY <2>1, <2>2 DEF InodesApart, Same
<1> QED
  BY <1>1, <1>3, <1>4 DEF NumberInv

(* A call that goes on or returns takes its number along.                  *)
LEMMA GoesOn ==
    ASSUME Shape, NEW c \in Callers, NEW k, call' = [call EXCEPT ![c] = k], UNCHANGED done,
           k.number = 0 \/ Same(call[c], k)
    PROVE  Carried
<1>1. \A b \in Callers : call'[b] = IF b = c THEN k ELSE call[b]
  BY DEF Shape
<1> QED
  BY <1>1 DEF Carried, Calls, Same

(* The same for a return.                                                  *)
LEMMA ReturnCarries ==
    ASSUME Shape, NEW c \in Callers, NEW ret, Return(c, ret) PROVE Carried
<1> DEFINE d == [no |-> call[c].no, op |-> call[c].op, number |-> call[c].number, ret |-> ret]
<1>1. \A b \in Callers : call'[b] = IF b = c THEN NoCall ELSE call[b]
  BY DEF Shape, Return
<1>2. done' = done \cup {d} /\ Same(call[c], d) /\ NoCall.number = 0
  BY DEF Return, Same, NoCall, NewCall
<1> HIDE DEF d
<1> QED
  BY <1>1, <1>2 DEF Carried, Calls, Same

(* The same for an error.                                                  *)
LEMMA FailCarries ==
    ASSUME Shape, NEW c \in Callers, NEW ret, Fail(c, ret) PROVE Carried
<1>1. CASE Return(c, ret)
  BY <1>1, ReturnCarries
<1>2. CASE call' = [call EXCEPT ![c].ret = ret] /\ UNCHANGED done
  <2>1. Same(call[c], [call[c] EXCEPT !.ret = ret])
    BY DEF Shape, Call, Same
  <2> QED
    BY <1>2, <2>1, GoesOn
<1> QED
  BY <1>1, <1>2 DEF Fail

(* Every step but the store of s_next_ino.                                 *)
LEMMA OtherNumbers ==
    ASSUME Shape, NEW c \in Callers,
           \/ \E op \in Ops : Begin(c, op)
           \/ CheckFree(c) \/ LoadNumber(c) \/ \E ret \in {"ok", "ENOMEM"} : NewInode(c, ret)
           \/ LoadFree(c) \/ TakeBlock(c) \/ GiveBlock(c)
           \/ write_mode(c) \/ convert_inline(c) \/ tail_pack(c) \/ get_blocks(c)
           \/ get_first_block(c) \/ NoTransaction(c) \/ LoadTxn(c) \/ StoreTxn(c) \/ TestTxn(c)
           \/ AddIntent(c) \/ CommitTxn(c)
    PROVE  Carried /\ UNCHANGED << s_next_ino, lost_number >>
<1>1. call[c] \in Call
  BY DEF Shape
<1>2. ASSUME NEW op \in Ops, Begin(c, op) PROVE Carried
  <2>1. call' = [call EXCEPT ![c] = NewCall(calls + 1, op)] /\ UNCHANGED done
    BY <1>2 DEF Begin
  <2>2. NewCall(calls + 1, op).number = 0
    BY DEF NewCall
  <2> QED
    BY <2>1, <2>2, GoesOn
<1>3. ASSUME UNCHANGED << call, done >> PROVE Carried
  BY <1>3 DEF Carried, Calls, Same
<1>4. CASE LoadNumber(c) \/ LoadFree(c) \/ TakeBlock(c) \/ LoadTxn(c)
  <2>1. PICK n : \/ call' = [call EXCEPT ![c] = [call[c] EXCEPT !.seen = n]]
                 \/ call' = [call EXCEPT ![c] = [call[c] EXCEPT !.xt_id = n]]
    BY <1>4 DEF LoadNumber, LoadFree, TakeBlock, LoadTxn
  <2>2. /\ Same(call[c], [call[c] EXCEPT !.seen = n])
        /\ Same(call[c], [call[c] EXCEPT !.xt_id = n])
    BY <1>1 DEF Call, Same
  <2>3. UNCHANGED done
    BY <1>4 DEF LoadNumber, LoadFree, TakeBlock, LoadTxn
  <2>4. Carried
    BY <2>1, <2>2, <2>3, GoesOn
  <2> QED
    BY <1>4, <2>4 DEF LoadNumber, LoadFree, TakeBlock, LoadTxn, counters
<1>5. CASE CheckFree(c) \/ StoreTxn(c) \/ AddIntent(c) \/ CommitTxn(c) \/ GiveBlock(c)
  BY <1>3, <1>5, ReturnCarries DEF CheckFree, StoreTxn, AddIntent, CommitTxn, GiveBlock, counters
<1>6. CASE NoTransaction(c) \/ TestTxn(c) \/ get_first_block(c)
  BY <1>3, <1>6, FailCarries DEF NoTransaction, TestTxn, get_first_block, counters
<1>7. CASE write_mode(c) \/ convert_inline(c) \/ tail_pack(c) \/ get_blocks(c)
  BY <1>7, ReturnCarries, FailCarries
     DEF write_mode, convert_inline, tail_pack, get_blocks, UseBlock, counters
<1>8. CASE \E ret \in {"ok", "ENOMEM"} : NewInode(c, ret)
  BY <1>8, ReturnCarries DEF NewInode, counters
<1>9. CASE \E op \in Ops : Begin(c, op)
  BY <1>2, <1>9 DEF Begin, counters
<1> QED
  BY <1>4, <1>5, <1>6, <1>7, <1>8, <1>9

(* The store of s_next_ino, when it is the value that was loaded.          *)
LEMMA NumberStep ==
    ASSUME Shape, NumberInv, NEW c \in Callers, StoreNumber(c) PROVE NumberInv'
<1> DEFINE n == call[c].seen
           number == IF call[c].op = "inode" THEN InoOf(n) ELSE BlockOf(n)
           k == [call[c] EXCEPT !.number = number]
<1>1. call[c] \in Call /\ n \in Nat /\ s_next_ino \in Nat
  BY DEF Shape, Call
<1>2. number \in Nat
  BY <1>1, NumberType
<1>3. k.no = call[c].no /\ k.op = call[c].op /\ k.number = number
  <2> HIDE DEF number
  <2> QED
    BY <1>1 DEF Call
<1>4. call' = [call EXCEPT ![c] = k] /\ UNCHANGED done
  BY DEF StoreNumber
<1>5. s_next_ino' = n + 1 /\ lost_number' = (lost_number \/ n # s_next_ino)
  BY DEF StoreNumber
<1> HIDE DEF k
<1>6. \A b \in Callers : call'[b] = IF b = c THEN k ELSE call[b]
  BY <1>4 DEF Shape
<1>7. \A j \in Calls' : j = k \/ j \in Calls
  BY <1>4, <1>6 DEF Calls
<1>8. lost_number' \in BOOLEAN
  BY <1>5
<1>9. \A j \in Calls' : j.number \in Nat
  BY <1>2, <1>3, <1>7 DEF NumberInv
<1>10. \A ops : Numbers(ops)' \subseteq Numbers(ops) \cup {k}
  BY <1>7 DEF Numbers
<1>11. ASSUME ~lost_number' PROVE BlocksApart'
  <2> SUFFICES ASSUME n + 1 <= PerGroup, n + 1 <= BlocksCount - DataStart
               PROVE  /\ \A j \in Numbers(Takers)' : j.number < DataStart + n + 1
                      /\ \A i, j \in Numbers(Takers)' : i.no # j.no => i.number # j.number
    BY <1>1, <1>5, WritesAssumption DEF BlocksApart
  <2>1. ~lost_number /\ n = s_next_ino
    BY <1>5, <1>11
  <2>2. /\ \A j \in Numbers(Takers) : j.number < DataStart + n
        /\ \A i, j \in Numbers(Takers) : i.no # j.no => i.number # j.number
    BY <1>1, <2>1, WritesAssumption DEF NumberInv, BlocksApart
  <2>3. BlockOf(n) = DataStart + n
    <3>1. n % PerGroup = n
      BY <1>1, WritesAssumption
    <3> QED
      BY <1>1, <3>1, WritesAssumption DEF BlockOf
  <2>4. k \in Numbers(Takers)' => k.number = DataStart + n
    <3>1. k \in Numbers(Takers)' => k.op # "inode"
      BY DEF Numbers, Takers
    <3> QED
      BY <1>3, <2>3, <3>1
  <2>5. \A j \in Numbers(Takers) : j.number \in Nat
    BY DEF NumberInv, Numbers
  <2>6. Numbers(Takers)' \subseteq Numbers(Takers) \cup {k}
    BY <1>10
  <2> HIDE DEF n
  <2> QED
    BY <1>1, <2>2, <2>4, <2>5, <2>6, WritesAssumption
<1>12. ASSUME ~lost_number' PROVE InodesApart'
  <2>1. ~lost_number /\ n = s_next_ino
    BY <1>5, <1>12
  <2>2. /\ \A j \in Numbers({"inode"}) : j.number = RootIno + 1 \/ j.number < n
        /\ \A i, j \in Numbers({"inode"}) :
              i.no # j.no => i.number # j.number \/ i.number = RootIno + 1
    BY <2>1 DEF NumberInv, InodesApart
  <2>3. k \in Numbers({"inode"})' => k.number = InoOf(n)
    BY <1>3 DEF Numbers
  <2>4. InoOf(n) = RootIno + 1 \/ (InoOf(n) = n /\ n > RootIno + 1)
    BY <1>1, WritesAssumption DEF InoOf
  <2>5. \A j \in Numbers({"inode"}) : j.number \in Nat
    BY DEF NumberInv, Numbers
  <2>6. Numbers({"inode"})' \subseteq Numbers({"inode"}) \cup {k}
    BY <1>10
  <2> HIDE DEF n
  <2>7. \A j \in Numbers({"inode"})' : j.number = RootIno + 1 \/ j.number < n + 1
    BY <1>1, <2>2, <2>3, <2>4, <2>5, <2>6, WritesAssumption
  <2>8. \A i, j \in Numbers({"inode"})' :
              i.no # j.no => i.number # j.number \/ i.number = RootIno + 1
    BY <1>1, <2>2, <2>3, <2>4, <2>5, <2>6, WritesAssumption
  <2> QED
    BY <1>5, <2>7, <2>8 DEF InodesApart
<1> QED
  BY <1>8, <1>9, <1>11, <1>12 DEF NumberInv

(***************************************************************************)
(* With any number of callers: as long as no increment of s_next_ino is    *)
(* lost, no two calls get one block before the counter passes the group or *)
(* the device, and no two inodes one number but the root's successor.      *)
(***************************************************************************)
THEOREM NumbersStayDistinct == Spec => []NumbersDistinct
<1>1. Init => NumberInv
  <2> SUFFICES ASSUME Init PROVE NumberInv
    OBVIOUS
  <2>1. \A k \in Calls : k.number = 0
    BY DEF Init, Calls, NoCall, NewCall
  <2>2. Numbers(Takers) = {} /\ Numbers({"inode"}) = {}
    BY <2>1 DEF Numbers
  <2>3. BlocksApart /\ InodesApart
    BY <2>2 DEF BlocksApart, InodesApart
  <2>4. lost_number \in BOOLEAN
    BY DEF Init
  <2> QED
    BY <2>1, <2>3, <2>4 DEF NumberInv
<1>2. WritesInv /\ NumberInv /\ [Next]_vars => NumberInv'
  <2> SUFFICES ASSUME WritesInv, NumberInv, [Next]_vars PROVE NumberInv'
    OBVIOUS
  <2>1. CASE UNCHANGED vars
    BY <2>1 DEF vars, counters, NumberInv, BlocksApart, InodesApart, Numbers, Calls
  <2>2. CASE Next
    <3>1. PICK c \in Callers :
            StoreNumber(c) \/ (Carried /\ UNCHANGED << s_next_ino, lost_number >>)
      BY <2>2, OtherNumbers DEF Next, WritesInv
    <3> QED
      BY <3>1, NumberStep, CarriedStep DEF WritesInv
  <2> QED
    BY <2>1, <2>2
<1>3. NumberInv => NumbersDistinct
  BY DEF NumberInv, BlocksApart, InodesApart, NumbersDistinct
<1> QED
  BY <1>1, <1>2, <1>3, InitWrites, WritesStep, PTL DEF Spec

-----------------------------------------------------------------------------
(***************************************************************************)
(* Types.  The blocks given out lie in the first group after DataStart,    *)
(* the inode numbers above the root's, and the log never outgrows its      *)
(* array although transaction_add_intent ignores that it is full.          *)
(***************************************************************************)
Ranged(k) ==
    /\ k.number \in Nat
    /\ k.number # 0 /\ k.op \in Takers => k.number \in DataStart .. (DataStart + PerGroup - 1)
    /\ k.number # 0 /\ k.op = "inode" => k.number > RootIno

TypeInv ==
    /\ txn_counter # 0 /\ IsFiniteSet(il_intents) /\ Cardinality(il_intents) <= il_capacity
    /\ \A k \in Calls : Ranged(k)
    /\ \A d \in done : d.op \in Ops \cup {"none"}

(* What aetherfs_alloc_blocks and aetherfs_new_inode make of the counter.  *)
LEMMA NumberRange ==
    ASSUME NEW n \in Nat
    PROVE  BlockOf(n) \in DataStart .. (DataStart + PerGroup - 1) /\ InoOf(n) > RootIno
<1>1. n % PerGroup \in 0 .. (PerGroup - 1)
  BY WritesAssumption
<1>2. /\ BlockOf(n) = (n % PerGroup) + DataStart \/ BlockOf(n) = DataStart
      /\ InoOf(n) = RootIno + 1 \/ (InoOf(n) = n /\ ~(n < RootIno + 1))
  BY DEF BlockOf, InoOf
<1> QED
  BY <1>1, <1>2, WritesAssumption

(* The numbers of the calls stay in their range.                           *)
LEMMA RangeStep ==
    ASSUME Shape, TypeInv, Next PROVE \A k \in Calls' : Ranged(k)
<1>1. PICK c \in Callers : StoreNumber(c) \/ Carried
  BY OtherNumbers DEF Next
<1>2. CASE Carried
  BY <1>2 DEF Carried, Same, Ranged, TypeInv
<1>3. CASE StoreNumber(c)
  <2> DEFINE n == call[c].seen
             number == IF call[c].op = "inode" THEN InoOf(n) ELSE BlockOf(n)
             k == [call[c] EXCEPT !.number = number]
  <2>1. call[c] \in Call /\ n \in Nat
    BY DEF Shape, Call
  <2>2. call' = [call EXCEPT ![c] = k] /\ UNCHANGED done
    BY <1>3 DEF StoreNumber
  <2>3. number \in Nat
    BY <2>1, NumberType
  <2>4. k.op = call[c].op /\ k.number = number
    <3> HIDE DEF number
    <3> QED
      BY <2>1 DEF Call
  <2>5. k.op = "inode" => number > RootIno
    BY <2>1, <2>4, NumberRange
  <2>6. k.op \in Takers => number \in DataStart .. (DataStart + PerGroup - 1)
    <3>1. k.op \in Takers => k.op # "inode"
      BY DEF Takers
    <3> QED
      BY <2>1, <2>4, <3>1, NumberRange
  <2> HIDE DEF k, number
  <2>7. Ranged(k)
    BY <2>3, <2>4, <2>5, <2>6 DEF Ranged
  <2>8. \A b \in Callers : call'[b] = IF b = c THEN k ELSE call[b]
    BY <2>2 DEF Shape
  <2>9. \A j \in Calls' : j = k \/ j \in Calls
    BY <2>2, <2>8 DEF Calls
  <2> QED
    BY <2>7, <2>9 DEF TypeInv
<1> QED
  BY <1>1, <1>2, <1>3

(* A call that returns is one of the functions modelled.                   *)
LEMMA DoneStep ==
    ASSUME Shape, TypeInv, Next PROVE \A d \in done' : d.op \in Ops \cup {"none"}
<1>1. PICK c \in Callers : UNCHANGED done \/ \E ret : Return(c, ret)
  BY DEF Next, Begin, CheckFree, LoadNumber, StoreNumber, NewInode, LoadFree, TakeBlock,
         GiveBlock, write_mode, convert_inline, tail_pack, get_blocks, get_first_block,
         UseBlock, Fail, NoTransaction, LoadTxn, StoreTxn, TestTxn, AddIntent, CommitTxn
<1>2. call[c] \in Call
  BY DEF Shape
<1>3. call[c].op \in Ops \cup {"none"}
  BY <1>2 DEF Call
<1>4. \A d \in done' : d \in done \/ d.op = call[c].op
  BY <1>1 DEF Return
<1> QED
  BY <1>3, <1>4 DEF TypeInv

(* The log takes an intent only when there is room; a commit rewrites the  *)
(* intents in their places.                                                *)
LEMMA LogStep ==
    ASSUME TypeInv, Next
    PROVE  IsFiniteSet(il_intents') /\ Cardinality(il_intents') <= il_capacity
<1> DEFINE log == il_intents
<1>1. PICK c \in Callers : UNCHANGED il_intents \/ AddIntent(c) \/ CommitTxn(c)
  BY DEF Next, Begin, CheckFree, LoadNumber, StoreNumber, NewInode, LoadFree, TakeBlock,
         GiveBlock, write_mode, convert_inline, tail_pack, get_blocks, get_first_block,
         UseBlock, NoTransaction, LoadTxn, StoreTxn, TestTxn
<1>2. IsFiniteSet(log) /\ Cardinality(log) \in Nat /\ Cardinality(log) <= il_capacity
  BY FS_CardinalityType DEF TypeInv
<1>3. CASE UNCHANGED il_intents
  BY <1>2, <1>3
<1>4. CASE AddIntent(c)
  <2>1. il_intents' = log \/ (il_intents' = log \cup {Intent(c)} /\ Cardinality(log) < il_capacity)
    BY <1>4 DEF AddIntent, LogHasRoom
  <2> HIDE DEF log
  <2>2. /\ IsFiniteSet(log \cup {Intent(c)})
        /\ \/ Cardinality(log \cup {Intent(c)}) = Cardinality(log)
           \/ Cardinality(log \cup {Intent(c)}) = Cardinality(log) + 1
    BY <1>2, FS_AddElement
  <2> QED
    BY <1>2, <2>1, <2>2, WritesAssumption
<1>5. CASE CommitTxn(c)
  <2> DEFINE f == [i \in log |-> IF i.ie_txn = call[c].xt_id
                                 THEN [i EXCEPT !.ie_state = "COMMITTED"] ELSE i]
  <2>1. il_intents' = {f[i] : i \in log}
    BY <1>5 DEF CommitTxn
  <2>2. f \in Surjection(log, il_intents')
    <3> HIDE DEF log
    <3> QED
      BY <2>1 DEF Surjection
  <2> HIDE DEF log, f
  <2>3. IsFiniteSet(il_intents') /\ Cardinality(il_intents') <= Cardinality(log)
    BY <1>2, <2>2, FS_Surjection
  <2>4. Cardinality(il_intents') \in Nat
    BY <2>3, FS_CardinalityType
  <2> QED
    BY <1>2, <2>3, <2>4, WritesAssumption
<1> QED
  BY <1>1, <1>3, <1>4, <1>5

(* An identifier is stored one higher than it was loaded.                  *)
LEMMA TxnStep == ASSUME Shape, TypeInv, Next PROVE txn_counter' # 0
<1>1. PICK c \in Callers : UNCHANGED txn_counter \/ txn_counter' = call[c].xt_id + 1
  BY DEF Next, counters, Begin, CheckFree, LoadNumber, StoreNumber, NewInode, LoadFree,
         TakeBlock, GiveBlock, write_mode, convert_inline, tail_pack, get_blocks,
         get_first_block, UseBlock, NoTransaction, LoadTxn, StoreTxn, TestTxn, AddIntent,
         CommitTxn
<1>2. call[c] \in Call
  BY DEF Shape
<1>3. call[c].xt_id \in Nat
  BY <1>2 DEF Call
<1> QED
  BY <1>1, <1>3 DEF TypeInv

(***************************************************************************)
(* The counters, the log and the numbers given out keep their ranges, for  *)
(* any number of callers and whatever updates are lost: a block number     *)
(* stays within its group, an inode number above the root's, and the log   *)
(* within il_capacity.                                                     *)
(***************************************************************************)
THEOREM WritesTypeCorrect == Spec => []TypeOK
<1>1. Init => TypeInv
  <2> SUFFICES ASSUME Init PROVE TypeInv
    OBVIOUS
  <2>1. \A k \in Calls : k.number = 0
    BY DEF Init, Calls, NoCall, NewCall
  <2>2. IsFiniteSet({}) /\ Cardinality({}) = 0
    BY FS_EmptySet
  <2>3. txn_counter # 0 /\ IsFiniteSet(il_intents) /\ Cardinality(il_intents) <= il_capacity
    BY <2>2, WritesAssumption DEF Init
  <2> QED
    BY <2>1, <2>3 DEF Init, TypeInv, Ranged
<1>2. WritesInv /\ TypeInv /\ [Next]_vars => TypeInv'
  <2> SUFFICES ASSUME WritesInv, TypeInv, [Next]_vars PROVE TypeInv'
    OBVIOUS
  <2>1. CASE UNCHANGED vars
    BY <2>1 DEF vars, counters, TypeInv, Calls
  <2>2. CASE Next
    BY <2>2, RangeStep, DoneStep, LogStep, TxnStep DEF WritesInv, TypeInv
  <2> QED
    BY <2>1, <2>2
<1>3. WritesInv /\ TypeInv => TypeOK
  <2> SUFFICES ASSUME WritesInv, TypeInv PROVE TypeOK
    OBVIOUS
  <2>1. /\ s_free_blocks \in 0 .. (W - 1) /\ s_next_ino \in Nat /\ txn_counter \in Nat \ {0}
        /\ Cardinality(il_intents) <= il_capacity
    BY DEF WritesInv, Shape, TypeInv
  <2>2. ASSUME NEW k \in Calls PROVE k.op \in Ops \cup {"none"} /\ k.number \in Nat
    <3>1. k.number \in Nat
      BY DEF TypeInv, Ranged
    <3>2. CASE k \in done
      BY <3>1, <3>2 DEF TypeInv
    <3>3. CASE k \in Call
      BY <3>1, <3>3 DEF Call
    <3> QED
      BY <3>2, <3>3 DEF Calls, WritesInv, Shape
  <2>3. \A k \in Numbers(Takers) : k.number \in DataStart .. (DataStart + PerGroup - 1)
    BY DEF Numbers, TypeInv, Ranged
  <2>4. \A k \in Numbers({"inode"}) : k.number > RootIno
    BY DEF Numbers, TypeInv, Ranged
  <2> QED
    BY <2>1, <2>2, <2>3, <2>4 DEF TypeOK
<1> QED
  BY <1>1, <1>2, <1>3, InitWrites, WritesStep, PTL DEF Spec
=============================================================================
