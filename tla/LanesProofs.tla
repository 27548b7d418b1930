---------------------------- MODULE LanesProofs ----------------------------
(***************************************************************************)
(* A lane is never left in LANE_COMMITTING, for every number of threads,   *)
(* lanes and operations.  The invariant adds to QuietLaneOpen what a       *)
(* commit that gives up relies on: ll_pending_ops counts exactly the       *)
(* threads between the increment of their start and the decrement of their *)
(* end, so a commit that still sees one leaves another thread on the lane. *)
(*                                                                         *)
(* The second half proves CommitExact from CommitInv, which says where the *)
(* sequence numbers of a lane stand while a thread is between two of its   *)
(* accesses to them.                                                       *)
(***************************************************************************)
EXTENDS Lanes, FiniteSetTheorems, TLAPS

Running(l) == {t \in Threads : lane[t] = l /\ pc[t] = "run"}
Inside(l) == {t \in Threads : lane[t] = l /\ pc[t] \notin {"idle", "spin"}}

PendingExact == \A l \in Lane : ll_pending_ops[l] = Cardinality(Running(l))

LaneInv ==
    /\ TypeOK
    /\ PendingExact
    /\ \A l \in Lane : ll_state[l] = "COMMITTING" => Inside(l) # {}

(* The threads running on a lane are finitely many.                        *)
LEMMA RunningFinite ==
    ASSUME NEW l PROVE IsFiniteSet(Running(l)) /\ Cardinality(Running(l)) \in Nat
BY LanesAssumption, FS_Subset, FS_CardinalityType DEF Running

(* The initial state satisfies the invariant: nobody is on a lane.         *)
LEMMA InitLane == Init => LaneInv
<1> SUFFICES ASSUME Init PROVE LaneInv
  OBVIOUS
<1>1. TypeOK
  BY LanesAssumption DEF Init, TypeOK, Lane, Steps
<1>2. PendingExact
  <2> SUFFICES ASSUME NEW l \in Lane PROVE ll_pending_ops[l] = Cardinality(Running(l))
    BY DEF PendingExact
  <2>1. Running(l) = {}
    BY DEF Init, Running
  <2> QED
    BY <2>1, FS_EmptySet DEF Init
<1> QED
  BY <1>1, <1>2 DEF LaneInv, Init

(***************************************************************************)
(* The steps that neither count an operation nor leave a lane: the fields  *)
(* keep their types, the threads that run are the same, and a thread that  *)
(* puts a lane in LANE_COMMITTING stays on it.                             *)
(***************************************************************************)
LEMMA QuietStep ==
    ASSUME LaneInv, NEW t \in Threads,
           Spin(t) \/ LoadSequence(t) \/ StoreSequence(t) \/ Activate(t) \/ TestLast(t)
             \/ Close(t) \/ percpu_commit(t) \/ ReadSequence(t) \/ WriteCommitted(t)
    PROVE  LaneInv'
<1> USE DEF Goto, lanes
<1>1. lane' = lane /\ ops' = ops /\ ll_pending_ops' = ll_pending_ops
  BY DEF Spin, LoadSequence, StoreSequence, Activate, TestLast, Close, percpu_commit,
         ReadSequence, WriteCommitted
<1>2. \E step \in Steps \ {"idle", "spin", "run"} :
        pc' = [pc EXCEPT ![t] = step] /\ pc[t] \notin {"idle", "run"}
  BY DEF Spin, LoadSequence, StoreSequence, Activate, TestLast, Close, percpu_commit,
         ReadSequence, WriteCommitted, Steps, Start, End, Commit
<1>3. /\ ll_sequence' \in [Lane -> Nat] /\ ll_committed_seq' \in [Lane -> Nat]
      /\ seq' \in [Threads -> Nat]
  BY DEF LaneInv, TypeOK, Spin, LoadSequence, StoreSequence, Activate, TestLast, Close,
         percpu_commit, ReadSequence, WriteCommitted
<1>4. /\ ll_state' \in [Lane -> {"IDLE", "ACTIVE", "COMMITTING"}]
      /\ \A l \in Lane : l # lane[t] => ll_state'[l] = ll_state[l]
  BY DEF LaneInv, TypeOK, Spin, LoadSequence, StoreSequence, Activate, TestLast, Close,
         percpu_commit, ReadSequence, WriteCommitted
<1>5. raced' = [l \in Lane |-> raced[l] \/ Overlap(l)']
  BY DEF Spin, LoadSequence, StoreSequence, Activate, TestLast, Close,
         percpu_commit, ReadSequence, WriteCommitted
<1>6. TypeOK'
  BY <1>1, <1>2, <1>3, <1>4, <1>5 DEF LaneInv, TypeOK
<1>7. ASSUME NEW l \in Lane PROVE Running(l)' = Running(l)
  BY <1>1, <1>2 DEF LaneInv, TypeOK, Running
<1>8. PendingExact'
  BY <1>1, <1>7 DEF LaneInv, PendingExact
<1>9. ASSUME NEW l \in Lane, ll_state'[l] = "COMMITTING" PROVE Inside(l)' # {}
  <2>1. CASE l = lane[t]
    BY <2>1, <1>1, <1>2 DEF LaneInv, TypeOK, Inside
  <2>2. CASE l # lane[t]
    BY <2>2, <1>1, <1>2, <1>4, <1>9 DEF LaneInv, TypeOK, Inside
  <2> QED
    BY <2>1, <2>2
<1> QED
  BY <1>6, <1>8, <1>9 DEF LaneInv

(* A thread that begins an operation only waits: it is not on the lane yet.*)
LEMMA StartStep ==
    ASSUME LaneInv, NEW t \in Threads, NEW k \in Lane, percpu_start(t, k) PROVE LaneInv'
<1> USE DEF percpu_start, Goto, lanes
<1>1. TypeOK'
  BY LanesAssumption DEF LaneInv, TypeOK, Steps, Start
<1>2. ASSUME NEW l \in Lane PROVE Running(l)' = Running(l) /\ Inside(l)' = Inside(l)
  BY DEF LaneInv, TypeOK, Running, Inside
<1> QED
  BY <1>1, <1>2 DEF LaneInv, PendingExact

(* The increment of ll_pending_ops adds the thread to those that run.      *)
LEMMA EnterStep == ASSUME LaneInv, NEW t \in Threads, Enter(t) PROVE LaneInv'
<1> USE DEF Enter, Goto
<1>1. TypeOK'
  BY DEF LaneInv, TypeOK, Steps, End
<1>2. PendingExact'
  <2> SUFFICES ASSUME NEW l \in Lane PROVE ll_pending_ops'[l] = Cardinality(Running(l)')
    BY DEF PendingExact
  <2>1. CASE l = lane[t]
    <3>1. t \notin Running(l) /\ Running(l)' = Running(l) \cup {t}
      BY <2>1 DEF LaneInv, TypeOK, Running
    <3>2. Cardinality(Running(l) \cup {t}) = Cardinality(Running(l)) + 1
      BY <3>1, RunningFinite, FS_AddElement
    <3> QED
      BY <2>1, <3>1, <3>2 DEF LaneInv, TypeOK, PendingExact
  <2>2. CASE l # lane[t]
    <3>1. Running(l)' = Running(l)
      BY <2>2 DEF LaneInv, TypeOK, Running
    <3> QED
      BY <2>2, <3>1 DEF LaneInv, TypeOK, PendingExact
  <2> QED
    BY <2>1, <2>2
<1>3. ASSUME NEW l \in Lane PROVE Inside(l)' = Inside(l)
  BY DEF LaneInv, TypeOK, Inside
<1> QED
  BY <1>1, <1>2, <1>3 DEF LaneInv

(* The decrement takes it away; it never passes zero, for the thread that  *)
(* decrements is one of those counted.                                     *)
LEMMA EndStep == ASSUME LaneInv, NEW t \in Threads, percpu_end(t) PROVE LaneInv'
<1> USE DEF percpu_end, Goto
<1>1. ASSUME NEW l \in Lane
      PROVE  ll_pending_ops'[l] = Cardinality(Running(l)') /\ ll_pending_ops'[l] \in Nat
  <2>1. CASE l = lane[t]
    <3>1. t \in Running(l) /\ Running(l)' = Running(l) \ {t}
      BY <2>1 DEF LaneInv, TypeOK, Running
    <3>2. /\ Cardinality(Running(l) \ {t}) = Cardinality(Running(l)) - 1
          /\ IsFiniteSet(Running(l) \ {t})
      BY <3>1, RunningFinite, FS_RemoveElement
    <3>3. Cardinality(Running(l) \ {t}) \in Nat
      BY <3>2, FS_CardinalityType
    <3> QED
      BY <2>1, <3>1, <3>2, <3>3 DEF LaneInv, TypeOK, PendingExact
  <2>2. CASE l # lane[t]
    <3>1. Running(l)' = Running(l)
      BY <2>2 DEF LaneInv, TypeOK, Running
    <3> QED
      BY <2>2, <3>1 DEF LaneInv, TypeOK, PendingExact
  <2> QED
    BY <2>1, <2>2
<1>2. TypeOK'
  BY <1>1 DEF LaneInv, TypeOK, Steps, End
<1>3. ASSUME NEW l \in Lane PROVE Inside(l)' = Inside(l)
  BY DEF LaneInv, TypeOK, Inside
<1> QED
  BY <1>1, <1>2, <1>3 DEF LaneInv, PendingExact

(* A commit that gives up has seen a pending operation, whose thread is    *)
(* still on the lane.                                                      *)
LEMMA GiveUpStep == ASSUME LaneInv, NEW t \in Threads, GiveUp(t) PROVE LaneInv'
<1> USE DEF GiveUp, Goto, lanes
<1>1. TypeOK'
  BY DEF LaneInv, TypeOK, Steps
<1>2. ASSUME NEW l \in Lane PROVE Running(l)' = Running(l)
  BY DEF LaneInv, TypeOK, Running
<1>3. ASSUME NEW l \in Lane, ll_state'[l] = "COMMITTING" PROVE Inside(l)' # {}
  <2>1. CASE l = lane[t]
    <3>1. Cardinality(Running(l)) > 0
      BY <2>1 DEF LaneInv, PendingExact, RetriesSpent
    <3>2. Running(l) # {}
      BY <3>1, FS_EmptySet
    <3> QED
      BY <3>2 DEF LaneInv, TypeOK, Running, Inside
  <2>2. CASE l # lane[t]
    BY <2>2, <1>3 DEF LaneInv, TypeOK, Inside
  <2> QED
    BY <2>1, <2>2
<1> QED
  BY <1>1, <1>2, <1>3 DEF LaneInv, PendingExact

(* A commit that finishes leaves the lane idle.                            *)
LEMMA OpenStep == ASSUME LaneInv, NEW t \in Threads, Open(t) PROVE LaneInv'
<1> USE DEF Open, Goto
<1>1. TypeOK'
  BY DEF LaneInv, TypeOK, Steps
<1>2. ASSUME NEW l \in Lane PROVE Running(l)' = Running(l)
  BY DEF LaneInv, TypeOK, Running
<1>3. ASSUME NEW l \in Lane, ll_state'[l] = "COMMITTING" PROVE Inside(l)' # {}
  BY <1>3 DEF LaneInv, TypeOK, Inside
<1> QED
  BY <1>1, <1>2, <1>3 DEF LaneInv, PendingExact

(* The invariant is inductive.                                             *)
LEMMA LaneStep == LaneInv /\ [Next]_vars => LaneInv'
<1> SUFFICES ASSUME LaneInv, [Next]_vars PROVE LaneInv'
  OBVIOUS
<1>1. CASE UNCHANGED vars
  BY <1>1 DEF vars, lanes, LaneInv, TypeOK, PendingExact, Running, Inside
<1>2. ASSUME NEW t \in Threads, Step(t) PROVE LaneInv'
  BY <1>2, QuietStep, EnterStep, EndStep, GiveUpStep, OpenStep DEF Step
<1> QED
  BY <1>1, <1>2, StartStep DEF Next

(***************************************************************************)
(* For all threads, lanes and operations: a lane in LANE_COMMITTING has a  *)
(* thread that will commit it or that other threads outlast, so a commit   *)
(* that returns -EAGAIN never leaves it closed behind it.                  *)
(***************************************************************************)
THEOREM NoLaneLeftCommitting == Spec => []QuietLaneOpen
<1>1. LaneInv => QuietLaneOpen
  BY DEF LaneInv, TypeOK, QuietLaneOpen, Inside, At, On
<1> QED
  BY <1>1, InitLane, LaneStep, PTL DEF Spec

(***************************************************************************)
(* For all threads, lanes and operations: the atomic counter of a lane is  *)
(* the number of operations between start and end, and never negative.     *)
(***************************************************************************)
THEOREM PendingIsExact == Spec => [](TypeOK /\ PendingExact)
<1>1. LaneInv => TypeOK /\ PendingExact
  BY DEF LaneInv
<1> QED
  BY <1>1, InitLane, LaneStep, PTL DEF Spec
-----------------------------------------------------------------------------
(***************************************************************************)
(* The sequence numbers.  On a lane where no start overlapped a start or a *)
(* commit, a thread that has loaded ll_sequence still holds its value when *)
(* it uses it (Current), a commit past its wait meets no running operation *)
(* (Exclusive), and a number not committed yet has a thread that will      *)
(* commit it or be outlasted by one that will (Unsettled).                 *)
(***************************************************************************)
Starting == Start \ {"spin"}
Committing == Commit \ {"wait"}

Apart(l) ==
    \A t, u \in Threads :
        lane[t] = l /\ lane[u] = l /\ pc[t] \in Starting /\ pc[u] \in Starting \cup Committing
            => t = u

Exclusive(l) ==
    \A t, u \in Threads :
        lane[t] = l /\ lane[u] = l /\ pc[t] \in Committing => pc[u] # "run"

Current(l) ==
    \A t \in Threads : lane[t] = l /\ pc[t] \in {"store", "write"} => seq[t] = ll_sequence[l]

Ahead(l) ==
    /\ ll_committed_seq[l] <= ll_sequence[l]
    /\ \A t \in Threads :
        lane[t] = l /\ pc[t] \in {"activate", "enter", "run"} => ll_committed_seq[l] <= seq[t]

Unsettled(l) ==
    ll_committed_seq[l] # ll_sequence[l] =>
        \E t \in Threads :
            /\ lane[t] = l
            /\ pc[t] \in {"activate", "enter", "run", "test", "close", "wait", "read", "write"}

CommitInv ==
    \A l \in Lane : ~raced[l] =>
        Apart(l) /\ Exclusive(l) /\ Current(l) /\ Ahead(l) /\ Unsettled(l)

(* Where no overlap is noted, the starting threads are alone.              *)
LEMMA NoOverlapApart ==
    ASSUME NEW l, ~Overlap(l)' PROVE Apart(l)'
<1> SUFFICES ASSUME NEW t \in Threads, NEW u \in Threads, lane'[t] = l, lane'[u] = l,
                    pc'[t] \in Starting, pc'[u] \in Starting \cup Committing
             PROVE  t = u
  BY DEF Apart
<1>1. /\ t \in At(l, Start \ {"spin"})'
      /\ u \in At(l, (Start \ {"spin"}) \cup (Commit \ {"wait"}))'
  BY DEF At, On, Starting, Committing, Start, Commit
<1>2. At(l, (Start \ {"spin"}) \cup (Commit \ {"wait"}))' = {t}
  BY <1>1 DEF Overlap
<1> QED
  BY <1>1, <1>2

(* In the beginning every number is committed and no thread is on a lane.  *)
LEMMA InitCommit == Init => CommitInv
BY LanesAssumption
   DEF Init, CommitInv, Apart, Exclusive, Current, Ahead, Unsettled, Starting, Committing,
       Start, Commit, Lane

(* What a step of thread t on its lane leaves to show: the lane was not    *)
(* raced before, the other threads stand where they stood, and the         *)
(* starting ones are alone afterwards.                                     *)
LEMMA StepFrame ==
    ASSUME LaneInv, NEW t \in Threads, NEW step \in Steps, Goto(t, step), lane' = lane,
           NEW l \in Lane, ~raced'[l]
    PROVE  /\ ~raced[l] /\ Apart(l)' /\ pc'[t] = step
           /\ \A u \in Threads : lane'[u] = lane[u]
           /\ \A u \in Threads \ {t} : pc'[u] = pc[u]
<1>1. pc' = [pc EXCEPT ![t] = step] /\ raced' = [k \in Lane |-> raced[k] \/ Overlap(k)']
  BY DEF Goto
<1>2. ~raced[l] /\ ~Overlap(l)'
  BY <1>1
<1>3. Apart(l)'
  BY <1>2, NoOverlapApart
<1> QED
  BY <1>1, <1>2, <1>3 DEF LaneInv, TypeOK

(* A drained lane has no running thread.                                   *)
LEMMA DrainedNotRunning ==
    ASSUME LaneInv, NEW l \in Lane, Drained(l), NEW u \in Threads, lane[u] = l
    PROVE  pc[u] # "run"
<1>1. Cardinality(Running(l)) = 0
  BY DEF LaneInv, PendingExact, Drained
<1>2. Running(l) = {}
  BY <1>1, RunningFinite, FS_EmptySet
<1> QED
  BY <1>2 DEF Running

(***************************************************************************)
(* The steps that change no sequence number: a commit passes its wait only *)
(* on a drained lane, and an operation runs only after its start was alone.*)
(***************************************************************************)
LEMMA QuietCommit ==
    ASSUME LaneInv, CommitInv, NEW t \in Threads,
           Spin(t) \/ Activate(t) \/ Enter(t) \/ percpu_end(t) \/ TestLast(t) \/ Close(t)
             \/ percpu_commit(t) \/ Open(t)
    PROVE  CommitInv'
<1> USE DEF Starting, Committing, Start, Commit
<1>1. /\ lane' = lane /\ seq' = seq /\ ll_sequence' = ll_sequence
      /\ ll_committed_seq' = ll_committed_seq
  BY DEF Spin, Activate, Enter, percpu_end, TestLast, Close, percpu_commit, Open, lanes
<1>2. PICK step \in Steps : 
        /\ Goto(t, step)
        /\ \/ pc[t] = "spin" /\ step = "load"
           \/ pc[t] = "activate" /\ step = "enter"
           \/ pc[t] = "enter" /\ step = "run"
           \/ pc[t] = "run" /\ step = "test"
           \/ pc[t] = "test" /\ step \in {"close", "wait"}
           \/ pc[t] = "close" /\ step = "wait"
           \/ pc[t] = "wait" /\ step = "read" /\ Drained(lane[t])
           \/ pc[t] = "open" /\ step = "idle"
  BY DEF Spin, Activate, Enter, percpu_end, TestLast, Close, percpu_commit, Open, Steps, End
<1> SUFFICES ASSUME NEW l \in Lane, ~raced'[l]
             PROVE  (Apart(l) /\ Exclusive(l) /\ Current(l) /\ Ahead(l) /\ Unsettled(l))'
  BY DEF CommitInv
<1>3. /\ ~raced[l] /\ Apart(l)' /\ pc'[t] = step
      /\ \A u \in Threads : lane'[u] = lane[u]
      /\ \A u \in Threads \ {t} : pc'[u] = pc[u]
  BY <1>1, <1>2, StepFrame
<1>4. Apart(l) /\ Exclusive(l) /\ Current(l) /\ Ahead(l) /\ Unsettled(l)
  BY <1>3 DEF CommitInv
<1>5. Exclusive(l)'
  <2> SUFFICES ASSUME NEW c \in Threads, NEW u \in Threads, lane[c] = l, lane[u] = l,
                      pc'[c] \in Committing, pc'[u] = "run"
               PROVE  FALSE
    BY <1>1 DEF Exclusive
  <2>1. c # u
    OBVIOUS
  <2>2. CASE c = t
    <3>1. pc[u] = "run" /\ step = "read" /\ Drained(lane[t])
      BY <1>2, <1>3, <2>1, <2>2
    <3> QED
      BY <2>2, <3>1, DrainedNotRunning
  <2>3. CASE u = t
    <3>1. pc[t] = "enter" /\ pc[c] \in Committing
      BY <1>2, <1>3, <2>1, <2>3
    <3> QED
      BY <1>4, <2>1, <2>3, <3>1 DEF Apart
  <2>4. CASE c # t /\ u # t
    BY <1>3, <1>4, <2>4 DEF Exclusive
  <2> QED
    BY <2>2, <2>3, <2>4
<1>6. Current(l)'
  <2> SUFFICES ASSUME NEW u \in Threads, lane[u] = l, pc'[u] \in {"store", "write"}
               PROVE  seq[u] = ll_sequence[l]
    BY <1>1 DEF Current
  <2>1. u # t /\ pc[u] \in {"store", "write"}
    BY <1>2, <1>3
  <2> QED
    BY <1>4, <2>1 DEF Current
<1>7. Ahead(l)'
  <2> SUFFICES ASSUME NEW u \in Threads, lane[u] = l, pc'[u] \in {"activate", "enter", "run"}
               PROVE  ll_committed_seq[l] <= seq[u]
    BY <1>1, <1>4 DEF Ahead
  <2>1. pc[u] \in {"activate", "enter", "run"}
    BY <1>2, <1>3
  <2> QED
    BY <1>4, <2>1 DEF Ahead
<1>8. Unsettled(l)'
  <2> SUFFICES ASSUME ll_committed_seq[l] # ll_sequence[l]
               PROVE  \E u \in Threads :
                        /\ lane[u] = l
                        /\ pc'[u] \in {"activate", "enter", "run", "test", "close", "wait",
                                       "read", "write"}
    BY <1>1 DEF Unsettled
  <2>1. PICK u \in Threads :
          /\ lane[u] = l
          /\ pc[u] \in {"activate", "enter", "run", "test", "close", "wait", "read", "write"}
    BY <1>4 DEF Unsettled
  <2>2. pc'[u] \in {"activate", "enter", "run", "test", "close", "wait", "read", "write"}
    BY <1>2, <1>3, <2>1
  <2> QED
    BY <2>1, <2>2
<1> QED
  BY <1>3, <1>5, <1>6, <1>7, <1>8

(* A start that takes a lane is not admitted to it yet.                    *)
LEMMA StartCommit ==
    ASSUME LaneInv, CommitInv, NEW t \in Threads, NEW k \in Lane, percpu_start(t, k)
    PROVE  CommitInv'
<1> USE DEF Starting, Committing, Start, Commit
<1>1. /\ lane' = [lane EXCEPT ![t] = k] /\ pc' = [pc EXCEPT ![t] = "spin"] /\ pc[t] = "idle"
      /\ seq' = seq /\ ll_sequence' = ll_sequence /\ ll_committed_seq' = ll_committed_seq
      /\ raced' = [j \in Lane |-> raced[j] \/ Overlap(j)']
  BY DEF percpu_start, lanes, Goto
<1> SUFFICES ASSUME NEW l \in Lane, ~raced'[l]
             PROVE  (Apart(l) /\ Exclusive(l) /\ Current(l) /\ Ahead(l) /\ Unsettled(l))'
  BY DEF CommitInv
<1>2. ~raced[l] /\ ~Overlap(l)'
  BY <1>1
<1>3. Apart(l)'
  BY <1>2, NoOverlapApart
<1>4. Exclusive(l) /\ Current(l) /\ Ahead(l) /\ Unsettled(l)
  BY <1>2 DEF CommitInv
<1>5. /\ pc'[t] = "spin"
      /\ \A u \in Threads \ {t} : pc'[u] = pc[u] /\ lane'[u] = lane[u]
  BY <1>1 DEF LaneInv, TypeOK
<1>6. Exclusive(l)'
  BY <1>4, <1>5 DEF Exclusive
<1>7. Current(l)'
  BY <1>1, <1>4, <1>5 DEF Current
<1>8. Ahead(l)'
  BY <1>1, <1>4, <1>5 DEF Ahead
<1>9. Unsettled(l)'
  BY <1>1, <1>4, <1>5 DEF Unsettled
<1> QED
  BY <1>3, <1>6, <1>7, <1>8, <1>9

(***************************************************************************)
(* A commit that gives up still sees a running operation, which stays      *)
(* behind to commit what this one did not.                                 *)
(***************************************************************************)
LEMMA GiveUpCommit ==
    ASSUME LaneInv, CommitInv, NEW t \in Threads, GiveUp(t) PROVE CommitInv'
<1> USE DEF Starting, Committing, Start, Commit
<1>1. /\ lane' = lane /\ ll_sequence' = ll_sequence /\ ll_committed_seq' = ll_committed_seq
      /\ seq' = [seq EXCEPT ![t] = 0] /\ pc[t] = "wait" /\ Goto(t, "idle")
  BY DEF GiveUp, lanes
<1> SUFFICES ASSUME NEW l \in Lane, ~raced'[l]
             PROVE  (Apart(l) /\ Exclusive(l) /\ Current(l) /\ Ahead(l) /\ Unsettled(l))'
  BY DEF CommitInv
<1>2. /\ ~raced[l] /\ Apart(l)' /\ pc'[t] = "idle"
      /\ \A u \in Threads \ {t} : pc'[u] = pc[u]
  BY <1>1, StepFrame DEF Steps
<1>3. Exclusive(l) /\ Current(l) /\ Ahead(l) /\ Unsettled(l)
  BY <1>2 DEF CommitInv
<1>4. \A u \in Threads \ {t} : seq'[u] = seq[u]
  BY <1>1 DEF LaneInv, TypeOK
<1>5. Exclusive(l)'
  BY <1>1, <1>2, <1>3 DEF Exclusive
<1>6. Current(l)'
  BY <1>1, <1>2, <1>3, <1>4 DEF Current
<1>7. Ahead(l)'
  BY <1>1, <1>2, <1>3, <1>4 DEF Ahead
<1>8. Unsettled(l)'
  <2>1. CASE lane[t] = l
    <3>1. ll_pending_ops[l] # 0
      BY <2>1 DEF GiveUp, RetriesSpent, LaneInv, TypeOK
    <3>2. Running(l) # {}
      BY <3>1, FS_EmptySet DEF LaneInv, PendingExact
    <3>3. PICK u \in Threads : lane[u] = l /\ pc[u] = "run"
      BY <3>2 DEF Running
    <3>4. lane'[u] = l /\ pc'[u] = "run"
      BY <1>1, <1>2, <3>3
    <3> QED
      BY <3>4 DEF Unsettled
  <2>2. CASE lane[t] # l
    BY <1>1, <1>2, <1>3, <2>2 DEF Unsettled
  <2> QED
    BY <2>1, <2>2
<1> QED
  BY <1>2, <1>5, <1>6, <1>7, <1>8

(* A thread that copies ll_sequence, to increment it or to commit it,      *)
(* holds its value.                                                        *)
LEMMA CopyCommit ==
    ASSUME LaneInv, CommitInv, NEW t \in Threads, LoadSequence(t) \/ ReadSequence(t)
    PROVE  CommitInv'
<1> USE DEF Starting, Committing, Start, Commit
<1>1. /\ lane' = lane /\ ll_sequence' = ll_sequence /\ ll_committed_seq' = ll_committed_seq
      /\ seq' = [seq EXCEPT ![t] = ll_sequence[lane[t]]]
  BY DEF LoadSequence, ReadSequence, lanes
<1>2. PICK step \in {"store", "write"} :
        /\ Goto(t, step)
        /\ \/ pc[t] = "load" /\ step = "store"
           \/ pc[t] = "read" /\ step = "write"
  BY DEF LoadSequence, ReadSequence
<1> SUFFICES ASSUME NEW l \in Lane, ~raced'[l]
             PROVE  (Apart(l) /\ Exclusive(l) /\ Current(l) /\ Ahead(l) /\ Unsettled(l))'
  BY DEF CommitInv
<1>3. /\ ~raced[l] /\ Apart(l)' /\ pc'[t] = step
      /\ \A u \in Threads \ {t} : pc'[u] = pc[u]
  BY <1>1, <1>2, StepFrame DEF Steps
<1>4. Exclusive(l) /\ Current(l) /\ Ahead(l) /\ Unsettled(l)
  BY <1>3 DEF CommitInv
<1>5. seq'[t] = ll_sequence[lane[t]] /\ \A u \in Threads \ {t} : seq'[u] = seq[u]
  BY <1>1 DEF LaneInv, TypeOK
<1>6. Exclusive(l)'
  BY <1>1, <1>2, <1>3, <1>4 DEF Exclusive
<1>7. Current(l)'
  BY <1>1, <1>2, <1>3, <1>4, <1>5 DEF Current
<1>8. Ahead(l)'
  BY <1>1, <1>2, <1>3, <1>4, <1>5 DEF Ahead
<1>9. Unsettled(l)'
  <2> SUFFICES ASSUME ll_committed_seq[l] # ll_sequence[l]
               PROVE  \E u \in Threads :
                        /\ lane[u] = l
                        /\ pc'[u] \in {"activate", "enter", "run", "test", "close", "wait",
                                       "read", "write"}
    BY <1>1 DEF Unsettled
  <2>1. PICK u \in Threads :
          /\ lane[u] = l
          /\ pc[u] \in {"activate", "enter", "run", "test", "close", "wait", "read", "write"}
    BY <1>4 DEF Unsettled
  <2>2. pc'[u] \in {"activate", "enter", "run", "test", "close", "wait", "read", "write"}
    BY <1>2, <1>3, <2>1
  <2> QED
    BY <2>1, <2>2
<1> QED
  BY <1>3, <1>6, <1>7, <1>8, <1>9

(***************************************************************************)
(* The store of an increment: the starting thread is alone, so the number  *)
(* it stores is the next one, above every number committed.                *)
(***************************************************************************)
LEMMA StoreCommit ==
    ASSUME LaneInv, CommitInv, NEW t \in Threads, StoreSequence(t) PROVE CommitInv'
<1> USE DEF Starting, Committing, Start, Commit
<1>1. /\ lane' = lane /\ seq' = seq /\ ll_committed_seq' = ll_committed_seq
      /\ ll_sequence' = [ll_sequence EXCEPT ![lane[t]] = seq[t] + 1]
      /\ pc[t] = "store" /\ Goto(t, "activate")
  BY DEF StoreSequence
<1> SUFFICES ASSUME NEW l \in Lane, ~raced'[l]
             PROVE  (Apart(l) /\ Exclusive(l) /\ Current(l) /\ Ahead(l) /\ Unsettled(l))'
  BY DEF CommitInv
<1>2. /\ ~raced[l] /\ Apart(l)' /\ pc'[t] = "activate"
      /\ \A u \in Threads \ {t} : pc'[u] = pc[u]
  BY <1>1, StepFrame DEF Steps
<1>3. Apart(l) /\ Exclusive(l) /\ Current(l) /\ Ahead(l) /\ Unsettled(l)
  BY <1>2 DEF CommitInv
<1>4. /\ lane[t] \in Lane
      /\ ll_sequence'[lane[t]] = seq[t] + 1
      /\ l # lane[t] => ll_sequence'[l] = ll_sequence[l]
  BY <1>1 DEF LaneInv, TypeOK
<1>5. Exclusive(l)'
  BY <1>1, <1>2, <1>3 DEF Exclusive
<1>6. Current(l)'
  <2> SUFFICES ASSUME NEW u \in Threads, lane[u] = l, pc'[u] \in {"store", "write"}
               PROVE  seq[u] = ll_sequence'[l]
    BY <1>1 DEF Current
  <2>1. u # t /\ pc[u] \in {"store", "write"}
    BY <1>2
  <2>2. l # lane[t]
    BY <1>1, <1>3, <2>1 DEF Apart
  <2> QED
    BY <1>3, <1>4, <2>1, <2>2 DEF Current
<1>7. Ahead(l)'
  <2>1. CASE lane[t] # l
    BY <1>1, <1>2, <1>3, <1>4, <2>1 DEF Ahead
  <2>2. CASE lane[t] = l
    <3>1. seq[t] = ll_sequence[l] /\ ll_committed_seq[l] <= seq[t]
      BY <1>1, <1>3, <2>2 DEF Current, Ahead
    <3>2. seq[t] \in Nat /\ ll_committed_seq[l] \in Nat
      BY DEF LaneInv, TypeOK
    <3>3. ll_committed_seq'[l] <= ll_sequence'[l]
      BY <1>1, <1>4, <2>2, <3>1, <3>2
    <3>4. ASSUME NEW u \in Threads, lane[u] = l, pc'[u] \in {"activate", "enter", "run"}
          PROVE  ll_committed_seq[l] <= seq[u]
      BY <1>2, <1>3, <3>1, <3>4 DEF Ahead
    <3> QED
      BY <1>1, <3>3, <3>4 DEF Ahead
  <2> QED
    BY <2>1, <2>2
<1>8. Unsettled(l)'
  <2>1. CASE lane[t] = l
    BY <1>1, <1>2, <2>1 DEF Unsettled
  <2>2. CASE lane[t] # l
    BY <1>1, <1>2, <1>3, <1>4, <2>2 DEF Unsettled
  <2> QED
    BY <2>1, <2>2
<1> QED
  BY <1>2, <1>5, <1>6, <1>7, <1>8

(***************************************************************************)
(* The store of a commit: the number read is still the lane's, and no      *)
(* thread holds a smaller one, since none is starting or running.          *)
(***************************************************************************)
LEMMA WriteCommit ==
    ASSUME LaneInv, CommitInv, NEW t \in Threads, WriteCommitted(t) PROVE CommitInv'
<1> USE DEF Starting, Committing, Start, Commit
<1>1. /\ lane' = lane /\ seq' = [seq EXCEPT ![t] = 0] /\ ll_sequence' = ll_sequence
      /\ ll_committed_seq' = [ll_committed_seq EXCEPT ![lane[t]] = seq[t]]
      /\ pc[t] = "write" /\ Goto(t, "open")
  BY DEF WriteCommitted
<1> SUFFICES ASSUME NEW l \in Lane, ~raced'[l]
             PROVE  (Apart(l) /\ Exclusive(l) /\ Current(l) /\ Ahead(l) /\ Unsettled(l))'
  BY DEF CommitInv
<1>2. /\ ~raced[l] /\ Apart(l)' /\ pc'[t] = "open"
      /\ \A u \in Threads \ {t} : pc'[u] = pc[u]
  BY <1>1, StepFrame DEF Steps
<1>3. Apart(l) /\ Exclusive(l) /\ Current(l) /\ Ahead(l) /\ Unsettled(l)
  BY <1>2 DEF CommitInv
<1>4. /\ lane[t] \in Lane
      /\ ll_committed_seq'[lane[t]] = seq[t]
      /\ l # lane[t] => ll_committed_seq'[l] = ll_committed_seq[l]
      /\ \A u \in Threads \ {t} : seq'[u] = seq[u]
  BY <1>1 DEF LaneInv, TypeOK
<1>5. Exclusive(l)'
  BY <1>1, <1>2, <1>3 DEF Exclusive
<1>6. Current(l)'
  BY <1>1, <1>2, <1>3, <1>4 DEF Current
<1>7. Ahead(l)'
  <2>1. CASE lane[t] # l
    BY <1>1, <1>2, <1>3, <1>4, <2>1 DEF Ahead
  <2>2. CASE lane[t] = l
    <3>1. ll_committed_seq'[l] = ll_sequence[l] /\ ll_sequence[l] \in Nat
      BY <1>1, <1>3, <1>4, <2>2 DEF Current, LaneInv, TypeOK
    <3>2. ASSUME NEW u \in Threads, lane[u] = l, pc'[u] \in {"activate", "enter", "run"}
          PROVE  FALSE
      <4>1. u # t /\ pc[u] \in {"activate", "enter", "run"}
        BY <1>2, <3>2
      <4>2. pc[u] # "run"
        BY <1>1, <1>3, <2>2, <3>2 DEF Exclusive
      <4> QED
        BY <1>1, <1>3, <2>2, <3>2, <4>1, <4>2 DEF Apart
    <3> QED
      BY <1>1, <3>1, <3>2 DEF Ahead
  <2> QED
    BY <2>1, <2>2
<1>8. Unsettled(l)'
  <2>1. CASE lane[t] = l
    BY <1>1, <1>3, <1>4, <2>1 DEF Unsettled, Current
  <2>2. CASE lane[t] # l
    BY <1>1, <1>2, <1>3, <1>4, <2>2 DEF Unsettled
  <2> QED
    BY <2>1, <2>2
<1> QED
  BY <1>2, <1>5, <1>6, <1>7, <1>8

(* Every step preserves what is known of the sequence numbers.             *)
LEMMA CommitStep == LaneInv /\ CommitInv /\ [Next]_vars => CommitInv'
<1> SUFFICES ASSUME LaneInv, CommitInv, [Next]_vars PROVE CommitInv'
  OBVIOUS
<1>1. CASE UNCHANGED vars
  BY <1>1 DEF CommitInv, Apart, Exclusive, Current, Ahead, Unsettled, vars, lanes
<1>2. ASSUME NEW t \in Threads, Step(t) PROVE CommitInv'
  BY <1>2, QuietCommit, GiveUpCommit, CopyCommit, StoreCommit, WriteCommit DEF Step
<1>3. ASSUME NEW t \in Threads, NEW l \in Lane, percpu_start(t, l) PROVE CommitInv'
  BY <1>3, StartCommit
<1> QED
  BY <1>1, <1>2, <1>3 DEF Next

(***************************************************************************)
(* As long as no start overlapped a start or the last steps of a commit,   *)
(* ll_committed_seq covers no operation that is still running, and it      *)
(* covers all of them once the lane is empty, however many commits gave up *)
(* with -EAGAIN.                                                           *)
(***************************************************************************)
THEOREM CommittedIsExact == Spec => []CommitExact
<1>1. LaneInv /\ CommitInv => CommitExact
  <2> SUFFICES ASSUME LaneInv, CommitInv, NEW l \in Lane, ~raced[l]
               PROVE  /\ \A t \in At(l, {"enter", "run"}) : ll_committed_seq[l] <= seq[t]
                      /\ On(l) = {} => ll_committed_seq[l] = ll_sequence[l]
    BY DEF CommitExact
  <2>1. Ahead(l) /\ Unsettled(l)
    BY DEF CommitInv
  <2>2. \A t \in At(l, {"enter", "run"}) : ll_committed_seq[l] <= seq[t]
    BY <2>1 DEF Ahead, At, On
  <2>3. On(l) = {} => ll_committed_seq[l] = ll_sequence[l]
    BY <2>1 DEF Unsettled, On
  <2> QED
    BY <2>2, <2>3
<1> QED
  BY <1>1, InitLane, InitCommit, LaneStep, CommitStep, PTL DEF Spec
=============================================================================
