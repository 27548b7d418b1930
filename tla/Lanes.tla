-------------------------------- MODULE Lanes --------------------------------
(***************************************************************************)
(* The journal lanes of the kernel module (kernel/percpu.c).  A thread     *)
(* starts an operation on the lane of the CPU it runs on, ends it and      *)
(* commits the lane, with the lane number that start returned.  Nothing in *)
(* the repository calls the three functions: that every end is followed by *)
(* a commit of the same thread is the contract assumed of their caller.    *)
(*                                                                         *)
(* Each access to a field of a lane is a step.  ll_sequence++ and the copy *)
(* of ll_sequence are plain accesses, a load and a store.  pd_journal_seq  *)
(* is written and never read, and left out.                                *)
(***************************************************************************)
EXTENDS Integers, FiniteSets

CONSTANTS
    Threads,
    nr_lanes,  \* aetherfs_nr_lanes
    MaxOps     \* bound: operations begun

ASSUME LanesAssumption ==
    /\ IsFiniteSet(Threads)
    /\ nr_lanes \in Nat \ {0} /\ MaxOps \in Nat

Lane == 0 .. (nr_lanes - 1)

VARIABLES
    ll_state, ll_sequence, ll_committed_seq, ll_pending_ops,  \* of each lane
    pc,      \* of each thread: the step it takes next
    lane,    \* the lane it works on
    seq,     \* the value of ll_sequence it has loaded
    ops,     \* operations begun
    raced    \* history, of each lane: a start overlapped a start or a commit

lanes == << ll_state, ll_sequence, ll_committed_seq, ll_pending_ops >>
vars == << lanes, pc, lane, seq, ops, raced >>

Start == {"spin", "load", "store", "activate", "enter"}
End == {"run", "test", "close"}
Commit == {"wait", "read", "write", "open"}
Steps == {"idle"} \cup Start \cup End \cup Commit

On(l) == {t \in Threads : lane[t] = l /\ pc[t] # "idle"}
At(l, steps) == {t \in On(l) : pc[t] \in steps}

(* aetherfs_percpu_init.                                                   *)
Init ==
    /\ ll_state = [l \in Lane |-> "IDLE"]
    /\ ll_sequence = [l \in Lane |-> 0] /\ ll_committed_seq = [l \in Lane |-> 0]
    /\ ll_pending_ops = [l \in Lane |-> 0]
    /\ pc = [t \in Threads |-> "idle"] /\ lane = [t \in Threads |-> 0]
    /\ seq = [t \in Threads |-> 0] /\ ops = 0
    /\ raced = [l \in Lane |-> FALSE]

(* Two threads past the test that admits them, one of them starting.       *)
Overlap(l) ==
    \E t \in At(l, Start \ {"spin"}) :
        At(l, (Start \ {"spin"}) \cup (Commit \ {"wait"})) # {t}

Goto(t, step) ==
    /\ pc' = [pc EXCEPT ![t] = step]
    /\ raced' = [l \in Lane |-> raced[l] \/ Overlap(l)']

-----------------------------------------------------------------------------
(* aetherfs_journal_percpu_start: the lane is the CPU's number modulo      *)
(* nr_lanes.  A lane that is being committed is waited for.                *)
percpu_start(t, l) ==
    /\ pc[t] = "idle" /\ ops < MaxOps
    /\ lane' = [lane EXCEPT ![t] = l] /\ ops' = ops + 1
    /\ UNCHANGED << lanes, seq >>
    /\ Goto(t, "spin")

Spin(t) ==
    /\ pc[t] = "spin" /\ ll_state[lane[t]] # "COMMITTING"
    /\ UNCHANGED << lanes, lane, seq, ops >>
    /\ Goto(t, "load")

LoadSequence(t) ==
    /\ pc[t] = "load"
    /\ seq' = [seq EXCEPT ![t] = ll_sequence[lane[t]]]
    /\ UNCHANGED << lanes, lane, ops >>
    /\ Goto(t, "store")

StoreSequence(t) ==
    /\ pc[t] = "store"
    /\ ll_sequence' = [ll_sequence EXCEPT ![lane[t]] = seq[t] + 1]
    /\ UNCHANGED << ll_state, ll_committed_seq, ll_pending_ops, lane, seq, ops >>
    /\ Goto(t, "activate")

Activate(t) ==
    /\ pc[t] = "activate"
    /\ ll_state' = [ll_state EXCEPT ![lane[t]] = "ACTIVE"]
    /\ UNCHANGED << ll_sequence, ll_committed_seq, ll_pending_ops, lane, seq, ops >>
    /\ Goto(t, "enter")

Enter(t) ==
    /\ pc[t] = "enter"
    /\ ll_pending_ops' = [ll_pending_ops EXCEPT ![lane[t]] = @ + 1]
    /\ UNCHANGED << ll_state, ll_sequence, ll_committed_seq, lane, seq, ops >>
    /\ Goto(t, "run")

-----------------------------------------------------------------------------
(* aetherfs_journal_percpu_end.                                            *)
percpu_end(t) ==
    /\ pc[t] = "run"
    /\ ll_pending_ops' = [ll_pending_ops EXCEPT ![lane[t]] = @ - 1]
    /\ UNCHANGED << ll_state, ll_sequence, ll_committed_seq, lane, seq, ops >>
    /\ Goto(t, "test")

TestLast(t) ==
    /\ pc[t] = "test"
    /\ UNCHANGED << lanes, lane, seq, ops >>
    /\ Goto(t, IF ll_pending_ops[lane[t]] = 0 THEN "close" ELSE "wait")

Close(t) ==
    /\ pc[t] = "close"
    /\ ll_state' = [ll_state EXCEPT ![lane[t]] = "COMMITTING"]
    /\ UNCHANGED << ll_sequence, ll_committed_seq, ll_pending_ops, lane, seq, ops >>
    /\ Goto(t, "wait")

-----------------------------------------------------------------------------
(***************************************************************************)
(* aetherfs_journal_percpu_commit waits until nothing is pending.  It      *)
(* gives up with -EAGAIN after a number of rounds that other threads may   *)
(* outlast.                                                                *)
(***************************************************************************)
Drained_any(l) == TRUE
Drained(l) == ll_pending_ops[l] = 0

percpu_commit(t) ==
    /\ pc[t] = "wait" /\ Drained(lane[t])
    /\ UNCHANGED << lanes, lane, seq, ops >>
    /\ Goto(t, "read")

RetriesSpent_early(l) == TRUE
RetriesSpent(l) == ll_pending_ops[l] > 0

GiveUp(t) ==
    /\ pc[t] = "wait" /\ RetriesSpent(lane[t])
    /\ seq' = [seq EXCEPT ![t] = 0]
    /\ UNCHANGED << lanes, lane, ops >>
    /\ Goto(t, "idle")

ReadSequence(t) ==
    /\ pc[t] = "read"
    /\ seq' = [seq EXCEPT ![t] = ll_sequence[lane[t]]]
    /\ UNCHANGED << lanes, lane, ops >>
    /\ Goto(t, "write")

WriteCommitted(t) ==
    /\ pc[t] = "write"
    /\ ll_committed_seq' = [ll_committed_seq EXCEPT ![lane[t]] = seq[t]]
    /\ seq' = [seq EXCEPT ![t] = 0]
    /\ UNCHANGED << ll_state, ll_sequence, ll_pending_ops, lane, ops >>
    /\ Goto(t, "open")

Open(t) ==
    /\ pc[t] = "open"
    /\ ll_state' = [ll_state EXCEPT ![lane[t]] = "IDLE"]
    /\ UNCHANGED << ll_sequence, ll_committed_seq, ll_pending_ops, lane, seq, ops >>
    /\ Goto(t, "idle")

-----------------------------------------------------------------------------
Step(t) ==
    \/ Spin(t) \/ LoadSequence(t) \/ StoreSequence(t) \/ Activate(t) \/ Enter(t)
    \/ percpu_end(t) \/ TestLast(t) \/ Close(t)
    \/ percpu_commit(t) \/ GiveUp(t)
    \/ ReadSequence(t) \/ WriteCommitted(t) \/ Open(t)

Next == \E t \in Threads : Step(t) \/ \E l \in Lane : percpu_start(t, l)

Spec == Init /\ [][Next]_vars
-----------------------------------------------------------------------------
(* The pending operations of a lane are counted in unsigned numbers.       *)
TypeOK ==
    /\ ll_state \in [Lane -> {"IDLE", "ACTIVE", "COMMITTING"}]
    /\ ll_sequence \in [Lane -> Nat] /\ ll_committed_seq \in [Lane -> Nat]
    /\ ll_pending_ops \in [Lane -> Nat]
    /\ pc \in [Threads -> Steps] /\ lane \in [Threads -> Lane]
    /\ seq \in [Threads -> Nat] /\ ops \in 0 .. MaxOps
    /\ raced \in [Lane -> BOOLEAN]

(***************************************************************************)
(* A lane is never left behind in LANE_COMMITTING: while it is, some       *)
(* thread is still between the spin of its start and the end of its        *)
(* commit, also when commits gave up with -EAGAIN.  Otherwise every later  *)
(* start on the lane would spin for ever.                                  *)
(***************************************************************************)
QuietLaneOpen ==
    \A l \in Lane : ll_state[l] = "COMMITTING" => At(l, Steps \ {"idle", "spin"}) # {}

(***************************************************************************)
(* As long as no start overlapped another start or the last steps of a     *)
(* commit, ll_committed_seq covers no operation that is still running, and *)
(* it covers all of them once no thread is on the lane, although some      *)
(* commits gave up.                                                        *)
(***************************************************************************)
CommitExact ==
    \A l \in Lane : ~raced[l] =>
        /\ \A t \in At(l, {"enter", "run"}) : ll_committed_seq[l] <= seq[t]
        /\ On(l) = {} => ll_committed_seq[l] = ll_sequence[l]
=============================================================================
