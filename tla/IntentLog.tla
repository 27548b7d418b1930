----------------------------- MODULE IntentLog -----------------------------
(***************************************************************************)
(* The in-memory intent log of the kernel module (kernel/journal.c): the   *)
(* transactions of concurrent writers, the functions that mark intents as  *)
(* applied, committed or replayed, and the removal of committed ones.      *)
(*                                                                         *)
(* The functions on the log run under il_lock and are single actions.      *)
(* txn_counter is incremented without a lock, as a read and a write.       *)
(***************************************************************************)
EXTENDS Integers, Sequences, FiniteSets, SequencesExt

CONSTANTS
    Writers,      \* threads that write through the log
    il_capacity,  \* size of il_intents
    Calls,        \* which of "apply", "clear" and "replay" are called
    MaxTxn,       \* bound: values of txn_counter
    MaxIntents    \* bound: intents per transaction

ASSUME IntentLogAssumption ==
    /\ il_capacity \in Nat /\ MaxTxn \in Nat /\ MaxIntents \in Nat
    /\ Calls \subseteq {"apply", "clear", "replay"}

VARIABLES
    il_intents,   \* the first il_count entries of the log
    txn_counter,
    pc,           \* of each writer: "idle", "begin", "open", "committed"
    seen,         \* the counter value a writer has read
    xt_id,        \* the id of its transaction
    intent_count, \* xt_intent_count
    missed,       \* history: its transaction met a full log or a replay
    given, shared \* history: ids given to a transaction, and to two

vars == << il_intents, txn_counter, pc, seen, xt_id, intent_count, missed, given, shared >>

States == {"pending", "applied", "committed"}

(* ie_flags holds the state; by is history.                                *)
Intent(id, w) == [txn_id |-> id, flags |-> "pending", by |-> w]

Init ==
    /\ il_intents = << >> /\ txn_counter = 1
    /\ pc = [w \in Writers |-> "idle"] /\ seen = [w \in Writers |-> 0]
    /\ xt_id = [w \in Writers |-> 0] /\ intent_count = [w \in Writers |-> 0]
    /\ missed = [w \in Writers |-> FALSE] /\ given = {} /\ shared = {}

-----------------------------------------------------------------------------
(* aetherfs_transaction_begin.                                             *)
ReadCounter(w) ==
    /\ pc[w] = "idle" /\ txn_counter <= MaxTxn
    /\ seen' = [seen EXCEPT ![w] = txn_counter]
    /\ pc' = [pc EXCEPT ![w] = "begin"]
    /\ UNCHANGED << il_intents, txn_counter, xt_id, intent_count, missed, given, shared >>

BumpCounter(w) ==
    /\ pc[w] = "begin"
    /\ txn_counter' = seen[w] + 1
    /\ xt_id' = [xt_id EXCEPT ![w] = seen[w]]
    /\ given' = given \cup {seen[w]}
    /\ shared' = shared \cup (given \cap {seen[w]})
    /\ intent_count' = [intent_count EXCEPT ![w] = 0]
    /\ missed' = [missed EXCEPT ![w] = FALSE]
    /\ pc' = [pc EXCEPT ![w] = "open"]
    /\ UNCHANGED << il_intents, seen >>

(* aetherfs_intent_create returns -ENOSPC when the log is full.            *)
intent_create_full(log, id, w) ==
    IF Len(log) > il_capacity THEN log ELSE Append(log, Intent(id, w))

intent_create(log, id, w) ==
    IF Len(log) >= il_capacity THEN log ELSE Append(log, Intent(id, w))

(* aetherfs_transaction_add_intent counts the intent all the same.         *)
transaction_add_intent(w) ==
    /\ pc[w] = "open" /\ intent_count[w] < MaxIntents
    /\ il_intents' = intent_create(il_intents, xt_id[w], w)
    /\ missed' = [missed EXCEPT ![w] = @ \/ il_intents' = il_intents]
    /\ intent_count' = [intent_count EXCEPT ![w] = @ + 1]
    /\ UNCHANGED << txn_counter, pc, seen, xt_id, given, shared >>

(* The loops over the log set the state of the entries they select.        *)
Mark(log, hits, s) ==
    [i \in DOMAIN log |-> IF i \in hits THEN [log[i] EXCEPT !.flags = s] ELSE log[i]]

Matching(log, id) == {i \in DOMAIN log : log[i].txn_id = id}

intent_commit_upTo(log, id) ==
    Mark(log, {i \in DOMAIN log : log[i].txn_id <= id}, "committed")

intent_commit(log, id) == Mark(log, Matching(log, id), "committed")

transaction_commit(w) ==
    /\ pc[w] = "open"
    /\ il_intents' = intent_commit(il_intents, xt_id[w])
    /\ pc' = [pc EXCEPT ![w] = "committed"]
    /\ UNCHANGED << txn_counter, seen, xt_id, intent_count, missed, given, shared >>

(* aetherfs_transaction_free: every caller commits first.                  *)
transaction_free(w) ==
    /\ pc[w] = "committed"
    /\ pc' = [pc EXCEPT ![w] = "idle"]
    /\ UNCHANGED << il_intents, txn_counter, seen, xt_id, intent_count, missed, given, shared >>

-----------------------------------------------------------------------------
Ids == 1 .. MaxTxn

intent_apply_any(log, id) == Mark(log, Matching(log, id), "applied")

intent_apply(log, id) ==
    Mark(log, {i \in Matching(log, id) : log[i].flags = "pending"}, "applied")

Apply(id) ==
    /\ "apply" \in Calls
    /\ il_intents' = intent_apply(il_intents, id)
    /\ UNCHANGED << txn_counter, pc, seen, xt_id, intent_count, missed, given, shared >>

(***************************************************************************)
(* aetherfs_intent_clear: the loop removes entry i with memmove and stays  *)
(* at i.                                                                   *)
(***************************************************************************)
Cleared(e, id) == e.txn_id = id /\ e.flags = "committed"

Clear_round_skips(s, id) ==
    IF s.i > Len(s.log) THEN s
    ELSE IF Cleared(s.log[s.i], id) THEN [log |-> RemoveAt(s.log, s.i), i |-> s.i + 1]
    ELSE [log |-> s.log, i |-> s.i + 1]

Clear_round(s, id) ==
    IF s.i > Len(s.log) THEN s
    ELSE IF Cleared(s.log[s.i], id) THEN [log |-> RemoveAt(s.log, s.i), i |-> s.i]
    ELSE [log |-> s.log, i |-> s.i + 1]

(* loop[k] is the log and the index after k rounds.                        *)
intent_clear(log, id) ==
    LET loop[k \in 0 .. Len(log)] ==
            IF k = 0 THEN [log |-> log, i |-> 1] ELSE Clear_round(loop[k - 1], id)
    IN  loop[Len(log)].log

Clear(id) ==
    /\ "clear" \in Calls
    /\ il_intents' = intent_clear(il_intents, id)
    /\ UNCHANGED << txn_counter, pc, seen, xt_id, intent_count, missed, given, shared >>

(* aetherfs_intent_replay marks the uncommitted intents as replayed and    *)
(* then empties the log, transactions still open included.                 *)
Replay ==
    /\ "replay" \in Calls
    /\ il_intents' = << >>
    /\ missed' = [w \in Writers |-> missed[w] \/ pc[w] # "idle"]
    /\ UNCHANGED << txn_counter, pc, seen, xt_id, intent_count, given, shared >>

Next ==
    \/ \E w \in Writers :
         \/ ReadCounter(w) \/ BumpCounter(w) \/ transaction_add_intent(w)
         \/ transaction_commit(w) \/ transaction_free(w)
    \/ \E id \in Ids : Apply(id) \/ Clear(id)
    \/ Replay

Spec == Init /\ [][Next]_vars
-----------------------------------------------------------------------------
(* The log holds at most il_capacity intents, each in a known state.       *)
TypeOK ==
    /\ il_intents \in Seq([txn_id : Ids, flags : States, by : Writers])
    /\ Len(il_intents) <= il_capacity
    /\ txn_counter \in 1 .. (MaxTxn + 1) /\ shared \subseteq given /\ given \subseteq Ids
    /\ pc \in [Writers -> {"idle", "begin", "open", "committed"}]
    /\ seen \in [Writers -> 0 .. MaxTxn] /\ xt_id \in [Writers -> 0 .. MaxTxn]
    /\ intent_count \in [Writers -> 0 .. MaxIntents]
    /\ missed \in [Writers -> BOOLEAN]

Entries_of(log, w, id) == {i \in DOMAIN log : log[i].by = w /\ log[i].txn_id = id}
Logged(w) == Cardinality(Entries_of(il_intents, w, xt_id[w]))

(***************************************************************************)
(* Until it commits, a transaction has all its intents in the log and none *)
(* is marked as committed, whatever the other writers commit, apply and    *)
(* clear, unless the log was full, a replay emptied it, or the race on     *)
(* txn_counter gave its id to two transactions.                            *)
(***************************************************************************)
OpenIntentsKept ==
    \A w \in Writers :
        pc[w] = "open" /\ ~missed[w] /\ xt_id[w] \notin shared =>
            /\ Logged(w) = intent_count[w]
            /\ \A i \in DOMAIN il_intents :
                 il_intents[i].txn_id = xt_id[w] => il_intents[i].flags # "committed"

Rank(s) == IF s = "pending" THEN 0 ELSE IF s = "applied" THEN 1 ELSE 2

(* The entries a clear leaves, and how many of them there are up to i.     *)
Kept(log, id) == {i \in DOMAIN log : ~Cleared(log[i], id)}
Place(K, i) == Cardinality({j \in K : j <= i})

(* The intents at K are still there, in their order, each in the state it  *)
(* was in or a later one.                                                  *)
Advances(K) ==
    /\ Len(il_intents') >= Cardinality(K)
    /\ \A i \in K :
         LET e == il_intents[i]  f == il_intents'[Place(K, i)]
         IN  f.txn_id = e.txn_id /\ f.by = e.by /\ Rank(f.flags) >= Rank(e.flags)

(***************************************************************************)
(* An intent never goes back to an earlier state and never disappears,     *)
(* except in a replay, which drops every intent, and in a clear of its own *)
(* transaction once it is committed.                                       *)
(***************************************************************************)
StatesAdvance ==
    [][ \/ Replay
        \/ Advances(DOMAIN il_intents)
        \/ \E id \in Ids : Clear(id) /\ Advances(Kept(il_intents, id)) ]_vars

(***************************************************************************)
(* The in-place loop of aetherfs_intent_clear removes the committed        *)
(* intents of the transaction and keeps the others in their order: each    *)
(* stands behind those that were kept in front of it.                      *)
(***************************************************************************)
ClearIsExact ==
    \A id \in Ids :
        LET K == Kept(il_intents, id)
            log == intent_clear(il_intents, id)
        IN  /\ Len(log) = Cardinality(K)
            /\ \A i \in K : log[Place(K, i)] = il_intents[i]
=============================================================================
