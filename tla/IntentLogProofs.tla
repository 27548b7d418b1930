-------------------------- MODULE IntentLogProofs --------------------------
(***************************************************************************)
(* The intent log of kernel/journal.c, for any number of writers, any      *)
(* capacity of the log and any number of transactions: its types, what an  *)
(* open transaction keeps, what the clear loop removes and that no intent  *)
(* goes back to an earlier state.                                          *)
(***************************************************************************)
EXTENDS IntentLog, FiniteSetTheorems, SequenceTheorems, NaturalsInduction, TLAPS

-----------------------------------------------------------------------------
(* A set of numbers that is not empty has a least one.                     *)
LEMMA Least ==
    ASSUME NEW T, T \subseteq Nat, T # {} PROVE \E x \in T : \A y \in T : x <= y
<1>1. PICK x \in T : \A y \in T : << y, x >> \notin OpToRel(<, Nat)
  BY WFMin, NatLessThanWellFounded
<1>2. \A y \in T : ~(y < x)
  BY <1>1 DEF OpToRel
<1> QED
  BY <1>2

(* Induction up to N, for the set of the numbers that are proved.          *)
LEMMA UpTo ==
    ASSUME NEW N \in Nat, NEW G, 0 \in G, \A k \in 0 .. (N - 1) : k \in G => k + 1 \in G
    PROVE  \A k \in 0 .. N : k \in G
<1> SUFFICES ASSUME NEW T, T = {k \in 0 .. N : k \notin G}, T # {} PROVE FALSE
  OBVIOUS
<1>1. PICK x \in T : \A y \in T : x <= y
  BY Least
<1>2. x \in 1 .. N /\ x \notin G
  BY <1>1
<1>3. x - 1 \in 0 .. (N - 1) /\ x - 1 \notin T
  BY <1>1, <1>2
<1> QED
  BY <1>2, <1>3

(* A function on 1 .. m is a sequence of length m.                         *)
LEMMA FunctionIsSeq ==
    ASSUME NEW T, NEW m \in Nat, NEW f \in [1 .. m -> T] PROVE f \in Seq(T) /\ Len(f) = m
OBVIOUS

(* There are n numbers from 1 to n.                                        *)
LEMMA CountTo == ASSUME NEW n \in Nat PROVE IsFiniteSet(1 .. n) /\ Cardinality(1 .. n) = n
<1>1. 1 > n => Cardinality(1 .. n) = 0
  BY FS_Interval
<1>2. ~(1 > n) => Cardinality(1 .. n) = n - 1 + 1
  BY FS_Interval
<1>3. IsFiniteSet(1 .. n)
  BY FS_Interval
<1> QED
  BY <1>1, <1>2, <1>3

(* r is q without what is at place s + 1.                                  *)
Shrunk(S, q, s, r) ==
    /\ r \in Seq(S) /\ Len(r) = Len(q) - 1
    /\ \A j \in 1 .. s : r[j] = q[j]
    /\ \A j \in (s + 1) .. (Len(q) - 1) : r[j] = q[j + 1]

(* memmove down: the entries behind the removed one move down by one.      *)
LEMMA RemoveShape ==
    ASSUME NEW S, NEW q \in Seq(S), NEW s \in 0 .. (Len(q) - 1)
    PROVE  Shrunk(S, q, s, RemoveAt(q, s + 1))
<1> SUFFICES ASSUME NEW r, r = RemoveAt(q, s + 1) PROVE Shrunk(S, q, s, r)
  OBVIOUS
<1> DEFINE x == SubSeq(q, 1, s)
           y == SubSeq(q, s + 2, Len(q))
<1>1. (s + 1) - 1 = s /\ s + 1 + 1 = s + 2
  OBVIOUS
<1>2. r = x \o y
  <2>1. r = SubSeq(q, 1, (s + 1) - 1) \o SubSeq(q, s + 1 + 1, Len(q))
    BY Zenon DEF RemoveAt
  <2> QED
    BY <1>1, <2>1, Zenon
<1>3. x \in Seq(S) /\ Len(x) = s /\ \A j \in 1 .. s : x[j] = q[j]
  OBVIOUS
<1>4. /\ y \in Seq(S) /\ Len(y) = Len(q) - 1 - s
      /\ \A j \in 1 .. (Len(q) - 1 - s) : y[j] = q[s + 1 + j]
  OBVIOUS
<1> HIDE DEF x, y
<1>5. r \in Seq(S) /\ Len(r) = Len(q) - 1
  <2>1. r \in Seq(S) /\ Len(r) = Len(x) + Len(y)
    BY ONLY <1>2, <1>3, <1>4, ConcatProperties
  <2> QED
    BY <1>3, <1>4, <2>1
<1>6. \A j \in 1 .. s : r[j] = q[j]
  BY <1>2, <1>3, <1>4
<1>7. ASSUME NEW j \in (s + 1) .. (Len(q) - 1) PROVE r[j] = q[j + 1]
  <2>1. r[j] = y[j - s] /\ j - s \in 1 .. (Len(q) - 1 - s)
    <3>1. Len(q) \in Nat /\ s \in Nat
      OBVIOUS
    <3>2. j \in Int /\ s < j /\ j <= Len(q) - 1
      BY ONLY <1>7, <3>1
    <3>3. /\ j - s \in 1 .. (Len(q) - 1 - s) /\ ~(j <= s)
          /\ j \in 1 .. (s + (Len(q) - 1 - s))
      BY ONLY <3>1, <3>2
    <3>4. \A i \in 1 .. (Len(x) + Len(y)) :
             (x \o y)[i] = IF i <= Len(x) THEN x[i] ELSE y[i - Len(x)]
      BY ONLY <1>3, <1>4, ConcatProperties
    <3>5. (x \o y)[j] = y[j - s]
      BY ONLY <1>3, <1>4, <3>3, <3>4
    <3> QED
      BY ONLY <1>2, <3>3, <3>5
  <2>2. y[j - s] = q[s + 1 + (j - s)] /\ s + 1 + (j - s) = j + 1
    BY <1>4, <2>1
  <2> QED
    BY <2>1, <2>2
<1> QED
  BY <1>5, <1>6, <1>7 DEF Shrunk

-----------------------------------------------------------------------------
(* How the places of K are counted from 0 to N.                            *)
Counting(K, N) ==
    /\ Place(K, 0) = 0 /\ Place(K, N) = Cardinality(K)
    /\ \A k \in 0 .. N : Place(K, k) \in Nat
    /\ \A k \in 0 .. (N - 1) :
         Place(K, k + 1) = Place(K, k) + (IF k + 1 \in K THEN 1 ELSE 0)

(* How many of the kept entries lie up to a place.                         *)
LEMMA PlaceStep ==
    ASSUME NEW N \in Nat, NEW K, K \subseteq 1 .. N PROVE Counting(K, N)
<1>0. \A j \in K : j \in Nat /\ 1 <= j /\ j <= N
  OBVIOUS
<1>1. \A k \in 0 .. N : IsFiniteSet({j \in K : j <= k})
  <2> SUFFICES ASSUME NEW k \in 0 .. N PROVE IsFiniteSet({j \in K : j <= k})
    OBVIOUS
  <2>1. IsFiniteSet(1 .. N)
    BY FS_Interval
  <2>2. {j \in K : j <= k} \subseteq 1 .. N
    OBVIOUS
  <2> QED
    BY ONLY <2>1, <2>2, FS_Subset
<1>2. Place(K, 0) = 0
  <2>0. \A j \in K : ~(j <= 0)
    BY <1>0
  <2>1. {j \in K : j <= 0} = {}
    BY <2>0
  <2> QED
    BY <2>1, FS_EmptySet DEF Place
<1>3. Place(K, N) = Cardinality(K)
  <2>1. {j \in K : j <= N} = K
    BY <1>0
  <2> QED
    BY <2>1 DEF Place
<1>4. \A k \in 0 .. N : Place(K, k) \in Nat
  BY <1>1, FS_CardinalityType DEF Place
<1>5. ASSUME NEW k \in 0 .. (N - 1)
      PROVE  Place(K, k + 1) = Place(K, k) + (IF k + 1 \in K THEN 1 ELSE 0)
  <2> DEFINE A == {j \in K : j <= k}
             B == {j \in K : j <= k + 1}
  <2>1. IsFiniteSet(A) /\ Cardinality(A) \in Nat
    BY <1>1, FS_CardinalityType
  <2>4. ~(k + 1 <= k) /\ \A j \in K : j <= k + 1 <=> (j <= k \/ j = k + 1)
    BY <1>0
  <2>2. CASE k + 1 \in K
    <3>1. B = A \cup {k + 1} /\ k + 1 \notin A
      BY <2>2, <2>4
    <3> HIDE DEF A, B
    <3>2. Cardinality(B) = Cardinality(A) + 1
      BY <2>1, <3>1, FS_AddElement
    <3> QED
      BY <2>2, <3>2 DEF Place, A, B
  <2>3. CASE k + 1 \notin K
    <3>1. B = A
      BY <2>3, <2>4
    <3> QED
      BY <2>1, <2>3, <3>1 DEF Place
  <2> QED
    BY <2>2, <2>3
<1> QED
  BY <1>2, <1>3, <1>4, <1>5 DEF Counting

(* The kept entries are counted in their order.                            *)
LEMMA PlaceOrder ==
    ASSUME NEW N \in Nat, NEW K, K \subseteq 1 .. N, NEW i \in K, NEW k \in 0 .. N, i <= k
    PROVE  /\ Place(K, i) \in 1 .. Place(K, k)
           /\ i < k /\ k \in K => Place(K, i) < Place(K, k)
<1> DEFINE G == {n \in 0 .. N : \A j \in K : j <= n =>
                    /\ Place(K, j) \in 1 .. Place(K, n)
                    /\ j < n /\ n \in K => Place(K, j) < Place(K, n)}
<1>0. \A j \in K : j \in Nat /\ 1 <= j /\ j <= N
  OBVIOUS
<1>1. /\ \A n \in 0 .. N : Place(K, n) \in Nat
      /\ \A n \in 0 .. (N - 1) :
           Place(K, n + 1) = Place(K, n) + (IF n + 1 \in K THEN 1 ELSE 0)
  <2>1. Counting(K, N)
    BY ONLY N \in Nat, K \subseteq 1 .. N, PlaceStep
  <2> QED
    BY ONLY <2>1, Zenon DEF Counting
<1>2. 0 \in G
  BY <1>0
<1>3. ASSUME NEW n \in 0 .. (N - 1), n \in G PROVE n + 1 \in G
  <2> SUFFICES ASSUME NEW j \in K, j <= n + 1
               PROVE  /\ Place(K, j) \in 1 .. Place(K, n + 1)
                      /\ j < n + 1 /\ n + 1 \in K => Place(K, j) < Place(K, n + 1)
    <3>1. n + 1 \in 0 .. N
      OBVIOUS
    <3> QED
      BY <3>1
  <2>1. CASE j = n + 1
    <3>1. n + 1 \in K /\ Place(K, n) \in Nat
      BY <1>1, <2>1
    <3>2. Place(K, n + 1) = Place(K, n) + 1
      BY <1>1, <3>1
    <3>3. Place(K, n + 1) \in 1 .. Place(K, n + 1)
      BY <3>1, <3>2
    <3> QED
      BY <2>1, <3>3
  <2>2. CASE j <= n
    <3>1. Place(K, j) \in 1 .. Place(K, n)
      BY <1>3, <2>2
    <3> QED
      BY <1>1, <2>2, <3>1
  <2>3. j = n + 1 \/ j <= n
    BY <1>0
  <2> QED
    BY <2>1, <2>2, <2>3
<1> HIDE DEF G
<1>4. \A n \in 0 .. N : n \in G
  BY ONLY N \in Nat, <1>2, <1>3, UpTo
<1> QED
  BY <1>4 DEF G

-----------------------------------------------------------------------------
(* The rounds of a clear.                                                  *)
Rounds(log, id, n, f) ==
    f = [k \in 0 .. n |-> IF k = 0 THEN [log |-> log, i |-> 1] ELSE Clear_round(f[k - 1], id)]

(* The recursion of intent_clear is well founded.                          *)
LEMMA RoundsExist ==
    ASSUME NEW log, NEW id, NEW N \in Nat PROVE \E f : Rounds(log, id, N, f)
<1> DEFINE G == {n \in 0 .. N : \E f : Rounds(log, id, n, f)}
<1>1. 0 \in G
  <2>1. Rounds(log, id, 0, [k \in 0 .. 0 |-> [log |-> log, i |-> 1]])
    BY DEF Rounds
  <2> QED
    BY <2>1
<1>2. ASSUME NEW n \in 0 .. (N - 1), n \in G PROVE n + 1 \in G
  <2>1. PICK f : Rounds(log, id, n, f)
    BY <1>2
  <2> DEFINE g == [k \in 0 .. (n + 1) |-> IF k = n + 1 THEN Clear_round(f[n], id) ELSE f[k]]
  <2>2. g[0] = [log |-> log, i |-> 1]
    BY <2>1 DEF Rounds
  <2>3. ASSUME NEW k \in 0 .. (n + 1), k # 0 PROVE g[k] = Clear_round(g[k - 1], id)
    <3>1. CASE k = n + 1
      BY <3>1
    <3>2. CASE k # n + 1
      <4>1. k \in 0 .. n /\ k - 1 \in 0 .. n /\ k - 1 # n + 1
        BY <2>3, <3>2
      <4>2. g[k] = f[k] /\ g[k - 1] = f[k - 1]
        BY <3>2, <4>1
      <4>3. f[k] = Clear_round(f[k - 1], id)
        BY <2>1, <2>3, <4>1 DEF Rounds
      <4> QED
        BY <4>2, <4>3
    <3> QED
      BY <3>1, <3>2
  <2>4. g = [k \in 0 .. (n + 1) |-> g[k]]
    OBVIOUS
  <2> HIDE DEF g
  <2>5. Rounds(log, id, n + 1, g)
    BY <2>2, <2>3, <2>4 DEF Rounds
  <2> QED
    BY <2>5
<1> HIDE DEF G
<1>3. \A k \in 0 .. N : k \in G
  BY ONLY N \in Nat, <1>1, <1>2, UpTo
<1> QED
  BY <1>3 DEF G

(* Where a clear stands after k rounds: what it kept of the first k        *)
(* entries, in order, and behind it the entries it has not looked at.      *)
Standing(S, log, id, k, s) ==
    LET K == Kept(log, id) IN
    /\ s = [log |-> s.log, i |-> s.i]
    /\ s.log \in Seq(S) /\ s.i = Place(K, k) + 1
    /\ Len(s.log) = Place(K, k) + (Len(log) - k)
    /\ \A j \in K : j <= k => s.log[Place(K, j)] = log[j]
    /\ \A j \in (k + 1) .. Len(log) : s.log[Place(K, k) + (j - k)] = log[j]

(* A round.                                                                *)
LEMMA RoundStep ==
    ASSUME NEW S, NEW log \in Seq(S), NEW id, NEW k \in 0 .. (Len(log) - 1), NEW s,
           Standing(S, log, id, k, s)
    PROVE  Standing(S, log, id, k + 1, Clear_round(s, id))
<1> SUFFICES ASSUME NEW N, N = Len(log), NEW K, K = Kept(log, id), NEW P, P = Place(K, k),
                    NEW q, q = s.log, NEW r, r = Clear_round(s, id)
             PROVE  Standing(S, log, id, k + 1, r)
  OBVIOUS
<1>1. N \in Nat /\ K \subseteq 1 .. N /\ k \in 0 .. (N - 1)
  BY DEF Kept
<1>2. P \in Nat /\ Place(K, k + 1) = P + (IF k + 1 \in K THEN 1 ELSE 0)
  <2>1. Counting(K, N)
    BY ONLY <1>1, PlaceStep
  <2>2. /\ \A n \in 0 .. N : Place(K, n) \in Nat
        /\ \A n \in 0 .. (N - 1) :
             Place(K, n + 1) = Place(K, n) + (IF n + 1 \in K THEN 1 ELSE 0)
    BY ONLY <2>1, Zenon DEF Counting
  <2> QED
    BY <1>1, <2>2
<1>3. /\ q \in Seq(S) /\ s.i = P + 1 /\ Len(q) = P + (N - k)
      /\ \A j \in K : j <= k => q[Place(K, j)] = log[j]
      /\ \A j \in (k + 1) .. N : q[P + (j - k)] = log[j]
  BY DEF Standing
<1>4. ~(s.i > Len(q)) /\ q[P + 1] = log[k + 1]
  <2>1. k + 1 \in (k + 1) .. N /\ (k + 1) - k = 1
    BY <1>1
  <2> QED
    BY <1>1, <1>2, <1>3, <2>1
<1>5. k + 1 \in K <=> ~Cleared(log[k + 1], id)
  BY <1>1 DEF Kept
<1>6. \A j \in K : j \in Nat /\ (j <= k + 1 <=> (j <= k \/ j = k + 1))
  BY <1>1
<1>7. CASE Cleared(log[k + 1], id)
  <2>1. r = [log |-> RemoveAt(q, P + 1), i |-> P + 1]
    BY <1>3, <1>4, <1>7 DEF Clear_round
  <2>2. PICK t : t = RemoveAt(q, P + 1)
    OBVIOUS
  <2>3. Shrunk(S, q, P, t)
    <3>1. P \in 0 .. (Len(q) - 1)
      BY <1>1, <1>2, <1>3
    <3> QED
      BY <1>3, <2>2, <3>1, RemoveShape
  <2>4. k + 1 \notin K /\ Place(K, k + 1) = P
    BY <1>2, <1>5, <1>7
  <2>5. t \in Seq(S) /\ Len(t) = P + (N - (k + 1))
    BY <1>1, <1>2, <1>3, <2>3 DEF Shrunk
  <2>6. ASSUME NEW j \in K, j <= k + 1 PROVE t[Place(K, j)] = log[j]
    <3>1. j <= k
      BY <1>6, <2>4, <2>6
    <3>2. Place(K, j) \in 1 .. P
      BY <1>1, <3>1, PlaceOrder
    <3> QED
      BY <1>3, <2>3, <3>1, <3>2 DEF Shrunk
  <2>7. ASSUME NEW j \in (k + 2) .. N PROVE t[P + (j - (k + 1))] = log[j]
    <3>1. /\ P + (j - (k + 1)) \in (P + 1) .. (Len(q) - 1)
          /\ (P + (j - (k + 1))) + 1 = P + (j - k) /\ j \in (k + 1) .. N
      <4>1. N \in Nat /\ k \in Nat /\ P \in Nat /\ Len(q) = P + (N - k)
        BY <1>1, <1>2, <1>3
      <4> QED
        BY ONLY <2>7, <4>1
    <3>2. t[P + (j - (k + 1))] = q[(P + (j - (k + 1))) + 1]
      BY <2>3, <3>1 DEF Shrunk
    <3> QED
      BY <1>3, <3>1, <3>2
  <2>8. r = [log |-> t, i |-> P + 1]
    BY <2>1, <2>2
  <2> QED
    BY <1>1, <2>4, <2>5, <2>6, <2>7, <2>8 DEF Standing
<1>8. CASE ~Cleared(log[k + 1], id)
  <2>1. r = [log |-> q, i |-> P + 2]
    BY <1>2, <1>3, <1>4, <1>8 DEF Clear_round
  <2>2. k + 1 \in K /\ Place(K, k + 1) = P + 1
    BY <1>2, <1>5, <1>8
  <2>3. Len(q) = (P + 1) + (N - (k + 1))
    BY <1>1, <1>2, <1>3
  <2>4. ASSUME NEW j \in K, j <= k + 1 PROVE q[Place(K, j)] = log[j]
    BY <1>3, <1>4, <1>6, <2>2, <2>4
  <2>5. ASSUME NEW j \in (k + 2) .. N PROVE q[(P + 1) + (j - (k + 1))] = log[j]
    <3>1. (P + 1) + (j - (k + 1)) = P + (j - k) /\ j \in (k + 1) .. N
      BY <1>1, <1>2
    <3> QED
      BY <1>3, <3>1
  <2>6. (P + 1) + 1 = P + 2
    BY <1>2
  <2> QED
    BY <1>1, <1>3, <2>1, <2>2, <2>3, <2>4, <2>5, <2>6 DEF Standing
<1> QED
  BY <1>7, <1>8

(* r is what a clear of transaction id makes of the log.                   *)
ClearTo(S, log, id, r) ==
    /\ r \in Seq(S) /\ Len(r) = Cardinality(Kept(log, id))
    /\ \A i \in Kept(log, id) : r[Place(Kept(log, id), i)] = log[i]

(* The loop of aetherfs_intent_clear, to its end.                          *)
LEMMA ClearShape ==
    ASSUME NEW S, NEW log \in Seq(S), NEW id PROVE ClearTo(S, log, id, intent_clear(log, id))
<1> DEFINE N == Len(log)
           K == Kept(log, id)
           loop == CHOOSE f : Rounds(log, id, N, f)
<1>1. N \in Nat /\ K \subseteq 1 .. N
  BY DEF Kept
<1>2. Rounds(log, id, N, loop)
  <2>1. \E f : Rounds(log, id, N, f)
    BY <1>1, RoundsExist
  <2> QED
    BY <2>1
<1>3. intent_clear(log, id) = loop[N].log
  BY DEF intent_clear, Rounds
<1> HIDE DEF loop
<1> DEFINE G == {k \in 0 .. N : Standing(S, log, id, k, loop[k])}
<1>4. 0 \in G
  <2>1. loop[0] = [log |-> log, i |-> 1]
    BY <1>1, <1>2 DEF Rounds
  <2>2. Place(K, 0) = 0
    BY <1>1, PlaceStep DEF Counting
  <2>3. \A j \in K : ~(j <= 0)
    BY <1>1
  <2>4. \A j \in 1 .. N : 0 + (j - 0) = j
    BY <1>1
  <2>5. N = 0 + (N - 0)
    BY <1>1
  <2>6. Standing(S, log, id, 0, loop[0])
    BY <2>1, <2>2, <2>3, <2>4, <2>5 DEF Standing
  <2> QED
    BY <1>1, <2>6
<1>5. ASSUME NEW k \in 0 .. (N - 1), k \in G PROVE k + 1 \in G
  <2>1. loop[k + 1] = Clear_round(loop[k], id)
    <3>1. k + 1 \in 0 .. N /\ k + 1 # 0 /\ (k + 1) - 1 = k
      BY <1>1
    <3> QED
      BY <1>2, <3>1 DEF Rounds
  <2>2. Standing(S, log, id, k, loop[k])
    BY <1>5
  <2>3. Standing(S, log, id, k + 1, loop[k + 1])
    BY <2>1, <2>2, RoundStep
  <2> QED
    BY <1>1, <2>3
<1>6. N \in G
  <2> HIDE DEF G, N
  <2>1. \A k \in 0 .. N : k \in G
    BY ONLY <1>1, <1>4, <1>5, UpTo
  <2> QED
    BY ONLY <1>1, <2>1
<1>7. Standing(S, log, id, N, loop[N]) /\ Place(K, N) = Cardinality(K)
  BY <1>1, <1>6, PlaceStep DEF Counting
<1>8. Place(K, N) \in Nat
  BY <1>1, PlaceStep DEF Counting
<1>9. \A i \in K : i <= N
  BY <1>1
<1>10. Len(loop[N].log) = Cardinality(K)
  BY <1>1, <1>7, <1>8 DEF Standing
<1> QED
  BY <1>3, <1>7, <1>9, <1>10 DEF Standing, ClearTo

Entry == [txn_id : Ids, flags : States, by : Writers]

(* The removal loop is exact in every log.                                 *)
THEOREM ClearRemovesExactly == il_intents \in Seq(Entry) => ClearIsExact
<1> SUFFICES ASSUME il_intents \in Seq(Entry), NEW id \in Ids
             PROVE  /\ Len(intent_clear(il_intents, id)) = Cardinality(Kept(il_intents, id))
                    /\ \A i \in Kept(il_intents, id) :
                         intent_clear(il_intents, id)[Place(Kept(il_intents, id), i)]
                            = il_intents[i]
  BY DEF ClearIsExact
<1>1. ClearTo(Entry, il_intents, id, intent_clear(il_intents, id))
  BY ClearShape
<1> QED
  BY <1>1 DEF ClearTo

-----------------------------------------------------------------------------
(* The kept entries fill the places of the cleared log.                    *)
LEMMA PlacesFilled ==
    ASSUME NEW S, NEW log \in Seq(S), NEW id, NEW r, ClearTo(S, log, id, r),
           NEW f, f = [i \in Kept(log, id) |-> Place(Kept(log, id), i)]
    PROVE  f \in Bijection(Kept(log, id), 1 .. Len(r))
<1> SUFFICES ASSUME NEW K, K = Kept(log, id), NEW N, N = Len(log)
             PROVE  f \in Bijection(K, 1 .. Len(r))
  OBVIOUS
<1>1. N \in Nat /\ K \subseteq 1 .. N
  BY DEF Kept
<1>2. Len(r) = Cardinality(K) /\ Len(r) = Place(K, N) /\ Len(r) \in Nat
  <2>1. Place(K, N) = Cardinality(K)
    BY ONLY <1>1, PlaceStep DEF Counting
  <2> QED
    BY <2>1 DEF ClearTo
<1>3. \A i \in K : f[i] = Place(K, i)
  OBVIOUS
<1>4. ASSUME NEW i \in K PROVE Place(K, i) \in 1 .. Len(r)
  <2>1. N \in 0 .. N /\ i <= N
    BY <1>1
  <2>2. Place(K, i) \in 1 .. Place(K, N)
    BY ONLY <1>1, <2>1, <1>4, PlaceOrder
  <2> QED
    BY <1>2, <2>2
<1>5. f \in [K -> 1 .. Len(r)]
  BY <1>4
<1>6. ASSUME NEW i \in K, NEW j \in K, i < j PROVE f[i] # f[j]
  <2>1. j \in 0 .. N /\ i <= j
    BY <1>1, <1>6
  <2>2. Place(K, i) < Place(K, j)
    BY ONLY <1>1, <1>6, <2>1, PlaceOrder
  <2>3. Place(K, i) \in Nat /\ Place(K, j) \in Nat
    BY <1>2, <1>4
  <2> QED
    BY <1>3, <2>2, <2>3
<1>7. ASSUME NEW i \in K, NEW j \in K, f[i] = f[j] PROVE i = j
  <2>1. i \in Nat /\ j \in Nat
    BY <1>1
  <2> QED
    BY <1>6, <1>7, <2>1
<1>8. f \in Injection(K, 1 .. Len(r))
  BY <1>5, <1>7 DEF Injection, IsInjective
<1>9. IsFiniteSet(1 .. Len(r)) /\ Cardinality(1 .. Len(r)) = Cardinality(K)
  BY <1>2, CountTo
<1>10. f \in Surjection(K, 1 .. Len(r))
  BY ONLY <1>8, <1>9, FS_Injection
<1> QED
  BY <1>8, <1>10 DEF Bijection

(* A clear keeps as many intents of a transaction as there were, when none *)
(* of them is committed.                                                   *)
LEMMA ClearKeeps ==
    ASSUME NEW S, NEW log \in Seq(S), NEW id, NEW r, ClearTo(S, log, id, r), NEW w, NEW x,
           Entries_of(log, w, x) \subseteq Kept(log, id)
    PROVE  Cardinality(Entries_of(r, w, x)) = Cardinality(Entries_of(log, w, x))
<1> SUFFICES ASSUME NEW K, K = Kept(log, id), NEW A, A = Entries_of(log, w, x),
                    NEW B, B = Entries_of(r, w, x), NEW f, f = [i \in K |-> Place(K, i)],
                    NEW g, g = [i \in A |-> f[i]]
             PROVE  Cardinality(B) = Cardinality(A)
  OBVIOUS
<1>1. f \in Bijection(K, 1 .. Len(r))
  BY PlacesFilled
<1>2. A \subseteq K /\ K \subseteq 1 .. Len(log) /\ \A i \in K : r[f[i]] = log[i]
  BY DEF ClearTo, Kept
<1>3. \A i \in K : f[i] \in 1 .. Len(r)
  BY <1>1 DEF Bijection, Injection
<1>4. DOMAIN r = 1 .. Len(r) /\ DOMAIN log = 1 .. Len(log)
  BY DEF ClearTo
<1>5. \A i \in K : i \in A <=> f[i] \in B
  BY <1>2, <1>3, <1>4 DEF Entries_of
<1>6. \A i, j \in K : f[i] = f[j] => i = j
  BY <1>1 DEF Bijection, Injection, IsInjective
<1>7. \A p \in 1 .. Len(r) : \E i \in K : f[i] = p
  BY <1>1 DEF Bijection, Surjection
<1>8. B \subseteq 1 .. Len(r)
  BY <1>4 DEF Entries_of
<1>9. g \in [A -> B] /\ \A i \in A : g[i] = f[i]
  BY <1>2, <1>5
<1>10. g \in Bijection(A, B)
  <2>1. ASSUME NEW p \in B PROVE \E i \in A : g[i] = p
    <3>1. PICK i \in K : f[i] = p
      BY ONLY <1>7, <1>8, p \in B
    <3>2. i \in A
      BY ONLY <1>5, <3>1, p \in B
    <3>3. g[i] = p
      BY ONLY <1>9, <3>1, <3>2
    <3> QED
      BY ONLY <3>2, <3>3
  <2>2. \A i, j \in A : g[i] = g[j] => i = j
    BY ONLY <1>2, <1>6, <1>9
  <2>3. g \in Injection(A, B)
    BY ONLY <1>9, <2>2 DEF Injection, IsInjective
  <2>4. g \in Surjection(A, B)
    BY ONLY <1>9, <2>1 DEF Surjection
  <2> QED
    BY ONLY <2>3, <2>4 DEF Bijection
<1>11. IsFiniteSet(A)
  <2>1. IsFiniteSet(1 .. Len(log))
    BY FS_Interval
  <2> QED
    BY <1>2, <2>1, FS_Subset
<1> QED
  BY <1>10, <1>11, FS_Bijection DEF ExistsBijection

(* Every intent a clear leaves was in the log.                             *)
LEMMA ClearFrom ==
    ASSUME NEW S, NEW log \in Seq(S), NEW id, NEW r, ClearTo(S, log, id, r),
           NEW p \in 1 .. Len(r)
    PROVE  \E i \in 1 .. Len(log) : r[p] = log[i]
<1> SUFFICES ASSUME NEW K, K = Kept(log, id), NEW f, f = [i \in K |-> Place(K, i)]
             PROVE  \E i \in 1 .. Len(log) : r[p] = log[i]
  OBVIOUS
<1>1. f \in Bijection(K, 1 .. Len(r))
  BY PlacesFilled
<1>2. PICK i \in K : f[i] = p
  BY <1>1 DEF Bijection, Surjection
<1>3. r[f[i]] = log[i] /\ i \in 1 .. Len(log)
  BY DEF ClearTo, Kept
<1> QED
  BY <1>2, <1>3

(* When nothing is removed, every entry stands in its own place.           *)
LEMMA PlaceOfAll ==
    ASSUME NEW N \in Nat, NEW i \in 1 .. N PROVE Place(1 .. N, i) = i
<1>1. {j \in 1 .. N : j <= i} = 1 .. i
  OBVIOUS
<1>2. Cardinality(1 .. i) = i
  BY CountTo
<1> QED
  BY <1>1, <1>2 DEF Place

-----------------------------------------------------------------------------
(***************************************************************************)
(* The invariant.  An id in the log, or of an open transaction, has been   *)
(* given out; two open transactions with one id have it from the race.  So *)
(* what another writer commits is not an open transaction's, and a new one *)
(* finds no intents under its id.                                          *)
(***************************************************************************)
IdInv ==
    /\ \A w \in Writers : pc[w] = "begin" => seen[w] \in Ids
    /\ \A w \in Writers : pc[w] = "open" => xt_id[w] \in given
    /\ \A i \in DOMAIN il_intents : il_intents[i].txn_id \in given
    /\ \A v, w \in Writers :
         pc[v] = "open" /\ pc[w] = "open" /\ v # w /\ xt_id[v] = xt_id[w] => xt_id[w] \in shared

LogInv == TypeOK /\ IdInv /\ OpenIntentsKept

(* r is the log after the entries of hits were set to state s.             *)
MarkTo(log, hits, s, r) ==
    /\ r \in Seq(Entry) /\ Len(r) = Len(log)
    /\ \A i \in 1 .. Len(log) :
         /\ r[i].txn_id = log[i].txn_id /\ r[i].by = log[i].by
         /\ r[i].flags = IF i \in hits THEN s ELSE log[i].flags

(* The loops that set a state change nothing else.                         *)
LEMMA MarkShape ==
    ASSUME NEW log \in Seq(Entry), NEW hits, NEW s \in States
    PROVE  MarkTo(log, hits, s, Mark(log, hits, s))
<1> SUFFICES ASSUME NEW r, r = Mark(log, hits, s), NEW N, N = Len(log)
             PROVE  MarkTo(log, hits, s, r)
  OBVIOUS
<1>1. N \in Nat /\ DOMAIN log = 1 .. N
  OBVIOUS
<1>2. ASSUME NEW i \in 1 .. N
      PROVE  /\ r[i] \in Entry /\ r[i].txn_id = log[i].txn_id /\ r[i].by = log[i].by
             /\ r[i].flags = IF i \in hits THEN s ELSE log[i].flags
  <2>1. r[i] = IF i \in hits THEN [log[i] EXCEPT !.flags = s] ELSE log[i]
    BY <1>1 DEF Mark
  <2>2. log[i] \in Entry
    OBVIOUS
  <2>3. PICK e \in Entry : e = log[i]
    BY <2>2
  <2>4. /\ [e EXCEPT !.flags = s] \in Entry
        /\ [e EXCEPT !.flags = s].txn_id = e.txn_id
        /\ [e EXCEPT !.flags = s].by = e.by
        /\ [e EXCEPT !.flags = s].flags = s
    BY DEF Entry
  <2> QED
    BY <2>1, <2>3, <2>4
<1>3. r \in [1 .. N -> Entry]
  <2>1. DOMAIN r = 1 .. N /\ r = [i \in 1 .. N |-> r[i]]
    BY <1>1 DEF Mark
  <2> QED
    BY <1>2, <2>1
<1>4. r \in Seq(Entry) /\ Len(r) = N
  BY ONLY <1>1, <1>3, FunctionIsSeq
<1> QED
  BY <1>2, <1>4 DEF MarkTo

(* Such a loop leaves the intents of every transaction in their places.    *)
LEMMA MarkKeeps ==
    ASSUME NEW log \in Seq(Entry), NEW hits, NEW s, NEW r, MarkTo(log, hits, s, r),
           NEW w, NEW x
    PROVE  Entries_of(r, w, x) = Entries_of(log, w, x)
<1>1. DOMAIN r = 1 .. Len(log) /\ DOMAIN log = 1 .. Len(log)
  BY DEF MarkTo
<1> QED
  BY <1>1 DEF Entries_of, MarkTo

(* intent_create.                                                          *)
LEMMA CreateShape ==
    ASSUME NEW log \in Seq(Entry), Len(log) <= il_capacity, NEW id \in Ids, NEW w \in Writers,
           NEW r, r = intent_create(log, id, w)
    PROVE  \/ r = log
           \/ /\ r \in Seq(Entry) /\ r # log
              /\ Len(r) = Len(log) + 1 /\ Len(r) <= il_capacity
              /\ \A i \in 1 .. Len(log) : r[i] = log[i]
              /\ r[Len(log) + 1] = Intent(id, w)
<1>1. Intent(id, w) \in Entry
  BY DEF Intent, Entry, States
<1>2. CASE Len(log) >= il_capacity
  BY <1>2 DEF intent_create
<1>3. CASE ~(Len(log) >= il_capacity)
  <2>1. PICK e \in Entry : e = Intent(id, w)
    BY <1>1
  <2>2. r = Append(log, e) /\ Len(log) \in Nat /\ il_capacity \in Nat
    BY <1>3, <2>1, IntentLogAssumption DEF intent_create
  <2>3. /\ r \in Seq(Entry) /\ Len(r) = Len(log) + 1
        /\ \A i \in 1 .. Len(log) : r[i] = log[i]
        /\ r[Len(log) + 1] = e
    BY <2>2
  <2>4. r # log /\ Len(r) <= il_capacity
    BY <1>3, <2>2, <2>3
  <2> QED
    BY <2>1, <2>3, <2>4
<1> QED
  BY <1>2, <1>3

-----------------------------------------------------------------------------
(* An empty log.                                                           *)
LEMMA InitLog == Init => LogInv
<1> SUFFICES ASSUME Init PROVE LogInv
  OBVIOUS
<1>1. TypeOK
  BY IntentLogAssumption DEF Init, TypeOK, Ids
<1>2. IdInv
  BY DEF Init, IdInv
<1>3. OpenIntentsKept
  BY DEF Init, OpenIntentsKept
<1> QED
  BY <1>1, <1>2, <1>3 DEF LogInv

(* The first half of the unlocked increment.                               *)
LEMMA ReadStep == ASSUME LogInv, NEW w \in Writers, ReadCounter(w) PROVE LogInv'
<1> USE DEF LogInv
<1>1. txn_counter \in Ids
  BY IntentLogAssumption DEF TypeOK, ReadCounter, Ids
<1>2. TypeOK'
  BY <1>1, IntentLogAssumption DEF TypeOK, ReadCounter, Ids
<1>3. \A v \in Writers : pc'[v] = "open" => pc[v] = "open"
  BY DEF TypeOK, ReadCounter
<1>4. IdInv'
  <2>1. \A v \in Writers : pc'[v] = "begin" => seen'[v] \in Ids
    BY <1>1 DEF TypeOK, IdInv, ReadCounter
  <2>2. \A v \in Writers : pc'[v] = "open" => xt_id'[v] \in given'
    BY <1>3 DEF IdInv, ReadCounter
  <2>3. \A i \in DOMAIN il_intents' : il_intents'[i].txn_id \in given'
    BY DEF IdInv, ReadCounter
  <2>4. \A u, v \in Writers :
          pc'[u] = "open" /\ pc'[v] = "open" /\ u # v /\ xt_id'[u] = xt_id'[v]
             => xt_id'[v] \in shared'
    BY <1>3 DEF IdInv, ReadCounter
  <2> QED
    BY <2>1, <2>2, <2>3, <2>4 DEF IdInv
<1>5. OpenIntentsKept'
  BY <1>3 DEF OpenIntentsKept, Logged, Entries_of, ReadCounter
<1> QED
  BY <1>2, <1>4, <1>5

(* The second half: the id is new, or shared from now on.                  *)
LEMMA BumpStep == ASSUME LogInv, NEW w \in Writers, BumpCounter(w) PROVE LogInv'
<1> USE DEF LogInv
<1>1. seen[w] \in Ids
  BY DEF IdInv, BumpCounter
<1>2. TypeOK'
  <2>1. seen[w] + 1 \in 1 .. (MaxTxn + 1) /\ seen[w] \in 0 .. MaxTxn
    BY <1>1, IntentLogAssumption DEF Ids
  <2>2. given' \subseteq Ids /\ shared' \subseteq given'
    BY <1>1 DEF TypeOK, BumpCounter
  <2> QED
    BY <2>1, <2>2, IntentLogAssumption DEF TypeOK, BumpCounter
<1>3. /\ \A v \in Writers \ {w} :
           /\ pc'[v] = pc[v] /\ xt_id'[v] = xt_id[v] /\ missed'[v] = missed[v]
           /\ intent_count'[v] = intent_count[v] /\ seen'[v] = seen[v]
      /\ pc'[w] = "open" /\ xt_id'[w] = seen[w] /\ intent_count'[w] = 0
      /\ given' = given \cup {seen[w]} /\ shared' = shared \cup (given \cap {seen[w]})
      /\ il_intents' = il_intents
  BY DEF TypeOK, BumpCounter
<1>4. IdInv'
  <2>1. \A v \in Writers : pc'[v] = "begin" => seen'[v] \in Ids
    BY <1>3 DEF IdInv
  <2>2. \A v \in Writers : pc'[v] = "open" => xt_id'[v] \in given'
    BY <1>3 DEF IdInv
  <2>3. \A i \in DOMAIN il_intents' : il_intents'[i].txn_id \in given'
    BY <1>3 DEF IdInv
  <2>4. \A u, v \in Writers :
          pc'[u] = "open" /\ pc'[v] = "open" /\ u # v /\ xt_id'[u] = xt_id'[v]
             => xt_id'[v] \in shared'
    BY <1>3 DEF IdInv
  <2> QED
    BY <2>1, <2>2, <2>3, <2>4 DEF IdInv
<1>5. OpenIntentsKept'
  <2> SUFFICES ASSUME NEW v \in Writers, pc'[v] = "open", ~missed'[v], xt_id'[v] \notin shared'
               PROVE  /\ Cardinality(Entries_of(il_intents', v, xt_id'[v])) = intent_count'[v]
                      /\ \A i \in DOMAIN il_intents' :
                           il_intents'[i].txn_id = xt_id'[v]
                              => il_intents'[i].flags # "committed"
    BY DEF OpenIntentsKept, Logged
  <2>1. CASE v = w
    <3>1. seen[w] \notin given
      BY <1>3, <2>1
    <3>2. \A i \in DOMAIN il_intents : il_intents[i].txn_id # seen[w]
      BY <3>1 DEF IdInv
    <3>3. Entries_of(il_intents, w, seen[w]) = {}
      BY <3>2 DEF Entries_of
    <3> QED
      BY <1>3, <2>1, <3>2, <3>3, FS_EmptySet
  <2>2. CASE v # w
    BY <1>3, <2>2 DEF OpenIntentsKept, Logged
  <2> QED
    BY <2>1, <2>2
<1> QED
  BY <1>2, <1>4, <1>5

(* The end of a transaction.                                               *)
LEMMA FreeStep == ASSUME LogInv, NEW w \in Writers, transaction_free(w) PROVE LogInv'
<1> USE DEF LogInv
<1>1. TypeOK'
  BY DEF TypeOK, transaction_free
<1>2. \A v \in Writers : /\ pc'[v] = "open" => pc[v] = "open"
                         /\ pc'[v] = "begin" => pc[v] = "begin"
  BY DEF TypeOK, transaction_free
<1>3. IdInv'
  BY <1>2 DEF IdInv, transaction_free
<1>4. OpenIntentsKept'
  BY <1>2 DEF OpenIntentsKept, Logged, Entries_of, transaction_free
<1> QED
  BY <1>1, <1>3, <1>4

(* An intent is added, or dropped by a full log.                           *)
LEMMA AddStep == ASSUME LogInv, NEW w \in Writers, transaction_add_intent(w) PROVE LogInv'
<1> USE DEF LogInv
<1>1. PICK log : log = il_intents'
  OBVIOUS
<1>2. PICK old : old = il_intents
  OBVIOUS
<1>3. pc[w] = "open" /\ xt_id[w] \in Ids /\ old \in Seq(Entry) /\ Len(old) <= il_capacity
  BY <1>2 DEF TypeOK, IdInv, Entry, transaction_add_intent
<1>4. log = intent_create(old, xt_id[w], w)
  BY <1>1, <1>2 DEF transaction_add_intent
<1>5. \/ log = old
      \/ /\ log \in Seq(Entry) /\ log # old
         /\ Len(log) = Len(old) + 1 /\ Len(log) <= il_capacity
         /\ \A i \in 1 .. Len(old) : log[i] = old[i]
         /\ log[Len(old) + 1] = Intent(xt_id[w], w)
  BY ONLY <1>3, <1>4, w \in Writers, CreateShape
<1>6. /\ pc' = pc /\ seen' = seen /\ xt_id' = xt_id /\ given' = given /\ shared' = shared
      /\ txn_counter' = txn_counter
      /\ \A v \in Writers \ {w} : missed'[v] = missed[v] /\ intent_count'[v] = intent_count[v]
      /\ ~missed'[w] => ~missed[w] /\ log # old
      /\ intent_count'[w] = intent_count[w] + 1
  BY <1>1, <1>2 DEF TypeOK, transaction_add_intent
<1>7. TypeOK'
  <2>1. log \in Seq(Entry) /\ Len(log) <= il_capacity
    BY <1>3, <1>5
  <2>2. intent_count' \in [Writers -> 0 .. MaxIntents]
    BY IntentLogAssumption DEF TypeOK, transaction_add_intent
  <2>3. missed' \in [Writers -> BOOLEAN]
    BY Zenon DEF TypeOK, transaction_add_intent
  <2> QED
    BY <1>1, <1>6, <2>1, <2>2, <2>3 DEF TypeOK, Entry
<1>8. CASE log = old
  <2>1. il_intents' = il_intents /\ missed'[w] = TRUE
    BY <1>1, <1>2, <1>8 DEF TypeOK, transaction_add_intent
  <2>2. IdInv'
    BY <1>6, <2>1 DEF IdInv
  <2>3. OpenIntentsKept'
    BY <1>6, <2>1 DEF OpenIntentsKept, Logged, Entries_of
  <2> QED
    BY <1>7, <2>2, <2>3
<1>9. CASE log # old
  <2> DEFINE n == Len(old) + 1
  <2>1. /\ Len(old) \in Nat /\ DOMAIN log = 1 .. n /\ DOMAIN old = 1 .. Len(old)
        /\ log[n] = Intent(xt_id[w], w) /\ \A i \in 1 .. Len(old) : log[i] = old[i]
    BY <1>3, <1>5, <1>9
  <2>2. \A i \in 1 .. n : i \in 1 .. Len(old) \/ i = n
    BY <2>1
  <2>3. n \notin 1 .. Len(old) /\ n \in 1 .. n
    BY <2>1
  <2> HIDE DEF n
  <2>4. log[n].txn_id = xt_id[w] /\ log[n].by = w /\ log[n].flags = "pending"
    BY <2>1 DEF Intent
  <2>5. IdInv'
    <3>1. \A i \in DOMAIN log : log[i].txn_id \in given
      BY <1>2, <1>3, <2>1, <2>2, <2>4 DEF IdInv
    <3> QED
      BY <1>1, <1>6, <3>1 DEF IdInv
  <2>6. ASSUME NEW v \in Writers, pc[v] = "open", ~missed[v], xt_id[v] \notin shared,
               NEW i \in DOMAIN log, log[i].txn_id = xt_id[v]
        PROVE  log[i].flags # "committed"
    <3>1. CASE i = n
      BY <2>4, <3>1
    <3>2. CASE i \in 1 .. Len(old)
      BY <1>2, <2>1, <2>6, <3>2 DEF OpenIntentsKept
    <3> QED
      BY <2>1, <2>2, <3>1, <3>2
  <2>7. ASSUME NEW v \in Writers \ {w}, NEW x
        PROVE  Entries_of(log, v, x) = Entries_of(old, v, x)
    <3>1. log[n].by # v
      BY <2>4
    <3>2. Entries_of(log, v, x) \subseteq 1 .. Len(old)
      BY <2>1, <2>2, <3>1 DEF Entries_of
    <3>3. 1 .. Len(old) \subseteq 1 .. n
      BY <2>1 DEF n
    <3> QED
      BY <2>1, <3>2, <3>3 DEF Entries_of
  <2>8. Entries_of(log, w, xt_id[w]) = Entries_of(old, w, xt_id[w]) \cup {n}
    BY <2>1, <2>2, <2>3, <2>4 DEF Entries_of
  <2>9. ASSUME pc[w] = "open", ~missed[w], xt_id[w] \notin shared
        PROVE  Cardinality(Entries_of(log, w, xt_id[w])) = intent_count[w] + 1
    <3> DEFINE A == Entries_of(old, w, xt_id[w])
    <3>1. A \subseteq 1 .. Len(old) /\ n \notin A
      BY <2>1, <2>3 DEF Entries_of
    <3>2. IsFiniteSet(A)
      <4>1. IsFiniteSet(1 .. Len(old))
        BY <2>1, CountTo
      <4> QED
        BY <3>1, <4>1, FS_Subset
    <3>3. Cardinality(A) = intent_count[w]
      BY <1>2, <2>9 DEF OpenIntentsKept, Logged
    <3> HIDE DEF A
    <3>4. Cardinality(A \cup {n}) = Cardinality(A) + 1
      BY <3>1, <3>2, FS_AddElement
    <3> QED
      BY <2>8, <3>3, <3>4 DEF A
  <2>10. OpenIntentsKept'
    <3> SUFFICES ASSUME NEW v \in Writers, pc'[v] = "open", ~missed'[v],
                        xt_id'[v] \notin shared'
                 PROVE  /\ Cardinality(Entries_of(log, v, xt_id[v])) = intent_count'[v]
                        /\ \A i \in DOMAIN log :
                             log[i].txn_id = xt_id[v] => log[i].flags # "committed"
      BY <1>1, <1>6 DEF OpenIntentsKept, Logged
    <3>1. CASE v = w
      BY <1>6, <2>6, <2>9, <3>1
    <3>2. CASE v # w
      <4>1. Cardinality(Entries_of(old, v, xt_id[v])) = intent_count[v]
        BY <1>2, <1>6, <3>2 DEF OpenIntentsKept, Logged
      <4> QED
        BY <1>6, <2>6, <2>7, <3>2, <4>1
    <3> QED
      BY <3>1, <3>2
  <2> QED
    BY <1>7, <2>5, <2>10
<1> QED
  BY <1>8, <1>9

(* What a loop that sets states leaves of the invariant to show: that it   *)
(* commits no intent of an open transaction.                               *)
LEMMA MarkStep ==
    ASSUME LogInv, NEW hits, NEW s \in States, il_intents' = Mark(il_intents, hits, s),
           pc' \in [Writers -> {"idle", "begin", "open", "committed"}],
           \A v \in Writers : pc'[v] \in {"begin", "open"} => pc'[v] = pc[v],
           UNCHANGED << txn_counter, seen, xt_id, intent_count, missed, given, shared >>,
           \A v \in Writers, i \in DOMAIN il_intents :
              pc'[v] = "open" /\ xt_id[v] \notin shared /\ i \in hits /\ s = "committed"
                 => il_intents[i].txn_id # xt_id[v]
    PROVE  LogInv'
<1> USE DEF LogInv
<1>1. PICK log : log = il_intents'
  OBVIOUS
<1>2. PICK old : old = il_intents
  OBVIOUS
<1>3. old \in Seq(Entry) /\ Len(old) <= il_capacity /\ DOMAIN old = 1 .. Len(old)
  BY <1>2 DEF TypeOK, Entry
<1>4. MarkTo(old, hits, s, log)
  BY <1>1, <1>2, <1>3, MarkShape
<1>5. DOMAIN log = 1 .. Len(old) /\ Len(log) = Len(old) /\ log \in Seq(Entry)
  BY <1>3, <1>4 DEF MarkTo
<1>6. TypeOK'
  BY <1>1, <1>3, <1>5 DEF TypeOK, Entry
<1>7. IdInv'
  <2>1. \A i \in DOMAIN log : log[i].txn_id \in given
    BY <1>2, <1>3, <1>4, <1>5 DEF IdInv, MarkTo
  <2>2. \A v \in Writers : /\ pc'[v] = "open" => pc[v] = "open"
                           /\ pc'[v] = "begin" => pc[v] = "begin"
    OBVIOUS
  <2> QED
    BY <1>1, <2>1, <2>2 DEF IdInv
<1>8. OpenIntentsKept'
  <2> SUFFICES ASSUME NEW v \in Writers, pc'[v] = "open", ~missed[v], xt_id[v] \notin shared
               PROVE  /\ Cardinality(Entries_of(log, v, xt_id[v])) = intent_count[v]
                      /\ \A i \in DOMAIN log :
                           log[i].txn_id = xt_id[v] => log[i].flags # "committed"
    BY <1>1 DEF OpenIntentsKept, Logged
  <2>1. pc[v] = "open"
    OBVIOUS
  <2>2. /\ Cardinality(Entries_of(old, v, xt_id[v])) = intent_count[v]
        /\ \A i \in DOMAIN old : old[i].txn_id = xt_id[v] => old[i].flags # "committed"
    BY <1>2, <2>1 DEF OpenIntentsKept, Logged
  <2>3. Entries_of(log, v, xt_id[v]) = Entries_of(old, v, xt_id[v])
    BY <1>3, <1>4, MarkKeeps
  <2>4. ASSUME NEW i \in DOMAIN log, log[i].txn_id = xt_id[v] PROVE log[i].flags # "committed"
    <3>1. i \in 1 .. Len(old) /\ old[i].txn_id = xt_id[v]
      BY <1>4, <1>5, <2>4 DEF MarkTo
    <3>2. old[i].flags # "committed" /\ (i \in hits => s # "committed")
      BY <1>2, <1>3, <2>2, <3>1
    <3> QED
      BY <1>4, <3>1, <3>2 DEF MarkTo
  <2> QED
    BY <2>2, <2>3, <2>4
<1> QED
  BY <1>6, <1>7, <1>8

(* A commit marks the intents of its own id.                               *)
LEMMA CommitStep == ASSUME LogInv, NEW w \in Writers, transaction_commit(w) PROVE LogInv'
<1> DEFINE hits == Matching(il_intents, xt_id[w])
<1>1. il_intents' = Mark(il_intents, hits, "committed") /\ "committed" \in States
  BY DEF transaction_commit, intent_commit, States
<1>2. pc' \in [Writers -> {"idle", "begin", "open", "committed"}]
  BY DEF LogInv, TypeOK, transaction_commit
<1>3. /\ pc[w] = "open" /\ pc'[w] = "committed"
      /\ \A v \in Writers \ {w} : pc'[v] = pc[v]
  BY DEF LogInv, TypeOK, transaction_commit
<1>4. \A v \in Writers : pc'[v] \in {"begin", "open"} => pc'[v] = pc[v]
  BY <1>3
<1>5. ASSUME NEW v \in Writers, NEW i \in DOMAIN il_intents, pc'[v] = "open",
             xt_id[v] \notin shared, i \in hits
      PROVE  il_intents[i].txn_id # xt_id[v]
  <2>1. v # w /\ pc[v] = "open"
    BY <1>3, <1>5
  <2>2. xt_id[w] # xt_id[v]
    BY <1>3, <1>5, <2>1 DEF LogInv, IdInv
  <2> QED
    BY <1>5, <2>2 DEF Matching
<1>6. UNCHANGED << txn_counter, seen, xt_id, intent_count, missed, given, shared >>
  BY DEF transaction_commit
<1> HIDE DEF hits
<1> QED
  BY <1>1, <1>2, <1>4, <1>5, <1>6, MarkStep

(* Applying commits nothing.                                               *)
LEMMA ApplyStep == ASSUME LogInv, NEW id \in Ids, Apply(id) PROVE LogInv'
<1> DEFINE hits == {i \in Matching(il_intents, id) : il_intents[i].flags = "pending"}
<1>1. il_intents' = Mark(il_intents, hits, "applied") /\ "applied" \in States
  BY DEF Apply, intent_apply, States
<1>2. pc' = pc /\ pc' \in [Writers -> {"idle", "begin", "open", "committed"}]
  BY DEF LogInv, TypeOK, Apply
<1>3. UNCHANGED << txn_counter, seen, xt_id, intent_count, missed, given, shared >>
  BY DEF Apply
<1> HIDE DEF hits
<1>4. "applied" # "committed"
  OBVIOUS
<1> QED
  BY <1>1, <1>2, <1>3, <1>4, MarkStep

(* A clear finds nothing of an open transaction to remove.                 *)
LEMMA ClearStep == ASSUME LogInv, NEW id \in Ids, Clear(id) PROVE LogInv'
<1> USE DEF LogInv
<1>1. PICK log : log = il_intents'
  OBVIOUS
<1>2. PICK old : old = il_intents
  OBVIOUS
<1>3. /\ old \in Seq(Entry) /\ Len(old) <= il_capacity /\ DOMAIN old = 1 .. Len(old)
      /\ il_capacity \in Nat
  BY <1>2, IntentLogAssumption DEF TypeOK, Entry
<1>4. ClearTo(Entry, old, id, log)
  BY <1>1, <1>2, <1>3, ClearShape DEF Clear
<1>5. log \in Seq(Entry) /\ DOMAIN log = 1 .. Len(log)
  BY <1>4 DEF ClearTo
<1>6. \A p \in 1 .. Len(log) : \E i \in 1 .. Len(old) : log[p] = old[i]
  BY <1>3, <1>4, ClearFrom
<1>7. /\ pc' = pc /\ seen' = seen /\ xt_id' = xt_id /\ given' = given /\ shared' = shared
      /\ txn_counter' = txn_counter /\ missed' = missed /\ intent_count' = intent_count
  BY DEF Clear
<1>8. Len(log) <= il_capacity
  <2>1. Kept(old, id) \subseteq 1 .. Len(old)
    BY <1>3 DEF Kept
  <2>2. IsFiniteSet(1 .. Len(old)) /\ Cardinality(1 .. Len(old)) = Len(old)
    BY <1>3, CountTo
  <2>3. Cardinality(Kept(old, id)) <= Len(old)
    BY <2>1, <2>2, FS_Subset
  <2>4. Len(log) = Cardinality(Kept(old, id)) /\ Len(log) \in Nat /\ Len(old) \in Nat
    BY <1>3, <1>4, <1>5 DEF ClearTo
  <2> QED
    BY <1>3, <2>3, <2>4
<1>9. TypeOK'
  BY <1>1, <1>5, <1>7, <1>8 DEF TypeOK, Entry
<1>10. IdInv'
  <2>1. \A p \in DOMAIN log : log[p].txn_id \in given
    BY <1>2, <1>3, <1>5, <1>6 DEF IdInv
  <2> QED
    BY <1>1, <1>7, <2>1 DEF IdInv
<1>11. OpenIntentsKept'
  <2> SUFFICES ASSUME NEW v \in Writers, pc[v] = "open", ~missed[v], xt_id[v] \notin shared
               PROVE  /\ Cardinality(Entries_of(log, v, xt_id[v])) = intent_count[v]
                      /\ \A p \in DOMAIN log :
                           log[p].txn_id = xt_id[v] => log[p].flags # "committed"
    BY <1>1, <1>7 DEF OpenIntentsKept, Logged
  <2>1. /\ Cardinality(Entries_of(old, v, xt_id[v])) = intent_count[v]
        /\ \A i \in DOMAIN old : old[i].txn_id = xt_id[v] => old[i].flags # "committed"
    BY <1>2 DEF OpenIntentsKept, Logged
  <2>2. Entries_of(old, v, xt_id[v]) \subseteq Kept(old, id)
    BY <2>1 DEF Entries_of, Kept, Cleared
  <2>3. Cardinality(Entries_of(log, v, xt_id[v])) = Cardinality(Entries_of(old, v, xt_id[v]))
    BY <1>3, <1>4, <2>2, ClearKeeps
  <2> QED
    BY <1>3, <1>5, <1>6, <2>1, <2>3
<1> QED
  BY <1>9, <1>10, <1>11

(* A replay empties the log, and every open transaction has missed it.     *)
LEMMA ReplayStep == ASSUME LogInv, Replay PROVE LogInv'
<1> USE DEF LogInv
<1>1. /\ il_intents' = << >> /\ pc' = pc /\ seen' = seen /\ xt_id' = xt_id /\ given' = given
      /\ shared' = shared /\ txn_counter' = txn_counter /\ intent_count' = intent_count
      /\ \A v \in Writers : pc[v] = "open" => missed'[v]
      /\ missed' \in [Writers -> BOOLEAN]
  BY DEF Replay, TypeOK
<1>2. TypeOK'
  BY <1>1, IntentLogAssumption DEF TypeOK
<1>3. IdInv'
  BY <1>1 DEF IdInv
<1>4. OpenIntentsKept'
  BY <1>1 DEF OpenIntentsKept
<1> QED
  BY <1>2, <1>3, <1>4

(* Every step.                                                             *)
LEMMA LogStep == LogInv /\ [Next]_vars => LogInv'
<1> SUFFICES ASSUME LogInv, [Next]_vars PROVE LogInv'
  OBVIOUS
<1>1. CASE UNCHANGED vars
  BY <1>1 DEF LogInv, TypeOK, IdInv, OpenIntentsKept, Logged, Entries_of, vars
<1>2. ASSUME NEW w \in Writers,
             \/ ReadCounter(w) \/ BumpCounter(w) \/ transaction_add_intent(w)
             \/ transaction_commit(w) \/ transaction_free(w)
      PROVE  LogInv'
  BY <1>2, ReadStep, BumpStep, AddStep, CommitStep, FreeStep
<1>3. ASSUME NEW id \in Ids, Apply(id) \/ Clear(id) PROVE LogInv'
  BY <1>3, ApplyStep, ClearStep
<1>4. CASE Replay
  BY <1>4, ReplayStep
<1> QED
  BY <1>1, <1>2, <1>3, <1>4 DEF Next

(* The invariant always holds.                                             *)
THEOREM LogInvariance == Spec => []LogInv
BY InitLog, LogStep, PTL DEF Spec

(* The log never holds more than il_capacity intents, each in a known      *)
(* state, and the ids stay in range.                                       *)
THEOREM IntentLogTypeCorrect == Spec => []TypeOK
<1>1. LogInv => TypeOK
  BY DEF LogInv
<1> QED
  BY <1>1, LogInvariance, PTL

(* An open transaction keeps its intents, whatever the others commit,      *)
(* apply and clear.                                                        *)
THEOREM OpenTransactionsKeepIntents == Spec => []OpenIntentsKept
<1>1. LogInv => OpenIntentsKept
  BY DEF LogInv
<1> QED
  BY <1>1, LogInvariance, PTL

(* The in-place loop of aetherfs_intent_clear is exact in every state.     *)
THEOREM ClearStaysExact == Spec => []ClearIsExact
<1>1. LogInv => ClearIsExact
  BY ClearRemovesExactly DEF LogInv, TypeOK, Entry
<1> QED
  BY <1>1, LogInvariance, PTL

-----------------------------------------------------------------------------
(* The log has lost nothing and no intent of it went back.                 *)
Onward(log, r) ==
    /\ Len(r) >= Len(log)
    /\ \A i \in 1 .. Len(log) :
         /\ r[i].txn_id = log[i].txn_id /\ r[i].by = log[i].by
         /\ Rank(r[i].flags) >= Rank(log[i].flags)

(* Ranks are numbers.                                                      *)
LEMMA RankRange == \A s : Rank(s) \in 0 .. 2
BY DEF Rank

(* Such a log is what StatesAdvance asks for of a step that removes none.  *)
LEMMA OnwardAdvances ==
    ASSUME il_intents \in Seq(Entry), Onward(il_intents, il_intents')
    PROVE  Advances(DOMAIN il_intents)
<1>1. PICK N \in Nat : N = Len(il_intents) /\ DOMAIN il_intents = 1 .. N
  OBVIOUS
<1>2. Cardinality(1 .. N) = N
  BY CountTo
<1>3. \A i \in 1 .. N : Place(1 .. N, i) = i
  BY PlaceOfAll
<1> QED
  BY <1>1, <1>2, <1>3 DEF Advances, Onward

(* A log in which no entry changes.                                        *)
LEMMA SameOnward ==
    ASSUME NEW log, NEW r, Len(r) >= Len(log), \A i \in 1 .. Len(log) : r[i] = log[i]
    PROVE  Onward(log, r)
<1>1. ASSUME NEW i \in 1 .. Len(log)
      PROVE  /\ r[i].txn_id = log[i].txn_id /\ r[i].by = log[i].by
             /\ Rank(r[i].flags) >= Rank(log[i].flags)
  <2>1. r[i] = log[i] /\ Rank(log[i].flags) \in 0 .. 2
    BY RankRange
  <2> QED
    BY <2>1
<1> QED
  BY <1>1 DEF Onward

(* A loop that sets a state takes no intent back.                          *)
LEMMA MarkOnward ==
    ASSUME NEW log \in Seq(Entry), NEW hits, NEW s \in States, NEW r, r = Mark(log, hits, s),
           \A i \in 1 .. Len(log) : i \in hits => Rank(s) >= Rank(log[i].flags)
    PROVE  Onward(log, r)
<1>1. MarkTo(log, hits, s, r) /\ Len(log) \in Nat
  BY MarkShape
<1>2. Len(r) >= Len(log)
  BY <1>1 DEF MarkTo
<1>3. ASSUME NEW i \in 1 .. Len(log)
      PROVE  /\ r[i].txn_id = log[i].txn_id /\ r[i].by = log[i].by
             /\ Rank(r[i].flags) >= Rank(log[i].flags)
  <2>1. /\ r[i].txn_id = log[i].txn_id /\ r[i].by = log[i].by
        /\ r[i].flags = IF i \in hits THEN s ELSE log[i].flags
    BY <1>1 DEF MarkTo
  <2>2. Rank(log[i].flags) \in 0 .. 2
    BY RankRange
  <2> QED
    BY <2>1, <2>2
<1> QED
  BY <1>2, <1>3 DEF Onward

(* What a step other than a clear or a replay does to the log.             *)
LEMMA StepOnward ==
    ASSUME LogInv, Next
    PROVE  \/ Replay \/ Onward(il_intents, il_intents') \/ \E id \in Ids : Clear(id)
<1>1. /\ il_intents \in Seq(Entry) /\ DOMAIN il_intents = 1 .. Len(il_intents)
      /\ Len(il_intents) \in Nat
  BY DEF LogInv, TypeOK, Entry
<1>2. ASSUME NEW w \in Writers, transaction_add_intent(w)
      PROVE  Onward(il_intents, il_intents')
  <2>1. PICK log : log = il_intents' /\ log = intent_create(il_intents, xt_id[w], w)
    BY <1>2 DEF transaction_add_intent
  <2>2. xt_id[w] \in Ids /\ Len(il_intents) <= il_capacity
    BY <1>2 DEF LogInv, TypeOK, IdInv, transaction_add_intent
  <2>3. \/ log = il_intents
        \/ /\ Len(log) = Len(il_intents) + 1
           /\ \A i \in 1 .. Len(il_intents) : log[i] = il_intents[i]
    BY <1>1, <2>1, <2>2, CreateShape
  <2>4. Len(log) >= Len(il_intents) /\ \A i \in 1 .. Len(il_intents) : log[i] = il_intents[i]
    BY <1>1, <2>3
  <2> QED
    BY <2>1, <2>4, SameOnward
<1>3. ASSUME NEW w \in Writers, transaction_commit(w)
      PROVE  Onward(il_intents, il_intents')
  <2> DEFINE hits == Matching(il_intents, xt_id[w])
  <2>1. il_intents' = Mark(il_intents, hits, "committed") /\ "committed" \in States
    BY <1>3 DEF transaction_commit, intent_commit, States
  <2>2. Rank("committed") = 2
    BY DEF Rank
  <2>3. \A i \in 1 .. Len(il_intents) : Rank("committed") >= Rank(il_intents[i].flags)
    BY <2>2, RankRange
  <2> HIDE DEF hits
  <2> QED
    BY <1>1, <2>1, <2>3, MarkOnward
<1>4. ASSUME NEW id \in Ids, Apply(id) PROVE Onward(il_intents, il_intents')
  <2> DEFINE hits == {i \in Matching(il_intents, id) : il_intents[i].flags = "pending"}
  <2>1. il_intents' = Mark(il_intents, hits, "applied") /\ "applied" \in States
    BY <1>4 DEF Apply, intent_apply, States
  <2>2. \A i \in 1 .. Len(il_intents) :
          i \in hits => Rank("applied") >= Rank(il_intents[i].flags)
    BY DEF Rank
  <2> HIDE DEF hits
  <2> QED
    BY <1>1, <2>1, <2>2, MarkOnward
<1>5. ASSUME NEW w \in Writers, ReadCounter(w) \/ BumpCounter(w) \/ transaction_free(w)
      PROVE  Onward(il_intents, il_intents')
  <2>1. il_intents' = il_intents
    BY <1>5 DEF ReadCounter, BumpCounter, transaction_free
  <2> QED
    BY <1>1, <2>1, SameOnward
<1> QED
  BY <1>2, <1>3, <1>4, <1>5 DEF Next

(* A clear leaves every intent it keeps as it was.                         *)
LEMMA ClearAdvances ==
    ASSUME il_intents \in Seq(Entry), NEW id, Clear(id)
    PROVE  Advances(Kept(il_intents, id))
<1>1. PICK K : K = Kept(il_intents, id)
  OBVIOUS
<1>2. ClearTo(Entry, il_intents, id, il_intents')
  BY ClearShape DEF Clear
<1>3. Len(il_intents') = Cardinality(K) /\ Len(il_intents') \in Nat
  BY <1>1, <1>2 DEF ClearTo
<1>4. ASSUME NEW i \in K
      PROVE  /\ il_intents'[Place(K, i)] = il_intents[i]
             /\ Rank(il_intents[i].flags) \in 0 .. 2
  BY <1>1, <1>2, RankRange DEF ClearTo
<1>5. Len(il_intents') >= Cardinality(K)
  BY <1>3
<1> QED
  BY <1>1, <1>4, <1>5 DEF Advances

(* What StatesAdvance asks of a step.                                      *)
Forward ==
    \/ Replay
    \/ Advances(DOMAIN il_intents)
    \/ \E id \in Ids : Clear(id) /\ Advances(Kept(il_intents, id))

(* Every step does it.                                                     *)
LEMMA StepForward == ASSUME LogInv, Next PROVE Forward
<1>1. il_intents \in Seq(Entry)
  BY DEF LogInv, TypeOK, Entry
<1>2. CASE Onward(il_intents, il_intents')
  BY <1>1, <1>2, OnwardAdvances DEF Forward
<1>3. ASSUME NEW id \in Ids, Clear(id) PROVE Forward
  BY <1>1, <1>3, ClearAdvances DEF Forward
<1>4. CASE Replay
  BY <1>4 DEF Forward
<1> QED
  BY <1>2, <1>3, <1>4, StepOnward

(***************************************************************************)
(* No step takes an intent back to an earlier state, and only a replay, or *)
(* a clear of its own committed transaction, removes one.                  *)
(***************************************************************************)
THEOREM IntentsAdvance == Spec => StatesAdvance
<1>1. LogInv /\ [Next]_vars => [Forward]_vars
  BY StepForward
<1> QED
  BY <1>1, LogInvariance, PTL DEF Spec, StatesAdvance, Forward
=============================================================================
