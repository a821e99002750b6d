----------------------- MODULE LinkbackNodes_proofs -----------------------
(***************************************************************************)
(* Lemmas about the queue operations: each keeps a queue of distinct        *)
(* devices that fits the pool such a queue, whatever the devices, profiles, *)
(* timeouts and pool size.                                                  *)
(***************************************************************************)
EXTENDS LinkbackNodes, SequenceTheorems, FiniteSetTheorems, TLAPS

\* A queue of distinct devices that fits the pool.
GoodTodo(q) == IsTodo(q) /\ DistinctAddr(q)

-----------------------------------------------------------------------------
\* Replacing nodes one by one without touching their devices keeps a queue.
LEMMA MapKeepsGood ==
  ASSUME NEW q, GoodTodo(q), NEW r,
         DOMAIN r = DOMAIN q,
         r = [i \in DOMAIN q |-> r[i]],
         \A i \in DOMAIN q : r[i] \in Node /\ r[i].addr = q[i].addr
  PROVE  GoodTodo(r)
<1>1. q \in Seq(Node) /\ Len(q) <= QueueMax
  BY DEF GoodTodo, IsTodo
<1>2. Len(q) \in Nat /\ DOMAIN q = 1 .. Len(q)
  BY <1>1, LenProperties
<1>3. r \in [1 .. Len(q) -> Node]
  BY <1>2
<1>4. r \in Seq(Node) /\ Len(r) = Len(q)
  BY <1>2, <1>3
<1>5. DistinctAddr(r)
  BY DEF GoodTodo, DistinctAddr
<1> QED
  BY <1>1, <1>4, <1>5 DEF GoodTodo, IsTodo

\* Merging a node into the queue (linkback_todo_queue_insert_*_node on a device
\* that is queued).
LEMMA MergeGood ==
  ASSUME NEW q, GoodTodo(q), NEW n \in Node
  PROVE  GoodTodo(Merge(q, n))
<1>1. \A i \in DOMAIN q : q[i] \in Node
  BY DEF GoodTodo, IsTodo
<1>2. CASE n.group
  BY <1>2 DEF Merge
<1>3. CASE ~n.group
  <2> DEFINE r == Merge(q, n)
  <2>1. r = [i \in DOMAIN q |->
               IF q[i].addr # n.addr THEN q[i]
               ELSE [q[i] EXCEPT !.plan  = @ \cup n.plan,
                                 !.force = @ \/ n.force,
                                 !.tmo   = n.tmo,
                                 !.group = FALSE]]
    BY <1>3 DEF Merge
  <2>2. \A i \in DOMAIN q : r[i] \in Node /\ r[i].addr = q[i].addr
    <3> SUFFICES ASSUME NEW i \in DOMAIN q
                 PROVE  r[i] \in Node /\ r[i].addr = q[i].addr
      OBVIOUS
    <3>1. CASE q[i].addr # n.addr
      BY <2>1, <3>1, <1>1
    <3>2. CASE q[i].addr = n.addr
      <4>1. r[i] = [q[i] EXCEPT !.plan  = q[i].plan \cup n.plan,
                                !.force = q[i].force \/ n.force,
                                !.tmo   = n.tmo,
                                !.group = FALSE]
        BY <2>1, <3>2
      <4>2. q[i].force \/ n.force \in BOOLEAN
        BY <1>1 DEF Node
      <4> QED
        BY <4>1, <4>2, <1>1 DEF Node
    <3> QED
      BY <3>1, <3>2
  <2>3. DOMAIN r = DOMAIN q /\ r = [i \in DOMAIN q |-> r[i]]
    BY <2>1
  <2> HIDE DEF r
  <2>4. GoodTodo(r)
    BY <2>2, <2>3, MapKeepsGood
  <2> QED
    BY <2>4 DEF r
<1> QED
  BY <1>2, <1>3

\* A node for a device that is not queued may be appended while an item is
\* free.
LEMMA AppendGood ==
  ASSUME NEW q, GoodTodo(q), NEW n \in Node, ~Queued(q, n.addr),
         Len(q) < QueueMax
  PROVE  GoodTodo(Append(q, n))
<1>1. q \in Seq(Node) /\ Len(q) \in Nat /\ DOMAIN q = 1 .. Len(q)
  BY LenProperties DEF GoodTodo, IsTodo
<1>2. QueueMax \in Nat
  BY QueueMaxAssumption
<1>3. /\ Append(q, n) \in Seq(Node)
      /\ Len(Append(q, n)) = Len(q) + 1
      /\ \A i \in 1 .. Len(q) : Append(q, n)[i] = q[i]
      /\ Append(q, n)[Len(q) + 1] = n
  BY <1>1, AppendProperties
<1>4. DOMAIN Append(q, n) = 1 .. Len(q) + 1
  BY <1>3, LenProperties
<1>5. DistinctAddr(Append(q, n))
  BY <1>1, <1>3, <1>4 DEF DistinctAddr, GoodTodo, Queued
<1>6. Len(Append(q, n)) <= QueueMax
  BY <1>1, <1>2, <1>3
<1> QED
  BY <1>3, <1>5, <1>6 DEF GoodTodo, IsTodo

\* The same at the front of the queue.
LEMMA PrependGood ==
  ASSUME NEW q, GoodTodo(q), NEW n \in Node, ~Queued(q, n.addr),
         Len(q) < QueueMax
  PROVE  GoodTodo(<<n>> \o q)
<1> DEFINE r == <<n>> \o q
<1>1. q \in Seq(Node) /\ Len(q) \in Nat /\ DOMAIN q = 1 .. Len(q)
  BY LenProperties DEF GoodTodo, IsTodo
<1>2. <<n>> \in Seq(Node) /\ Len(<<n>>) = 1 /\ <<n>>[1] = n
  OBVIOUS
<1>3. /\ r \in Seq(Node)
      /\ Len(r) = Len(<<n>>) + Len(q)
      /\ \A i \in 1 .. Len(<<n>>) + Len(q) :
           r[i] = IF i <= Len(<<n>>) THEN <<n>>[i] ELSE q[i - Len(<<n>>)]
  BY <1>1, <1>2, ConcatProperties
<1> HIDE DEF r
<1>4. /\ Len(r) = Len(q) + 1 /\ DOMAIN r = 1 .. Len(q) + 1
      /\ r[1] = n
      /\ \A i \in 2 .. Len(q) + 1 : r[i] = q[i - 1]
  BY <1>1, <1>2, <1>3, LenProperties
<1>5. DistinctAddr(r)
  <2> SUFFICES ASSUME NEW i \in 1 .. Len(q) + 1, NEW j \in 1 .. Len(q) + 1,
                      r[i].addr = r[j].addr
               PROVE  i = j
    BY <1>4 DEF DistinctAddr
  <2>1. \A k \in 2 .. Len(q) + 1 :
          k - 1 \in DOMAIN q /\ r[k] = q[k - 1] /\ r[k].addr # n.addr
    BY <1>1, <1>4 DEF Queued
  <2>2. CASE i = 1 \/ j = 1
    BY <2>1, <2>2, <1>1, <1>4
  <2>3. CASE i # 1 /\ j # 1
    <3>1. i \in 2 .. Len(q) + 1 /\ j \in 2 .. Len(q) + 1
      BY <2>3, <1>1
    <3>2. i - 1 = j - 1
      BY <3>1, <2>1 DEF GoodTodo, DistinctAddr
    <3> QED
      BY <3>1, <3>2, <1>1
  <2> QED
    BY <2>2, <2>3
<1>6. Len(r) <= QueueMax
  BY <1>1, <1>4, QueueMaxAssumption
<1>7. GoodTodo(r)
  BY <1>3, <1>5, <1>6 DEF GoodTodo, IsTodo
<1> QED
  BY <1>7 DEF r

\* Both insertions.
LEMMA InsertGood ==
  ASSUME NEW q, GoodTodo(q), NEW n \in Node
  PROVE  GoodTodo(InsertNormal(q, n)) /\ GoodTodo(InsertForce(q, n))
<1>1. CASE n.plan = {}
  BY <1>1 DEF InsertNormal, InsertForce, Insert
<1>2. CASE n.plan # {} /\ Queued(q, n.addr)
  BY <1>2, MergeGood DEF InsertNormal, InsertForce, Insert
<1>3. CASE n.plan # {} /\ ~Queued(q, n.addr) /\ Len(q) < QueueMax
  <2>1. InsertNormal(q, n) = Append(q, n) /\ InsertForce(q, n) = <<n>> \o q
    BY <1>3 DEF InsertNormal, InsertForce, Insert
  <2> QED
    BY <1>3, <2>1, AppendGood, PrependGood
<1>4. CASE n.plan # {} /\ ~Queued(q, n.addr) /\ ~(Len(q) < QueueMax)
  BY <1>4 DEF InsertNormal, InsertForce, Insert
<1> QED
  BY <1>1, <1>2, <1>3, <1>4

\* Taking the first node.
LEMMA TailGood ==
  ASSUME NEW q, GoodTodo(q), q # <<>>
  PROVE  Head(q) \in Node /\ GoodTodo(Tail(q)) /\ ~Queued(Tail(q), Head(q).addr)
<1>1. q \in Seq(Node) /\ Len(q) \in Nat \ {0} /\ DOMAIN q = 1 .. Len(q)
  BY LenProperties, EmptySeq DEF GoodTodo, IsTodo
<1>2. /\ Head(q) \in Node /\ Tail(q) \in Seq(Node)
      /\ Len(Tail(q)) = Len(q) - 1
      /\ \A i \in 1 .. Len(Tail(q)) : Tail(q)[i] = q[i + 1]
  BY <1>1, HeadTailProperties DEF GoodTodo, IsTodo
<1>3. DOMAIN Tail(q) = 1 .. Len(q) - 1
  BY <1>2, LenProperties
<1>4. \A i \in DOMAIN Tail(q) : i + 1 \in DOMAIN q /\ Tail(q)[i] = q[i + 1]
  BY <1>1, <1>2, <1>3
<1>5. DistinctAddr(Tail(q))
  BY <1>1, <1>3, <1>4 DEF GoodTodo, DistinctAddr
<1>6. Head(q) = q[1] /\ 1 \in DOMAIN q
  BY <1>1
<1>7. ~Queued(Tail(q), Head(q).addr)
  <2> SUFFICES ASSUME NEW i \in DOMAIN Tail(q), Tail(q)[i].addr = Head(q).addr
               PROVE  FALSE
    BY DEF Queued
  <2>1. i + 1 = 1
    BY <1>4, <1>6 DEF GoodTodo, DistinctAddr
  <2> QED
    BY <2>1, <1>3, <1>1
<1>8. Len(Tail(q)) <= QueueMax
  BY <1>1, <1>2, QueueMaxAssumption DEF GoodTodo, IsTodo
<1> QED
  BY <1>2, <1>5, <1>7, <1>8 DEF GoodTodo, IsTodo

\* Removing profiles from a device's node, and giving the group its budget.
LEMMA RemovePlanGood ==
  ASSUME NEW q, GoodTodo(q), NEW a, NEW ps
  PROVE  GoodTodo(RemovePlan(q, a, ps))
<1> DEFINE r == RemovePlan(q, a, ps)
<1>1. \A i \in DOMAIN q : q[i] \in Node
  BY DEF GoodTodo, IsTodo
<1>2. DOMAIN r = DOMAIN q /\ r = [i \in DOMAIN q |-> r[i]]
  BY DEF RemovePlan
<1>3. \A i \in DOMAIN q : r[i] \in Node /\ r[i].addr = q[i].addr
  BY <1>1 DEF RemovePlan, Node
<1> HIDE DEF r
<1>4. GoodTodo(r)
  BY <1>2, <1>3, MapKeepsGood
<1> QED
  BY <1>4 DEF r

LEMMA SetGroupTimeoutGood ==
  ASSUME NEW q, GoodTodo(q), NEW t \in Timeout
  PROVE  GoodTodo(SetGroupTimeout(q, t))
<1> DEFINE r == SetGroupTimeout(q, t)
<1>1. \A i \in DOMAIN q : q[i] \in Node
  BY DEF GoodTodo, IsTodo
<1>2. DOMAIN r = DOMAIN q /\ r = [i \in DOMAIN q |-> r[i]]
  BY DEF SetGroupTimeout
<1>3. \A i \in DOMAIN q : r[i] \in Node /\ r[i].addr = q[i].addr
  BY <1>1 DEF SetGroupTimeout, Node
<1> HIDE DEF r
<1>4. GoodTodo(r)
  BY <1>2, <1>3, MapKeepsGood
<1> QED
  BY <1>4 DEF r

-----------------------------------------------------------------------------
\* The nodes that outlive their group: each of the places 1 .. k of the shorter
\* queue is the rank of exactly one survivor.
LEMMA RankOnto ==
  ASSUME NEW L \in Nat, NEW S \in SUBSET (1 .. L)
  PROVE  /\ IsFiniteSet(S) /\ Cardinality(S) \in Nat /\ Cardinality(S) <= L
         /\ \A j \in 1 .. Cardinality(S) : \E i \in S : Rank(S, i) = j
         /\ \A i, k \in S : Rank(S, i) = Rank(S, k) => i = k
<1> DEFINE Below(i) == {k \in S : k <= i}
           T == 1 .. Cardinality(S)
           f == [i \in S |-> Rank(S, i)]
<1>0. \A i \in S : i \in Int
  OBVIOUS
<1>1. IsFiniteSet(1 .. L) /\ Cardinality(1 .. L) = L
  BY FS_Interval
<1>2. IsFiniteSet(S) /\ Cardinality(S) \in Nat /\ Cardinality(S) <= L
  BY <1>1, FS_Subset, FS_CardinalityType
<1>3. \A i \in S : /\ IsFiniteSet(Below(i))
                   /\ Cardinality(Below(i)) \in Nat
                   /\ Cardinality(Below(i)) <= Cardinality(S)
  <2> SUFFICES ASSUME NEW i \in S
               PROVE  /\ IsFiniteSet(Below(i))
                      /\ Cardinality(Below(i)) \in Nat
                      /\ Cardinality(Below(i)) <= Cardinality(S)
    OBVIOUS
  <2>1. Below(i) \in SUBSET S
    OBVIOUS
  <2> QED
    BY <2>1, <1>2, FS_Subset, FS_CardinalityType
<1>4. \A i, k \in S : i < k => Cardinality(Below(i)) < Cardinality(Below(k))
  <2> SUFFICES ASSUME NEW i \in S, NEW k \in S, i < k
               PROVE  Cardinality(Below(i)) < Cardinality(Below(k))
    OBVIOUS
  <2>0. i \in Int /\ k \in Int
    BY <1>0
  <2>1a. ASSUME NEW m \in Below(i) PROVE m \in Below(k)
    BY <1>0, <2>0
  <2>1b. k \in Below(k) /\ k \notin Below(i)
    BY <2>0
  <2>1. Below(i) \in SUBSET Below(k) /\ k \in Below(k) /\ k \notin Below(i)
    BY <2>1a, <2>1b
  <2>2. Cardinality(Below(i)) <= Cardinality(Below(k))
    BY <2>1, <1>3, FS_Subset
  <2>3. Cardinality(Below(k)) # Cardinality(Below(i))
    BY <2>1, <1>3, FS_Subset
  <2> QED
    BY <2>2, <2>3, <1>3
<1>5. \A i \in S : Below(i) # {}
  OBVIOUS
<1>6. \A i \in S : Rank(S, i) = Cardinality(Below(i)) /\ Rank(S, i) \in T
  <2> SUFFICES ASSUME NEW i \in S
               PROVE  Rank(S, i) = Cardinality(Below(i)) /\ Rank(S, i) \in T
    OBVIOUS
  <2>1. Rank(S, i) = Cardinality(Below(i))
    BY DEF Rank
  <2>2. Cardinality(Below(i)) # 0
    BY <1>3, <1>5, FS_EmptySet
  <2> QED
    BY <2>1, <2>2, <1>2, <1>3
<1>7. \A i, k \in S : Rank(S, i) = Rank(S, k) => i = k
  <2> SUFFICES ASSUME NEW i \in S, NEW k \in S, Rank(S, i) = Rank(S, k)
               PROVE  i = k
    OBVIOUS
  <2>1. Cardinality(Below(i)) = Cardinality(Below(k))
    BY <1>6
  <2> HIDE DEF Below, T, f
  <2>2. ~(i < k) /\ ~(k < i)
    BY <1>3, <1>4, <2>1
  <2> QED
    BY <1>0, <2>2
<1>8. f \in Injection(S, T)
  BY <1>6, <1>7 DEF Injection, IsInjective
<1>9. IsFiniteSet(T) /\ Cardinality(T) = Cardinality(S)
  BY <1>2, FS_Interval
<1>10. f \in Surjection(S, T)
  BY <1>8, <1>9, FS_Injection
<1>11. \A j \in T : \E i \in S : Rank(S, i) = j
  BY <1>10 DEF Surjection
<1> QED
  BY <1>2, <1>7, <1>11

\* Each node of the shorter queue is a survivor of the longer one, and two
\* places hold two survivors.
LEMMA WithoutGroupNodes ==
  ASSUME NEW q, GoodTodo(q)
  PROVE  /\ Cardinality(Survivors(q)) \in Nat
         /\ Cardinality(Survivors(q)) <= Len(q)
         /\ DOMAIN WithoutGroup(q) = 1 .. Cardinality(Survivors(q))
         /\ \A j \in DOMAIN WithoutGroup(q) :
              \E i \in Survivors(q) : /\ WithoutGroup(q)[j] = q[i]
                                      /\ Rank(Survivors(q), i) = j
<1> DEFINE S == Survivors(q)
           pick(j) == CHOOSE i \in S : Rank(S, i) = j
<1>1. q \in Seq(Node) /\ Len(q) \in Nat /\ DOMAIN q = 1 .. Len(q)
  BY LenProperties DEF GoodTodo, IsTodo
<1>2. S \in SUBSET (1 .. Len(q))
  BY <1>1 DEF Survivors
<1>3. /\ Cardinality(S) \in Nat /\ Cardinality(S) <= Len(q)
      /\ \A j \in 1 .. Cardinality(S) : \E i \in S : Rank(S, i) = j
  BY <1>1, <1>2, RankOnto
<1>4. WithoutGroup(q) = [j \in 1 .. Cardinality(S) |-> q[pick(j)]]
  BY DEF WithoutGroup
<1>5. \A j \in 1 .. Cardinality(S) : pick(j) \in S /\ Rank(S, pick(j)) = j
  BY <1>3
<1> QED
  BY <1>3, <1>4, <1>5

\* linkback_todo_queue_delete_group_member leaves a queue of distinct devices,
\* none of them a group member.
LEMMA WithoutGroupGood ==
  ASSUME NEW q, GoodTodo(q)
  PROVE  /\ GoodTodo(WithoutGroup(q))
         /\ \A j \in DOMAIN WithoutGroup(q) : ~WithoutGroup(q)[j].group
<1> DEFINE S == Survivors(q)
           r == WithoutGroup(q)
           c == Cardinality(S)
<1>1. q \in Seq(Node) /\ Len(q) \in Nat /\ DOMAIN q = 1 .. Len(q)
      /\ Len(q) <= QueueMax
  BY LenProperties DEF GoodTodo, IsTodo
<1>2. /\ c \in Nat /\ c <= Len(q) /\ DOMAIN r = 1 .. c
      /\ \A j \in 1 .. c : \E i \in S : r[j] = q[i] /\ Rank(S, i) = j
  BY WithoutGroupNodes
<1>3. \A i \in S : i \in DOMAIN q /\ q[i] \in Node /\ ~q[i].group
  BY <1>1 DEF Survivors
<1>4. r = [j \in 1 .. c |-> r[j]]
  BY <1>2 DEF WithoutGroup
<1> HIDE DEF r, c, S
<1>5. \A j \in 1 .. c : r[j] \in Node /\ ~r[j].group
  BY <1>2, <1>3
<1>6. r \in [1 .. c -> Node]
  BY <1>4, <1>5
<1>7. r \in Seq(Node) /\ Len(r) = c
  BY <1>2, <1>6
<1>8. \A j, k \in 1 .. c : r[j].addr = r[k].addr => j = k
  <2> SUFFICES ASSUME NEW j \in 1 .. c, NEW k \in 1 .. c,
                      r[j].addr = r[k].addr
               PROVE  j = k
    OBVIOUS
  <2>1. PICK x \in S : r[j] = q[x] /\ Rank(S, x) = j
    BY <1>2
  <2>2. PICK y \in S : r[k] = q[y] /\ Rank(S, y) = k
    BY <1>2
  <2>3. x = y
    BY <2>1, <2>2, <1>3 DEF GoodTodo, DistinctAddr
  <2> QED
    BY <2>1, <2>2, <2>3
<1>9. c <= QueueMax
  BY <1>1, <1>2, QueueMaxAssumption
<1>10. GoodTodo(r) /\ \A j \in DOMAIN r : ~r[j].group
  BY <1>2, <1>5, <1>7, <1>8, <1>9 DEF GoodTodo, IsTodo, DistinctAddr
<1> QED
  BY <1>10 DEF r

=============================================================================
