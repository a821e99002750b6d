------------------------ MODULE LinkbackQueue_proofs ------------------------
(***************************************************************************)
(* The pool of linked items implements the bounded sequence, for any        *)
(* devices, profiles, timeouts and pool size.                               *)
(*                                                                         *)
(* The inductive invariant names the list: a chain s of L different items   *)
(* that starts at head, follows the next pointers and ends at tail, with    *)
(* exactly its items marked used and no device in two of them.  The walk    *)
(* and the two loops of delete_group_member are functions defined by        *)
(* recursion; what they compute is shown by looking at the least place      *)
(* where it would be wrong, which the natural numbers being well-founded    *)
(* allows without an induction rule over formulas.                          *)
(***************************************************************************)
EXTENDS LinkbackQueue, SequenceTheorems, FiniteSetTheorems,
        WellFoundedInduction, TLAPS

-----------------------------------------------------------------------------
(* Recursion over numbers.                                                  *)

\* A set of natural numbers has a least element.
LEMMA Least ==
  ASSUME NEW S \in SUBSET Nat, S # {}
  PROVE  \E m \in S : \A k \in S : m <= k
<1>1. PICK m \in S : \A k \in S : <<k, m>> \notin OpToRel(<, Nat)
  BY NatLessThanWellFounded, WFMin
<1>2. \A k \in S : ~(k < m)
  BY <1>1 DEF OpToRel
<1> QED
  BY <1>2

\* What holds of 0 and is carried from each number to the next holds of all, for
\* the set of numbers up to N it holds of.
LEMMA Induct ==
  ASSUME NEW N \in Nat, NEW S, 0 \in S,
         \A k \in 0 .. N : k + 1 <= N /\ k \in S => k + 1 \in S
  PROVE  \A k \in 0 .. N : k \in S
<1> DEFINE T == (0 .. N) \ S
<1> SUFFICES ASSUME T # {} PROVE FALSE
  OBVIOUS
<1>1. T \in SUBSET Nat
  OBVIOUS
<1>2. PICK m \in T : \A k \in T : m <= k
  BY <1>1, Least
<1>3. m # 0 /\ m - 1 \in 0 .. N /\ m - 1 \in S
  BY <1>2
<1> QED
  BY <1>2, <1>3

\* N turns of a step from c.
Turns(f, St, c, step, N) ==
  /\ f \in [0 .. N -> St]
  /\ f[0] = c /\ \A k \in 1 .. N : f[k] = step[f[k - 1]]

\* A step can be repeated any number of times.
LEMMA Iterated ==
  ASSUME NEW St, NEW c \in St, NEW step \in [St -> St], NEW N \in Nat
  PROVE  \E f : Turns(f, St, c, step, N)
<1> DEFINE Good(n, f) == Turns(f, St, c, step, n)
           S == {n \in 0 .. N : \E f : Good(n, f)}
<1>1. 0 \in S
  <2> DEFINE f == [k \in 0 .. 0 |-> c]
  <2>1. Good(0, f)
    BY DEF Turns
  <2> HIDE DEF f, Good
  <2> QED
    BY <2>1
<1>2. ASSUME NEW n \in 0 .. N, n + 1 <= N, n \in S
      PROVE  n + 1 \in S
  <2>1. PICK f : Good(n, f)
    BY <1>2
  <2> DEFINE g == [k \in 0 .. n + 1 |-> IF k = n + 1 THEN step[f[n]] ELSE f[k]]
  <2>2. Good(n + 1, g)
    <3>1. g \in [0 .. n + 1 -> St] /\ g[0] = c
      BY <2>1 DEF Turns
    <3>2. ASSUME NEW k \in 1 .. n + 1 PROVE g[k] = step[g[k - 1]]
      <4>1. CASE k = n + 1
        BY <4>1
      <4>2. CASE k # n + 1
        BY <2>1, <4>2 DEF Turns
      <4> QED
        BY <4>1, <4>2
    <3> QED
      BY <3>1, <3>2 DEF Turns
  <2> HIDE DEF g, Good
  <2> QED
    BY <1>2, <2>2
<1> HIDE DEF S
<1>3. N \in S
  BY <1>1, <1>2, Induct
<1> QED
  BY <1>3 DEF S

-----------------------------------------------------------------------------
(* The chain of items.                                                      *)

\* The j-th item of a list of L items, Null before and behind it.
At(s, L, j) == IF j \in 1 .. L THEN s[j] ELSE Null

\* The list from h along nx is the L different items of s.
Chain(s, L, h, nx) ==
  /\ L \in Nat /\ s \in [1 .. L -> Item]
  /\ \A i, j \in 1 .. L : s[i] = s[j] => i = j
  /\ h = At(s, L, 1)
  /\ \A i \in 1 .. L : nx[s[i]] = At(s, L, i + 1)

\* The pool has its types.
PoolOK ==
  /\ used \in [Item -> BOOLEAN]
  /\ next \in [Item -> Item \cup {Null}]
  /\ node \in [Item -> Node \cup {EmptyNode}]

\* The pool holds the list s: its items are the used ones, it ends at tail, and
\* no device is in it twice.
Holds(s, L) ==
  /\ PoolOK
  /\ Chain(s, L, head, next)
  /\ tail = At(s, L, L)
  /\ \A x \in Item : used[x] <=> \E i \in 1 .. L : s[i] = x
  /\ \A i \in 1 .. L : node[s[i]] \in Node
  /\ \A i, j \in 1 .. L : node[s[i]].addr = node[s[j]].addr => i = j

QueueInv == \E L, s : Holds(s, L)

\* The nodes of a list, in its order.
Content(s, L, nd) == [i \in 1 .. L |-> nd[s[i]]]

\* A list is at most as long as the pool, and just as long when no item is free.
LEMMA ChainLength ==
  ASSUME NEW s, NEW L, NEW h, NEW nx, Chain(s, L, h, nx)
  PROVE  /\ L <= QueueMax
         /\ L < QueueMax <=> \E x \in Item : \A i \in 1 .. L : s[i] # x
<1>1. L \in Nat /\ QueueMax \in Nat
  BY PoolAssumption DEF Chain
<1>2. /\ IsFiniteSet(1 .. L) /\ Cardinality(1 .. L) = L
      /\ IsFiniteSet(Item) /\ Cardinality(Item) = QueueMax
  BY <1>1, FS_Interval DEF Item
<1>3. s \in Injection(1 .. L, Item)
  BY DEF Chain, Injection, IsInjective
<1>4. L <= QueueMax
  BY <1>2, <1>3, FS_Injection
<1>5. CASE L = QueueMax
  <2>1. s \in Surjection(1 .. L, Item)
    BY <1>2, <1>3, <1>5, FS_Injection
  <2> QED
    BY <1>1, <1>5, <2>1 DEF Surjection
<1>6. CASE L # QueueMax
  <2> SUFFICES ASSUME \A x \in Item : \E i \in 1 .. L : s[i] = x
               PROVE  FALSE
    BY <1>1, <1>4, <1>6
  <2>1. s \in Surjection(1 .. L, Item)
    BY DEF Chain, Surjection
  <2>2. Cardinality(Item) <= Cardinality(1 .. L)
    BY <1>2, <2>1, FS_Surjection
  <2> QED
    BY <1>1, <1>2, <1>4, <1>6, <2>2
<1> QED
  BY <1>4, <1>5, <1>6

\* What the pool says of its list.
LEMMA HoldsChain ==
  ASSUME NEW s, NEW L, Holds(s, L)
  PROVE  /\ L \in Nat /\ L <= QueueMax /\ QueueMax \in Nat
         /\ s \in [1 .. L -> Item] /\ head = At(s, L, 1)
         /\ \A i, j \in 1 .. L : s[i] = s[j] => i = j
         /\ \A i \in 1 .. L : next[s[i]] = At(s, L, i + 1)
         /\ L < QueueMax <=> \E x \in Item : ~used[x]
<1>1. Chain(s, L, head, next)
  BY DEF Holds
<1>2. /\ L <= QueueMax
      /\ L < QueueMax <=> \E x \in Item : \A i \in 1 .. L : s[i] # x
  BY <1>1, ChainLength
<1>3. \A x \in Item : used[x] <=> \E i \in 1 .. L : s[i] = x
  BY DEF Holds
<1> QED
  BY <1>1, <1>2, <1>3, PoolAssumption DEF Chain

-----------------------------------------------------------------------------
(* What the reading operators see of the list.                              *)

\* The walk meets the items of the list in their order, then Null.
LEMMA ReachedIsChain ==
  ASSUME NEW s, NEW L, Holds(s, L)
  PROVE  /\ DOMAIN Reached = 1 .. QueueMax + 1
         /\ \A k \in 1 .. QueueMax + 1 : Reached[k] = At(s, L, k)
<1> DEFINE D == 1 .. QueueMax + 1
           Eq(f) == f = [k \in D |->
                           IF k = 1 THEN head
                           ELSE IF f[k - 1] = Null THEN Null
                                ELSE next[f[k - 1]]]
           g == [k \in D |-> At(s, L, k)]
           r == CHOOSE f : Eq(f)
<1>1. /\ L \in Nat /\ L <= QueueMax /\ QueueMax \in Nat
      /\ s \in [1 .. L -> Item] /\ head = At(s, L, 1)
      /\ \A i \in 1 .. L : next[s[i]] = At(s, L, i + 1)
  BY HoldsChain
<1>2. \A i \in 1 .. L : s[i] # Null
  BY <1>1 DEF Item, Null
<1>3. Eq(g)
  <2> DEFINE e(k) == IF k = 1 THEN head
                     ELSE IF g[k - 1] = Null THEN Null ELSE next[g[k - 1]]
  <2>1. ASSUME NEW k \in D PROVE g[k] = e(k)
    <3>1. CASE k = 1
      BY <1>1, <3>1
    <3>2. CASE k # 1
      <4>1. k - 1 \in D /\ g[k - 1] = At(s, L, k - 1)
        BY <1>1, <3>2
      <4>2. CASE k - 1 \in 1 .. L
        BY <1>1, <1>2, <3>2, <4>1, <4>2 DEF At
      <4>3. CASE k - 1 \notin 1 .. L
        BY <1>1, <3>2, <4>1, <4>3 DEF At
      <4> QED
        BY <4>2, <4>3
    <3> QED
      BY <3>1, <3>2
  <2> QED
    BY <2>1
<1>4. Eq(r)
  BY <1>3
<1>5. Reached = r
  BY DEF Reached
<1> HIDE DEF r
<1>6. DOMAIN r = D
  BY <1>4
<1> DEFINE T == {k \in D : r[k] # g[k]}
<1>7. T = {}
  <2> SUFFICES ASSUME T # {} PROVE FALSE
    OBVIOUS
  <2>1. T \in SUBSET Nat
    BY <1>1
  <2>2. PICK m \in T : \A k \in T : m <= k
    BY <2>1, Least
  <2>3. m \in D /\ (m = 1 \/ (m - 1 \in D /\ r[m - 1] = g[m - 1]))
    BY <1>1, <2>2
  <2>4. r[m] = IF m = 1 THEN head
               ELSE IF r[m - 1] = Null THEN Null ELSE next[r[m - 1]]
    BY <1>4, <2>3
  <2>5. g[m] = IF m = 1 THEN head
               ELSE IF g[m - 1] = Null THEN Null ELSE next[g[m - 1]]
    BY <1>3, <2>3
  <2> HIDE DEF g
  <2>6. r[m] = g[m]
    BY <2>3, <2>4, <2>5
  <2> QED
    BY <2>2, <2>6
<1> QED
  BY <1>5, <1>6, <1>7

\* The list, its length and the walk are what they are taken for, and the three
\* invariants of the pool follow.
LEMMA ReadsRight ==
  ASSUME NEW s, NEW L, Holds(s, L)
  PROVE  /\ InList = {s[i] : i \in 1 .. L}
         /\ NodeNum = L
         /\ Walk = Content(s, L, node)
         /\ ListWellFormed /\ PoolExact /\ TypeOK
<1>1. /\ L \in Nat /\ L <= QueueMax /\ QueueMax \in Nat
      /\ s \in [1 .. L -> Item] /\ head = At(s, L, 1)
  BY HoldsChain
<1>2. \A i \in 1 .. L : s[i] # Null
  BY <1>1 DEF Item, Null
<1>3. /\ DOMAIN Reached = 1 .. QueueMax + 1
      /\ \A k \in 1 .. QueueMax + 1 :
           Reached[k] = IF k \in 1 .. L THEN s[k] ELSE Null
  BY ReachedIsChain DEF At
<1>4. 1 .. L \subseteq 1 .. QueueMax + 1
  BY <1>1
<1>5. InList = {s[i] : i \in 1 .. L}
  BY <1>2, <1>3, <1>4 DEF InList
<1>6. NodeNum = L
  <2>1. {k \in DOMAIN Reached : Reached[k] # Null} = 1 .. L
    BY <1>2, <1>3, <1>4
  <2>2. Cardinality(1 .. L) = L
    BY <1>1, FS_Interval
  <2> QED
    BY <2>1, <2>2 DEF NodeNum
<1>7. Walk = Content(s, L, node)
  BY <1>3, <1>4, <1>6 DEF Walk, Content
<1>8. ListWellFormed
  <2>1. Reached[QueueMax + 1] = Null
    BY <1>1, <1>3
  <2>2. head = Null <=> L = 0
    BY <1>1, <1>2 DEF At
  <2>3. L # 0 => L \in 1 .. L /\ L \in 1 .. QueueMax + 1
    BY <1>1
  <2>4. tail = IF L = 0 THEN Null ELSE s[L]
    BY <1>1, <2>3 DEF Holds, At
  <2> QED
    BY <1>3, <1>6, <2>1, <2>2, <2>3, <2>4 DEF ListWellFormed
<1>9. PoolExact
  BY <1>1, <1>5 DEF Holds, PoolExact
<1>10. TypeOK
  BY <1>1 DEF Holds, PoolOK, TypeOK, At
<1> QED
  BY <1>5, <1>6, <1>7, <1>8, <1>9, <1>10

\* A free item is found while there is one.
LEMMA MallocRight ==
  ASSUME NEW s, NEW L, Holds(s, L)
  PROVE  /\ L < QueueMax => MallocItem \in Item /\ ~used[MallocItem]
         /\ ~(L < QueueMax) => MallocItem = Null
<1> DEFINE F == {x \in Item : ~used[x]}
<1>1. L < QueueMax <=> F # {}
  BY HoldsChain
<1>2. CASE F = {}
  BY <1>1, <1>2 DEF MallocItem
<1>3. CASE F # {}
  <2>1. F \in SUBSET Nat
    BY PoolAssumption DEF Item
  <2>2. PICK m \in F : \A k \in F : m <= k
    BY <1>3, <2>1, Least
  <2>3. \A y \in 1 .. m - 1 : used[y]
    BY <2>1, <2>2, PoolAssumption DEF Item
  <2>4. \E x \in Item : ~used[x] /\ \A y \in 1 .. x - 1 : used[y]
    BY <2>2, <2>3
  <2>5. MallocItem =
          CHOOSE x \in Item : ~used[x] /\ \A y \in 1 .. x - 1 : used[y]
    BY <1>3 DEF MallocItem
  <2>6. MallocItem \in Item /\ ~used[MallocItem]
    BY <2>4, <2>5
  <2> QED
    BY <1>1, <1>3, <2>6
<1> QED
  BY <1>2, <1>3

\* The item of a device is found if the list has one.
LEMMA FindRight ==
  ASSUME NEW s, NEW L, Holds(s, L), NEW a
  PROVE  /\ \A i \in 1 .. L : node[s[i]].addr = a => FindItem(a) = s[i]
         /\ (\A i \in 1 .. L : node[s[i]].addr # a) => FindItem(a) = Null
<1>1. /\ L \in Nat /\ L <= QueueMax /\ QueueMax \in Nat
      /\ s \in [1 .. L -> Item]
  BY HoldsChain
<1>2. \A i \in 1 .. L : s[i] # Null
  BY <1>1 DEF Item, Null
<1>3. /\ DOMAIN Reached = 1 .. QueueMax + 1
      /\ \A k \in 1 .. QueueMax + 1 :
           Reached[k] = IF k \in 1 .. L THEN s[k] ELSE Null
  BY ReachedIsChain DEF At
<1>4. 1 .. L \subseteq 1 .. QueueMax + 1
  BY <1>1
<1>5. InList = {s[i] : i \in 1 .. L}
  BY ReadsRight
<1>6. ASSUME NEW i \in 1 .. L, node[s[i]].addr = a
      PROVE  FindItem(a) = s[i]
  <2> DEFINE P(k) == /\ Reached[k] # Null /\ node[Reached[k]].addr = a
                     /\ \A m \in 1 .. k - 1 : node[Reached[m]].addr # a
             c == CHOOSE k \in DOMAIN Reached : P(k)
  <2>1. FindItem(a) = Reached[c]
    BY <1>5, <1>6 DEF FindItem
  <2>2. i \in DOMAIN Reached /\ P(i)
    <3>1. Reached[i] = s[i]
      BY <1>3, <1>4
    <3>2. \A m \in 1 .. i - 1 : m \in 1 .. L /\ m # i /\ Reached[m] = s[m]
      BY <1>1, <1>3, <1>4
    <3>3. \A m \in 1 .. i - 1 : node[s[m]].addr # a
      BY <1>6, <3>2 DEF Holds
    <3> QED
      BY <1>2, <1>3, <1>4, <1>6, <3>1, <3>2, <3>3
  <2>3. c \in DOMAIN Reached /\ P(c)
    BY <2>2
  <2> HIDE DEF c
  <2>4. c \in 1 .. L /\ Reached[c] = s[c] /\ node[s[c]].addr = a
    BY <1>3, <2>3
  <2>5. c = i
    BY <1>6, <2>4 DEF Holds
  <2> QED
    BY <2>1, <2>4, <2>5
<1>7. (\A i \in 1 .. L : node[s[i]].addr # a) => FindItem(a) = Null
  BY <1>5 DEF FindItem
<1> QED
  BY <1>6, <1>7

-----------------------------------------------------------------------------
(* The operations that keep the list, and change nodes of it.               *)

\* The chain stands while the devices of its nodes do.
LEMMA SameList ==
  ASSUME NEW s, NEW L, Holds(s, L), UNCHANGED <<head, tail, used, next>>,
         node' \in [Item -> Node \cup {EmptyNode}],
         \A i \in 1 .. L : /\ node'[s[i]] \in Node
                           /\ node'[s[i]].addr = node[s[i]].addr
  PROVE  Holds(s, L)'
BY DEF Holds, PoolOK, Chain, At

\* Each node of the list, as the sequence has it.
LEMMA ContentIs ==
  ASSUME NEW s, NEW L, Holds(s, L)
  PROVE  /\ Content(s, L, node) \in Seq(Node)
         /\ Len(Content(s, L, node)) = L
         /\ DOMAIN Content(s, L, node) = 1 .. L
         /\ \A i \in 1 .. L : /\ Content(s, L, node)[i] = node[s[i]]
                              /\ s[i] \in Item /\ node[s[i]] \in Node
<1>1. L \in Nat /\ s \in [1 .. L -> Item]
  BY HoldsChain
<1>2. \A i \in 1 .. L : node[s[i]] \in Node
  BY DEF Holds
<1>3. Content(s, L, node) \in [1 .. L -> Node]
  BY <1>2 DEF Content
<1> QED
  BY <1>1, <1>2, <1>3 DEF Content

\* A device that is queued takes the profiles, whichever end it was to go to.
LEMMA MergeStep ==
  ASSUME NEW s, NEW L, Holds(s, L), NEW n \in Node,
         FindItem(n.addr) # Null, MergeInto(FindItem(n.addr), n)
  PROVE  /\ Holds(s, L)'
         /\ Todo!Queued(Content(s, L, node), n.addr)
         /\ Content(s, L, node)' = Todo!Merge(Content(s, L, node), n)
<1> DEFINE c == Content(s, L, node)
<1>1. /\ DOMAIN c = 1 .. L
      /\ \A i \in 1 .. L : /\ c[i] = node[s[i]] /\ s[i] \in Item
                           /\ node[s[i]] \in Node
  BY ContentIs
<1>2. PICK m \in 1 .. L : node[s[m]].addr = n.addr
  BY FindRight
<1>3. FindItem(n.addr) = s[m]
  BY <1>2, FindRight
<1>4. \A i \in 1 .. L : i # m => s[i] # s[m] /\ node[s[i]].addr # n.addr
  BY <1>2, HoldsChain DEF Holds
<1>5. Todo!Queued(c, n.addr)
  BY <1>1, <1>2 DEF Todo!Queued
<1>6. node \in [Item -> Node \cup {EmptyNode}]
  BY DEF Holds, PoolOK
<1>7. UNCHANGED <<head, tail, used, next>>
  BY DEF MergeInto
<1>8. CASE n.group
  <2>1. node' = node
    BY <1>8 DEF MergeInto
  <2>2. Holds(s, L)'
    BY <1>1, <1>6, <1>7, <2>1, SameList
  <2> QED
    BY <1>5, <1>8, <2>1, <2>2 DEF Content, Todo!Merge
<1>9. CASE ~n.group
  <2> DEFINE d == [node[s[m]] EXCEPT !.plan  = node[s[m]].plan \cup n.plan,
                                     !.force = IF n.force THEN TRUE
                                               ELSE node[s[m]].force,
                                     !.tmo   = n.tmo,
                                     !.group = FALSE]
  <2>1. node' = [node EXCEPT ![s[m]] = d]
    BY <1>3, <1>9 DEF MergeInto
  <2>2. d \in Node /\ d.addr = n.addr
    BY <1>1, <1>2 DEF Node
  <2>3. d = [node[s[m]] EXCEPT !.plan  = node[s[m]].plan \cup n.plan,
                               !.force = node[s[m]].force \/ n.force,
                               !.tmo   = n.tmo,
                               !.group = FALSE]
    <3>1. node[s[m]].force \in BOOLEAN /\ n.force \in BOOLEAN
      BY <1>1, <1>2 DEF Node
    <3>2. (IF n.force THEN TRUE ELSE node[s[m]].force)
            = (node[s[m]].force \/ n.force)
      BY <3>1
    <3> QED
      BY <3>2
  <2> HIDE DEF d
  <2>4. node' \in [Item -> Node \cup {EmptyNode}]
    BY <1>6, <2>1, <2>2
  <2>5. \A i \in 1 .. L : node'[s[i]] = IF i = m THEN d ELSE node[s[i]]
    BY <1>1, <1>4, <1>6, <2>1
  <2>6. Holds(s, L)'
    BY <1>1, <1>2, <1>7, <2>2, <2>4, <2>5, SameList
  <2>7. Todo!Merge(c, n) =
          [i \in 1 .. L |-> IF node[s[i]].addr # n.addr THEN node[s[i]]
                            ELSE [node[s[i]] EXCEPT
                                    !.plan  = node[s[i]].plan \cup n.plan,
                                    !.force = node[s[i]].force \/ n.force,
                                    !.tmo   = n.tmo,
                                    !.group = FALSE]]
    BY <1>1, <1>9 DEF Todo!Merge
  <2>8. \A i \in 1 .. L :
          node'[s[i]] = IF node[s[i]].addr # n.addr THEN node[s[i]]
                        ELSE [node[s[i]] EXCEPT
                                !.plan  = node[s[i]].plan \cup n.plan,
                                !.force = node[s[i]].force \/ n.force,
                                !.tmo   = n.tmo,
                                !.group = FALSE]
    BY <1>2, <1>4, <2>3, <2>5
  <2>9. Content(s, L, node)' = [i \in 1 .. L |-> node'[s[i]]]
    BY DEF Content
  <2>10. Content(s, L, node)' = Todo!Merge(c, n)
    BY <2>7, <2>8, <2>9
  <2> QED
    BY <1>5, <2>6, <2>10
<1> QED
  BY <1>8, <1>9

\* Taking profiles from a device.
LEMMA RemovePlanStep ==
  ASSUME NEW s, NEW L, Holds(s, L), NEW a, NEW ps, RemovePlan(a, ps)
  PROVE  /\ Holds(s, L)'
         /\ Content(s, L, node)' = Todo!RemovePlan(Content(s, L, node), a, ps)
<1> DEFINE c == Content(s, L, node)
           e(i) == IF node[s[i]].addr = a
                   THEN [node[s[i]] EXCEPT !.plan = node[s[i]].plan \ ps]
                   ELSE node[s[i]]
<1>1. /\ DOMAIN c = 1 .. L
      /\ \A i \in 1 .. L : /\ c[i] = node[s[i]] /\ s[i] \in Item
                           /\ node[s[i]] \in Node
  BY ContentIs
<1>2. InList = {s[i] : i \in 1 .. L}
  BY ReadsRight
<1>3. \A i \in 1 .. L : node'[s[i]] = e(i)
  BY <1>1, <1>2 DEF RemovePlan
<1>4. \A i \in 1 .. L : e(i) \in Node /\ e(i).addr = node[s[i]].addr
  BY <1>1 DEF Node
<1>5. node' \in [Item -> Node \cup {EmptyNode}]
  <2>1. ASSUME NEW x \in Item PROVE node'[x] \in Node \cup {EmptyNode}
    <3>1. CASE x \in InList
      BY <1>2, <1>3, <1>4, <3>1
    <3>2. CASE x \notin InList
      BY <3>2 DEF RemovePlan, Holds, PoolOK
    <3> QED
      BY <3>1, <3>2
  <2> QED
    BY <2>1 DEF RemovePlan
<1>6. Holds(s, L)'
  BY <1>3, <1>4, <1>5, SameList DEF RemovePlan
<1>7. Content(s, L, node)' = [i \in 1 .. L |-> e(i)]
  BY <1>3 DEF Content
<1>8. Todo!RemovePlan(c, a, ps) = [i \in 1 .. L |-> e(i)]
  BY <1>1 DEF Todo!RemovePlan
<1> QED
  BY <1>6, <1>7, <1>8

\* Giving the members of a group their timeout.
LEMMA SetGroupTimeoutStep ==
  ASSUME NEW s, NEW L, Holds(s, L), NEW t \in Timeout, SetGroupTimeout(t)
  PROVE  /\ Holds(s, L)'
         /\ Content(s, L, node)' = Todo!SetGroupTimeout(Content(s, L, node), t)
<1> DEFINE c == Content(s, L, node)
           e(i) == IF node[s[i]].group THEN [node[s[i]] EXCEPT !.tmo = t]
                   ELSE node[s[i]]
<1>1. /\ DOMAIN c = 1 .. L
      /\ \A i \in 1 .. L : /\ c[i] = node[s[i]] /\ s[i] \in Item
                           /\ node[s[i]] \in Node
  BY ContentIs
<1>2. InList = {s[i] : i \in 1 .. L}
  BY ReadsRight
<1>3. \A i \in 1 .. L : node'[s[i]] = e(i)
  BY <1>1, <1>2 DEF SetGroupTimeout
<1>4. \A i \in 1 .. L : e(i) \in Node /\ e(i).addr = node[s[i]].addr
  BY <1>1 DEF Node
<1>5. node' \in [Item -> Node \cup {EmptyNode}]
  <2>1. ASSUME NEW x \in Item PROVE node'[x] \in Node \cup {EmptyNode}
    <3>1. CASE x \in InList
      BY <1>2, <1>3, <1>4, <3>1
    <3>2. CASE x \notin InList
      BY <3>2 DEF SetGroupTimeout, Holds, PoolOK
    <3> QED
      BY <3>1, <3>2
  <2> QED
    BY <2>1 DEF SetGroupTimeout
<1>6. Holds(s, L)'
  BY <1>3, <1>4, <1>5, SameList DEF SetGroupTimeout
<1>7. Content(s, L, node)' = [i \in 1 .. L |-> e(i)]
  BY <1>3 DEF Content
<1>8. Todo!SetGroupTimeout(c, t) = [i \in 1 .. L |-> e(i)]
  BY <1>1 DEF Todo!SetGroupTimeout
<1> QED
  BY <1>6, <1>7, <1>8

-----------------------------------------------------------------------------
(* The operations that change the ends of the list.                         *)

\* A list without items.
LEMMA EmptyHolds ==
  ASSUME PoolOK', head' = Null, tail' = Null, used' = [x \in Item |-> FALSE],
         NEW s
  PROVE  Holds(s, 0)' <=> s \in [1 .. 0 -> Item]
BY DEF Holds, Chain, At

\* The pool starts without a list.
LEMMA InitStep ==
  ASSUME Init
  PROVE  \E s : Holds(s, 0) /\ Content(s, 0, node) = <<>>
<1> DEFINE s == [i \in 1 .. 0 |-> 1]
<1>1. s \in [1 .. 0 -> Item]
  OBVIOUS
<1>2. PoolOK
  BY DEF Init, PoolOK
<1> HIDE DEF s
<1>3. Holds(s, 0)
  BY <1>1, <1>2 DEF Init, Holds, Chain, At
<1>4. Content(s, 0, node) = <<>>
  BY DEF Content
<1> QED
  BY <1>3, <1>4

\* linkback_todo_queue_init clears it from any state.
LEMMA QueueInitStep ==
  ASSUME QueueInit
  PROVE  \E s : Holds(s, 0)' /\ Content(s, 0, node)' = <<>>
<1> DEFINE s == [i \in 1 .. 0 |-> 1]
<1>1. s \in [1 .. 0 -> Item]
  OBVIOUS
<1>2. PoolOK'
  BY DEF QueueInit, PoolOK
<1> HIDE DEF s
<1>3. Holds(s, 0)'
  BY <1>1, <1>2, EmptyHolds DEF QueueInit
<1>4. Content(s, 0, node)' = <<>>
  BY DEF Content
<1> QED
  BY <1>3, <1>4

\* linkback_todo_queue_delete_all_node frees what it can reach, which is all
\* that is used.
LEMMA DeleteAllStep ==
  ASSUME NEW r, NEW L, Holds(r, L), DeleteAll
  PROVE  \E s : Holds(s, 0)' /\ Content(s, 0, node)' = <<>>
<1> DEFINE s == [i \in 1 .. 0 |-> 1]
<1>1. s \in [1 .. 0 -> Item]
  OBVIOUS
<1>2. \A x \in Item : ~(used[x] /\ x \notin InList)
  BY ReadsRight DEF PoolExact
<1>3. used' = [x \in Item |-> FALSE]
  BY <1>2 DEF DeleteAll
<1>4. PoolOK'
  BY <1>3 DEF DeleteAll, PoolOK, Holds
<1> HIDE DEF s
<1>5. Holds(s, 0)'
  BY <1>1, <1>3, <1>4, EmptyHolds DEF DeleteAll
<1>6. Content(s, 0, node)' = <<>>
  BY DEF Content
<1> QED
  BY <1>5, <1>6

\* The item a new node is put in is not in the list, and neither is its device.
LEMMA FreshItem ==
  ASSUME NEW s, NEW L, Holds(s, L), NEW n \in Node, FindItem(n.addr) = Null
  PROVE  /\ ~Todo!Queued(Content(s, L, node), n.addr)
         /\ \A i \in 1 .. L : node[s[i]].addr # n.addr
         /\ MallocItem # Null <=> L < QueueMax
         /\ MallocItem # Null => /\ MallocItem \in Item
                                 /\ \A i \in 1 .. L : s[i] # MallocItem
<1>1. \A i \in 1 .. L : s[i] \in Item /\ s[i] # Null
  BY HoldsChain DEF Item, Null
<1>2. \A i \in 1 .. L : node[s[i]].addr # n.addr
  BY <1>1, FindRight
<1>3. ~Todo!Queued(Content(s, L, node), n.addr)
  BY <1>2, ContentIs DEF Todo!Queued
<1>4. /\ L < QueueMax => MallocItem \in Item /\ ~used[MallocItem]
      /\ ~(L < QueueMax) => MallocItem = Null
  BY MallocRight
<1>5. Null \notin Item
  BY DEF Item, Null
<1>6. \A i \in 1 .. L : used[s[i]]
  BY <1>1 DEF Holds
<1> QED
  BY <1>2, <1>3, <1>4, <1>5, <1>6

\* A node is appended: the last item, if there is one, is linked to the new one.
LEMMA AppendStep ==
  ASSUME NEW s, NEW L, Holds(s, L), NEW n \in Node, InsertNormal(n),
         FindItem(n.addr) = Null, MallocItem # Null
  PROVE  \E r : /\ Holds(r, L + 1)'
                /\ Content(r, L + 1, node)' = Append(Content(s, L, node), n)
<1>0. PICK y : y = MallocItem
  OBVIOUS
<1> DEFINE r == [i \in 1 .. L + 1 |-> IF i = L + 1 THEN y ELSE s[i]]
<1>1. /\ L \in Nat /\ s \in [1 .. L -> Item] /\ head = At(s, L, 1)
      /\ \A i, j \in 1 .. L : s[i] = s[j] => i = j
      /\ \A i \in 1 .. L : next[s[i]] = At(s, L, i + 1)
  BY HoldsChain
<1>2. \A i \in 1 .. L : s[i] \in Item /\ s[i] # Null
  BY <1>1 DEF Item, Null
<1>3. /\ y \in Item /\ \A i \in 1 .. L : s[i] # y
      /\ \A i \in 1 .. L : node[s[i]].addr # n.addr
  BY <1>0, FreshItem
<1>4. PoolOK
  BY DEF Holds
<1>5. head = Null <=> L = 0
  BY <1>1, <1>2 DEF At
<1>6. L # 0 => L \in 1 .. L /\ tail = s[L]
  BY <1>1 DEF Holds, At
<1>7. /\ used' = [used EXCEPT ![y] = TRUE]
      /\ node' = [node EXCEPT ![y] = n]
      /\ next' = IF head = Null THEN [next EXCEPT ![y] = Null]
                 ELSE [next EXCEPT ![y] = Null, ![tail] = y]
      /\ head' = IF head = Null THEN y ELSE head
      /\ tail' = y
  BY <1>0 DEF InsertNormal
<1>8. /\ r \in [1 .. L + 1 -> Item]
      /\ r[L + 1] = y /\ \A i \in 1 .. L : r[i] = s[i]
      /\ \A i \in 1 .. L + 1 : i = L + 1 \/ i \in 1 .. L
      /\ L + 1 \in 1 .. L + 1 /\ 1 .. L \subseteq 1 .. L + 1
  BY <1>1, <1>2, <1>3
<1> HIDE DEF r
<1>9. PoolOK'
  <2>1. L # 0 => tail \in Item
    BY <1>2, <1>6
  <2> QED
    BY <1>3, <1>4, <1>5, <1>7, <2>1 DEF PoolOK
<1>10. Chain(r, L + 1, head', next')
  <2>1. \A i, j \in 1 .. L + 1 : r[i] = r[j] => i = j
    BY <1>1, <1>3, <1>8
  <2>2. head' = At(r, L + 1, 1)
    BY <1>1, <1>5, <1>7, <1>8 DEF At
  <2>3. ASSUME NEW i \in 1 .. L + 1
        PROVE  next'[r[i]] = At(r, L + 1, i + 1)
    <3>1. CASE i = L + 1
      <4>1. next'[y] = Null
        BY <1>2, <1>3, <1>4, <1>5, <1>6, <1>7 DEF PoolOK
      <4> QED
        BY <1>1, <1>8, <3>1, <4>1 DEF At
    <3>2. CASE i = L /\ i \in 1 .. L
      <4>1. next'[s[L]] = y
        BY <1>2, <1>3, <1>4, <1>5, <1>6, <1>7, <3>2 DEF PoolOK
      <4> QED
        BY <1>1, <1>8, <3>2, <4>1 DEF At
    <3>3. CASE i \in 1 .. L /\ i # L
      <4>1. L # 0 /\ L \in 1 .. L /\ s[i] # tail /\ s[i] # y
        BY <1>1, <1>3, <1>6, <3>3
      <4>2. next'[s[i]] = next[s[i]]
        BY <1>2, <1>3, <1>4, <1>5, <1>6, <1>7, <3>3, <4>1 DEF PoolOK
      <4>3. i + 1 \in 1 .. L
        BY <1>1, <3>3
      <4> QED
        BY <1>1, <1>8, <3>3, <4>2, <4>3 DEF At
    <3> QED
      BY <1>8, <3>1, <3>2, <3>3
  <2> QED
    BY <1>1, <1>8, <2>1, <2>2, <2>3 DEF Chain
<1>11. tail' = At(r, L + 1, L + 1)
  BY <1>1, <1>7, <1>8 DEF At
<1>12. \A x \in Item : used'[x] <=> \E i \in 1 .. L + 1 : r[i] = x
  BY <1>3, <1>4, <1>7, <1>8 DEF Holds, PoolOK
<1>13. \A i \in 1 .. L + 1 :
         node'[r[i]] = IF i = L + 1 THEN n ELSE node[s[i]]
  BY <1>1, <1>2, <1>3, <1>4, <1>7, <1>8 DEF PoolOK
<1>14. /\ \A i \in 1 .. L + 1 : node'[r[i]] \in Node
       /\ \A i, j \in 1 .. L + 1 : node'[r[i]].addr = node'[r[j]].addr => i = j
  BY <1>3, <1>8, <1>13 DEF Holds
<1>15. Holds(r, L + 1)'
  BY <1>9, <1>10, <1>11, <1>12, <1>14 DEF Holds
<1>16. Content(r, L + 1, node)' = Append(Content(s, L, node), n)
  <2> DEFINE c == Content(s, L, node)
             d == Content(r, L + 1, node)'
  <2>1. c \in Seq(Node) /\ Len(c) = L /\ \A i \in 1 .. L : c[i] = node[s[i]]
    BY ContentIs
  <2>2. d = [i \in 1 .. L + 1 |-> node'[r[i]]]
    BY DEF Content
  <2>3. /\ Append(c, n) \in [1 .. L + 1 -> Node]
        /\ \A i \in 1 .. L : Append(c, n)[i] = c[i]
        /\ Append(c, n)[L + 1] = n
    <3>1. Len(c) + 1 = L + 1 /\ 1 .. Len(c) = 1 .. L
      BY <2>1
    <3>2. /\ Append(c, n) \in Seq(Node) /\ Len(Append(c, n)) = Len(c) + 1
          /\ \A i \in 1 .. Len(c) : Append(c, n)[i] = c[i]
          /\ Append(c, n)[Len(c) + 1] = n
      BY <2>1, AppendProperties
    <3> QED
      BY <3>1, <3>2, LenProperties
  <2> HIDE DEF c, d
  <2>4. \A i \in 1 .. L + 1 : d[i] = Append(c, n)[i]
    BY <1>8, <1>13, <2>1, <2>2, <2>3
  <2>5. d = Append(c, n)
    BY <2>2, <2>3, <2>4
  <2> QED
    BY <2>5 DEF c, d
<1> QED
  BY <1>15, <1>16

\* A forced node is put in front of the list.
LEMMA PrependStep ==
  ASSUME NEW s, NEW L, Holds(s, L), NEW n \in Node, InsertForce(n),
         FindItem(n.addr) = Null, MallocItem # Null
  PROVE  \E r : /\ Holds(r, L + 1)'
                /\ Content(r, L + 1, node)' = <<n>> \o Content(s, L, node)
<1>0. PICK y : y = MallocItem
  OBVIOUS
<1> DEFINE r == [i \in 1 .. L + 1 |-> IF i = 1 THEN y ELSE s[i - 1]]
<1>1. /\ L \in Nat /\ s \in [1 .. L -> Item] /\ head = At(s, L, 1)
      /\ \A i, j \in 1 .. L : s[i] = s[j] => i = j
      /\ \A i \in 1 .. L : next[s[i]] = At(s, L, i + 1)
  BY HoldsChain
<1>2. \A i \in 1 .. L : s[i] \in Item /\ s[i] # Null
  BY <1>1 DEF Item, Null
<1>3. /\ y \in Item /\ \A i \in 1 .. L : s[i] # y
      /\ \A i \in 1 .. L : node[s[i]].addr # n.addr
  BY <1>0, FreshItem
<1>4. PoolOK
  BY DEF Holds
<1>5. head = Null <=> L = 0
  BY <1>1, <1>2 DEF At
<1>6. /\ used' = [used EXCEPT ![y] = TRUE]
      /\ node' = [node EXCEPT ![y] = n]
      /\ next' = [next EXCEPT ![y] = head]
      /\ tail' = IF head = Null THEN y ELSE tail
      /\ head' = y
  BY <1>0 DEF InsertForce
<1>7. /\ r \in [1 .. L + 1 -> Item] /\ r[1] = y
      /\ \A i \in 1 .. L : i + 1 \in 1 .. L + 1 /\ r[i + 1] = s[i]
      /\ \A i \in 1 .. L + 1 :
           i = 1 \/ (i - 1 \in 1 .. L /\ i # 1 /\ r[i] = s[i - 1])
      /\ 1 \in 1 .. L + 1
  BY <1>1, <1>2, <1>3
<1> HIDE DEF r
<1>8. PoolOK'
  <2>1. head \in Item \cup {Null}
    BY <1>1, <1>2 DEF At
  <2> QED
    BY <1>3, <1>4, <1>6, <2>1 DEF PoolOK
<1>9. Chain(r, L + 1, head', next')
  <2>1. ASSUME NEW i \in 1 .. L + 1, NEW j \in 1 .. L + 1, r[i] = r[j]
        PROVE  i = j
    <3>1. CASE i = 1 \/ j = 1
      BY <1>3, <1>7, <2>1, <3>1
    <3>2. CASE i # 1 /\ j # 1
      <4>1. i - 1 \in 1 .. L /\ j - 1 \in 1 .. L /\ s[i - 1] = s[j - 1]
        BY <1>7, <2>1, <3>2
      <4>2. i - 1 = j - 1
        BY <1>1, <4>1
      <4> QED
        BY <1>1, <4>2
    <3> QED
      BY <3>1, <3>2
  <2>2. head' = At(r, L + 1, 1)
    BY <1>6, <1>7 DEF At
  <2>3. ASSUME NEW i \in 1 .. L + 1
        PROVE  next'[r[i]] = At(r, L + 1, i + 1)
    <3>1. CASE i = 1
      <4>1. next'[y] = At(s, L, 1)
        BY <1>1, <1>3, <1>4, <1>6 DEF PoolOK
      <4>2. At(s, L, 1) = At(r, L + 1, 2)
        <5>1. CASE L = 0
          BY <5>1 DEF At
        <5>2. CASE L # 0
          <6>1. 1 \in 1 .. L /\ 2 \in 1 .. L + 1 /\ 1 + 1 = 2
            BY <1>1, <5>2
          <6>2. r[1 + 1] = s[1]
            BY <1>7, <6>1
          <6> QED
            BY <6>1, <6>2 DEF At
        <5> QED
          BY <5>1, <5>2
      <4>3. i + 1 = 2
        BY <3>1
      <4> QED
        BY <1>7, <3>1, <4>1, <4>2, <4>3
    <3>2. CASE i # 1
      <4>1. i - 1 \in 1 .. L /\ r[i] = s[i - 1] /\ (i - 1) + 1 = i
        BY <1>7, <3>2
      <4>2. next'[r[i]] = At(s, L, i)
        BY <1>1, <1>2, <1>3, <1>4, <1>6, <4>1 DEF PoolOK
      <4>3. At(s, L, i) = At(r, L + 1, i + 1)
        <5>1. CASE i \in 1 .. L
          BY <1>7, <5>1 DEF At
        <5>2. CASE i \notin 1 .. L
          BY <1>1, <5>2 DEF At
        <5> QED
          BY <5>1, <5>2
      <4> QED
        BY <4>2, <4>3
    <3> QED
      BY <3>1, <3>2
  <2> QED
    BY <1>1, <1>7, <2>1, <2>2, <2>3 DEF Chain
<1>10. tail' = At(r, L + 1, L + 1)
  <2>1. CASE L = 0
    BY <1>5, <1>6, <1>7, <2>1 DEF At
  <2>2. CASE L # 0
    <3>1. L \in 1 .. L /\ L + 1 \in 1 .. L + 1
      BY <1>1, <2>2
    <3>2. tail = s[L] /\ r[L + 1] = s[L]
      BY <1>7, <3>1 DEF Holds, At
    <3> QED
      BY <1>5, <1>6, <2>2, <3>1, <3>2 DEF At
  <2> QED
    BY <2>1, <2>2
<1>11. ASSUME NEW x \in Item
       PROVE  used'[x] <=> \E i \in 1 .. L + 1 : r[i] = x
  <2>1. used'[x] <=> used[x] \/ x = y
    BY <1>3, <1>4, <1>6 DEF PoolOK
  <2>2. used[x] <=> \E i \in 1 .. L : s[i] = x
    BY DEF Holds
  <2> QED
    BY <1>7, <2>1, <2>2
<1>12. \A i \in 1 .. L + 1 :
         node'[r[i]] = IF i = 1 THEN n ELSE node[s[i - 1]]
  BY <1>2, <1>3, <1>4, <1>6, <1>7 DEF PoolOK
<1>13. \A i \in 1 .. L + 1 : node'[r[i]] \in Node
  BY <1>7, <1>12 DEF Holds
<1>14. ASSUME NEW i \in 1 .. L + 1, NEW j \in 1 .. L + 1,
              node'[r[i]].addr = node'[r[j]].addr
       PROVE  i = j
  <2>1. CASE i = 1 \/ j = 1
    BY <1>3, <1>7, <1>12, <1>14, <2>1
  <2>2. CASE i # 1 /\ j # 1
    <3>1. i - 1 \in 1 .. L /\ j - 1 \in 1 .. L
      BY <1>7, <2>2
    <3>2. node[s[i - 1]].addr = node[s[j - 1]].addr
      BY <1>12, <1>14, <2>2
    <3>3. i - 1 = j - 1
      BY <3>1, <3>2 DEF Holds
    <3> QED
      BY <1>1, <3>3
  <2> QED
    BY <2>1, <2>2
<1>15. Holds(r, L + 1)'
  BY <1>8, <1>9, <1>10, <1>11, <1>13, <1>14 DEF Holds
<1>16. Content(r, L + 1, node)' = <<n>> \o Content(s, L, node)
  <2> DEFINE c == Content(s, L, node)
             d == Content(r, L + 1, node)'
             e == <<n>> \o c
  <2>1. c \in Seq(Node) /\ Len(c) = L /\ \A i \in 1 .. L : c[i] = node[s[i]]
    BY ContentIs
  <2>2. d = [i \in 1 .. L + 1 |-> node'[r[i]]]
    BY DEF Content
  <2> HIDE DEF c, d
  <2>3. e \in [1 .. L + 1 -> Node] /\ e[1] = n
        /\ \A i \in 2 .. L + 1 : e[i] = c[i - 1]
    <3>1. <<n>> \in Seq(Node) /\ Len(<<n>>) = 1 /\ <<n>>[1] = n
      OBVIOUS
    <3>2. /\ e \in Seq(Node) /\ Len(e) = Len(<<n>>) + Len(c)
          /\ \A i \in 1 .. Len(<<n>>) + Len(c) :
               e[i] = IF i <= Len(<<n>>) THEN <<n>>[i] ELSE c[i - Len(<<n>>)]
      BY <2>1, <3>1, ConcatProperties
    <3> HIDE DEF e
    <3>3. Len(e) = L + 1 /\ Len(<<n>>) + Len(c) = L + 1
      BY <1>1, <2>1, <3>1, <3>2
    <3>4. e \in [1 .. L + 1 -> Node]
      BY <3>2, <3>3, LenProperties
    <3> QED
      BY <1>1, <3>1, <3>2, <3>3, <3>4
  <2> HIDE DEF e
  <2>4. ASSUME NEW i \in 1 .. L + 1 PROVE d[i] = e[i]
    <3>1. CASE i = 1
      BY <1>12, <2>2, <2>3, <3>1
    <3>2. CASE i # 1
      <4>1. i \in 2 .. L + 1 /\ i - 1 \in 1 .. L
        BY <1>1, <3>2
      <4> QED
        BY <1>12, <2>1, <2>2, <2>3, <3>2, <4>1
    <3> QED
      BY <3>1, <3>2
  <2>5. d = e
    BY <2>2, <2>3, <2>4
  <2> QED
    BY <2>5 DEF c, d, e
<1> QED
  BY <1>15, <1>16

\* Taking the first node leaves the rest of the list, and frees its item only.
LEMMA TakeFirstStep ==
  ASSUME NEW s, NEW L, Holds(s, L), TakeFirst
  PROVE  /\ Content(s, L, node) # <<>>
         /\ \E r, K : /\ Holds(r, K)'
                      /\ Content(r, K, node)' = Tail(Content(s, L, node))
<1> DEFINE K == L - 1
           r == [i \in 1 .. K |-> s[i + 1]]
<1>1. /\ L \in Nat /\ s \in [1 .. L -> Item] /\ head = At(s, L, 1)
      /\ \A i, j \in 1 .. L : s[i] = s[j] => i = j
      /\ \A i \in 1 .. L : next[s[i]] = At(s, L, i + 1)
  BY HoldsChain
<1>2. \A i \in 1 .. L : s[i] \in Item /\ s[i] # Null
  BY <1>1 DEF Item, Null
<1>3. PoolOK
  BY DEF Holds
<1>4. 1 \in 1 .. L /\ L # 0 /\ head = s[1] /\ head \in Item
  BY <1>1, <1>2 DEF TakeFirst, At
<1>5. /\ used' = [used EXCEPT ![head] = FALSE]
      /\ head' = next[head]
      /\ tail' = IF next[head] = Null THEN Null ELSE tail
      /\ next' = next /\ node' = node
  BY DEF TakeFirst
<1>6. /\ K \in Nat /\ L \in 1 .. L
      /\ \A i \in 1 .. K : i + 1 \in 1 .. L /\ r[i] = s[i + 1] /\ i + 1 # 1
      /\ \A i \in 1 .. L : i = 1 \/ (i - 1 \in 1 .. K /\ (i - 1) + 1 = i)
  BY <1>1, <1>4
<1>7. r \in [1 .. K -> Item]
  BY <1>1, <1>6
<1> HIDE DEF r
<1>8. PoolOK'
  BY <1>3, <1>4, <1>5 DEF PoolOK
<1>9. next[head] = At(r, K, 1)
  <2>1. next[head] = At(s, L, 2)
    BY <1>1, <1>4
  <2>2. 1 \in 1 .. K <=> 2 \in 1 .. L
    BY <1>1
  <2> QED
    BY <1>6, <2>1, <2>2 DEF At
<1>10. Chain(r, K, head', next')
  <2>1. ASSUME NEW i \in 1 .. K, NEW j \in 1 .. K, r[i] = r[j]
        PROVE  i = j
    <3>1. i + 1 = j + 1
      BY <1>1, <1>6, <2>1
    <3> QED
      BY <1>6, <3>1
  <2>2. ASSUME NEW i \in 1 .. K PROVE next'[r[i]] = At(r, K, i + 1)
    <3>1. next'[r[i]] = At(s, L, (i + 1) + 1)
      BY <1>1, <1>5, <1>6
    <3>2. (i + 1) + 1 \in 1 .. L <=> i + 1 \in 1 .. K
      BY <1>1
    <3> QED
      BY <1>6, <3>1, <3>2 DEF At
  <2> QED
    BY <1>5, <1>6, <1>7, <1>9, <2>1, <2>2 DEF Chain
<1>11. tail' = At(r, K, K)
  <2>1. tail = s[L]
    BY <1>6 DEF Holds, At
  <2>2. CASE K = 0
    BY <1>5, <1>9, <2>2 DEF At
  <2>3. CASE K # 0
    <3>1. 1 \in 1 .. K /\ K \in 1 .. K /\ K + 1 = L
      BY <1>6, <2>3
    <3>2. next[head] # Null
      BY <1>2, <1>6, <1>9, <3>1 DEF At
    <3> QED
      BY <1>5, <1>6, <2>1, <3>1, <3>2 DEF At
  <2> QED
    BY <2>2, <2>3
<1>12. ASSUME NEW x \in Item
       PROVE  used'[x] <=> \E i \in 1 .. K : r[i] = x
  <2>1. used'[x] <=> used[x] /\ x # s[1]
    BY <1>3, <1>4, <1>5 DEF PoolOK
  <2>2. used[x] <=> \E i \in 1 .. L : s[i] = x
    BY DEF Holds
  <2>3. \A i \in 1 .. K : s[i + 1] # s[1]
    BY <1>1, <1>4, <1>6
  <2> QED
    BY <1>6, <2>1, <2>2, <2>3
<1>13. \A i \in 1 .. K : node'[r[i]] = node[s[i + 1]]
  BY <1>5, <1>6
<1>14. \A i \in 1 .. K : node'[r[i]] \in Node
  BY <1>6, <1>13 DEF Holds
<1>15. ASSUME NEW i \in 1 .. K, NEW j \in 1 .. K,
              node'[r[i]].addr = node'[r[j]].addr
       PROVE  i = j
  <2>1. i + 1 = j + 1
    BY <1>6, <1>13, <1>15 DEF Holds
  <2> QED
    BY <1>6, <2>1
<1>16. Holds(r, K)'
  BY <1>8, <1>10, <1>11, <1>12, <1>14, <1>15 DEF Holds
<1>17. /\ Content(s, L, node) # <<>>
       /\ Content(r, K, node)' = Tail(Content(s, L, node))
  <2> DEFINE c == Content(s, L, node)
             d == Content(r, K, node)'
  <2>1. c \in Seq(Node) /\ Len(c) = L /\ \A i \in 1 .. L : c[i] = node[s[i]]
    BY ContentIs
  <2>2. d = [i \in 1 .. K |-> node'[r[i]]]
    BY DEF Content
  <2> HIDE DEF c, d
  <2>3. c # <<>>
    BY <1>4, <2>1, EmptySeq
  <2>4. /\ Tail(c) \in Seq(Node) /\ Len(Tail(c)) = Len(c) - 1
        /\ \A i \in 1 .. Len(Tail(c)) : Tail(c)[i] = c[i + 1]
    BY <2>1, <2>3, HeadTailProperties
  <2>5. Tail(c) \in [1 .. K -> Node] /\ \A i \in 1 .. K : Tail(c)[i] = c[i + 1]
    BY <2>1, <2>4, LenProperties
  <2>6. \A i \in 1 .. K : d[i] = Tail(c)[i]
    BY <1>6, <1>13, <2>1, <2>2, <2>5
  <2>7. d = Tail(c)
    BY <2>2, <2>5, <2>6
  <2> QED
    BY <2>3, <2>7 DEF c, d
<1> QED
  BY <1>16, <1>17

-----------------------------------------------------------------------------
(* The two loops of linkback_todo_queue_delete_group_member.                *)

DropState == [head : Item \cup {Null}, used : [Item -> BOOLEAN],
              next : [Item -> Item \cup {Null}]]

\* One turn of the first loop.
DropStep(t) ==
  IF t.head = Null \/ ~node[t.head].group THEN t
  ELSE [t EXCEPT !.used[t.head] = FALSE, !.head = t.next[t.head]]

BehindState == [p : Item \cup {Null}, used : [Item -> BOOLEAN],
                next : [Item -> Item \cup {Null}]]

\* One turn of the second.
BehindStep(t) ==
  LET q == t.next[t.p] IN
  IF t.p = Null \/ q = Null THEN t
  ELSE IF node[q].group
       THEN [t EXCEPT !.used[q] = FALSE, !.next[t.p] = t.next[q]]
       ELSE [t EXCEPT !.p = q]

\* What a turn does to the pointers.
LEMMA DropStepIs ==
  ASSUME NEW t \in DropState
  PROVE  /\ DropStep(t) \in DropState
         /\ t.head = Null \/ ~node[t.head].group => DropStep(t) = t
         /\ ~(t.head = Null \/ ~node[t.head].group) =>
              /\ DropStep(t).head = t.next[t.head]
              /\ DropStep(t).used = [t.used EXCEPT ![t.head] = FALSE]
              /\ DropStep(t).next = t.next
<1>1. CASE t.head = Null \/ ~node[t.head].group
  BY <1>1 DEF DropStep
<1>2. CASE ~(t.head = Null \/ ~node[t.head].group)
  <2>1. DropStep(t) = [head |-> t.next[t.head],
                       used |-> [t.used EXCEPT ![t.head] = FALSE],
                       next |-> t.next]
    BY <1>2 DEF DropStep, DropState
  <2>2. t.head \in Item
    BY <1>2 DEF DropState
  <2> QED
    BY <1>2, <2>1, <2>2 DEF DropState
<1> QED
  BY <1>1, <1>2

\* The same for the second loop, with q the item behind p.
LEMMA BehindStepIs ==
  ASSUME NEW t \in BehindState, NEW q, q = t.next[t.p]
  PROVE  /\ BehindStep(t) \in BehindState
         /\ t.p = Null \/ q = Null => BehindStep(t) = t
         /\ ~(t.p = Null \/ q = Null) /\ node[q].group =>
              /\ BehindStep(t).p = t.p
              /\ BehindStep(t).used = [t.used EXCEPT ![q] = FALSE]
              /\ BehindStep(t).next = [t.next EXCEPT ![t.p] = t.next[q]]
         /\ ~(t.p = Null \/ q = Null) /\ ~node[q].group =>
              /\ BehindStep(t).p = q
              /\ BehindStep(t).used = t.used
              /\ BehindStep(t).next = t.next
<1>1. CASE t.p = Null \/ q = Null
  BY <1>1 DEF BehindStep
<1>2. CASE ~(t.p = Null \/ q = Null)
  <2>1. t.p \in Item /\ q \in Item
    BY <1>2 DEF BehindState
  <2>2. CASE node[q].group
    <3>1. BehindStep(t) = [p |-> t.p,
                           used |-> [t.used EXCEPT ![q] = FALSE],
                           next |-> [t.next EXCEPT ![t.p] = t.next[q]]]
      BY <1>2, <2>2 DEF BehindStep, BehindState
    <3> QED
      BY <1>2, <2>1, <2>2, <3>1 DEF BehindState
  <2>3. CASE ~node[q].group
    <3>1. BehindStep(t) = [p |-> q, used |-> t.used, next |-> t.next]
      BY <1>2, <2>3 DEF BehindStep, BehindState
    <3> QED
      BY <1>2, <2>1, <2>3, <3>1 DEF BehindState
  <2> QED
    BY <2>2, <2>3
<1> QED
  BY <1>1, <1>2

\* Each loop is its step, taken again and again.
LEMMA DropTurns ==
  ASSUME NEW t \in DropState
  PROVE  \E f : /\ f \in [0 .. QueueMax -> DropState] /\ f[0] = t
                /\ \A k \in 1 .. QueueMax : f[k] = DropStep(f[k - 1])
                /\ DropLeading(t) = f[QueueMax]
<1> DEFINE D == 0 .. QueueMax
           Eq(f) ==
             f = [k \in D |-> IF k = 0 THEN t ELSE DropStep(f[k - 1])]
           r == CHOOSE f : Eq(f)
<1>1. QueueMax \in Nat
  BY PoolAssumption
<1>2. PICK step : step = [u \in DropState |-> DropStep(u)]
  OBVIOUS
<1>3. /\ step \in [DropState -> DropState]
      /\ \A u \in DropState : step[u] = DropStep(u)
  BY <1>2, DropStepIs
<1>4. PICK g : Turns(g, DropState, t, step, QueueMax)
  BY <1>1, <1>3, Iterated
<1>5. /\ g \in [D -> DropState] /\ g[0] = t
      /\ \A k \in 1 .. QueueMax : g[k] = DropStep(g[k - 1])
  BY <1>1, <1>3, <1>4 DEF Turns
<1>6. Eq(g)
  <2>1. \A k \in D : k = 0 \/ k \in 1 .. QueueMax
    BY <1>1
  <2> QED
    BY <1>5, <2>1
<1>7. Eq(r)
  BY <1>6
<1>8. DropLeading(t) = r[QueueMax]
  BY DEF DropLeading, DropStep
<1> HIDE DEF r
<1>9. /\ DOMAIN r = D /\ r = [k \in D |-> r[k]] /\ r[0] = t
      /\ \A k \in 1 .. QueueMax : r[k] = DropStep(r[k - 1])
  BY <1>1, <1>7
<1> HIDE DEF Eq
<1>10. r = g
  <2> DEFINE T == {k \in D : r[k] = g[k]}
  <2>1. 0 \in T
    BY <1>1, <1>5, <1>9
  <2>2. \A k \in D : k + 1 <= QueueMax /\ k \in T => k + 1 \in T
    <3> SUFFICES ASSUME NEW k \in D, k + 1 <= QueueMax, r[k] = g[k]
                 PROVE  k + 1 \in T
      OBVIOUS
    <3>1. k + 1 \in 1 .. QueueMax /\ k + 1 \in D /\ (k + 1) - 1 = k
      BY <1>1
    <3>2. r[k + 1] = g[k + 1]
      BY <1>5, <1>9, <3>1
    <3> QED
      BY <3>1, <3>2
  <2> HIDE DEF T
  <2>3. \A k \in D : k \in T
    BY <1>1, <2>1, <2>2, Induct
  <2>4. \A k \in D : r[k] = g[k]
    BY <2>3 DEF T
  <2> QED
    BY <1>5, <1>9, <2>4
<1> QED
  BY <1>5, <1>8, <1>10

\* And the second.
LEMMA BehindTurns ==
  ASSUME NEW t \in BehindState
  PROVE  \E f : /\ f \in [0 .. QueueMax -> BehindState] /\ f[0] = t
                /\ \A k \in 1 .. QueueMax : f[k] = BehindStep(f[k - 1])
                /\ UnlinkBehind(t) = f[QueueMax]
<1> DEFINE D == 0 .. QueueMax
           Eq(f) ==
             f = [k \in D |-> IF k = 0 THEN t ELSE BehindStep(f[k - 1])]
           r == CHOOSE f : Eq(f)
<1>1. QueueMax \in Nat
  BY PoolAssumption
<1>2. PICK step : step = [u \in BehindState |-> BehindStep(u)]
  OBVIOUS
<1>3. /\ step \in [BehindState -> BehindState]
      /\ \A u \in BehindState : step[u] = BehindStep(u)
  BY <1>2, BehindStepIs
<1>4. PICK g : Turns(g, BehindState, t, step, QueueMax)
  BY <1>1, <1>3, Iterated
<1>5. /\ g \in [D -> BehindState] /\ g[0] = t
      /\ \A k \in 1 .. QueueMax : g[k] = BehindStep(g[k - 1])
  BY <1>1, <1>3, <1>4 DEF Turns
<1>6. Eq(g)
  <2>1. \A k \in D : k = 0 \/ k \in 1 .. QueueMax
    BY <1>1
  <2> QED
    BY <1>5, <2>1
<1>7. Eq(r)
  BY <1>6
<1>8. UnlinkBehind(t) = r[QueueMax]
  BY DEF UnlinkBehind, BehindStep
<1> HIDE DEF r
<1>9. /\ DOMAIN r = D /\ r = [k \in D |-> r[k]] /\ r[0] = t
      /\ \A k \in 1 .. QueueMax : r[k] = BehindStep(r[k - 1])
  BY <1>1, <1>7
<1> HIDE DEF Eq
<1>10. r = g
  <2> DEFINE T == {k \in D : r[k] = g[k]}
  <2>1. 0 \in T
    BY <1>1, <1>5, <1>9
  <2>2. \A k \in D : k + 1 <= QueueMax /\ k \in T => k + 1 \in T
    <3> SUFFICES ASSUME NEW k \in D, k + 1 <= QueueMax, r[k] = g[k]
                 PROVE  k + 1 \in T
      OBVIOUS
    <3>1. k + 1 \in 1 .. QueueMax /\ k + 1 \in D /\ (k + 1) - 1 = k
      BY <1>1
    <3>2. r[k + 1] = g[k + 1]
      BY <1>5, <1>9, <3>1
    <3> QED
      BY <3>1, <3>2
  <2> HIDE DEF T
  <2>3. \A k \in D : k \in T
    BY <1>1, <2>1, <2>2, Induct
  <2>4. \A k \in D : r[k] = g[k]
    BY <2>3 DEF T
  <2> QED
    BY <1>5, <1>9, <2>4
<1> QED
  BY <1>5, <1>8, <1>10

\* The first c items, all members of a group, have been dropped.
Dropped(s, L, c, t) ==
  /\ t \in DropState /\ c \in 0 .. L
  /\ \A i \in 1 .. c : node[s[i]].group
  /\ t.head = At(s, L, c + 1) /\ t.next = next
  /\ \A x \in Item : t.used[x] <=> used[x] /\ \A i \in 1 .. c : s[i] # x

\* One more turn drops one more item, unless the list is at its end or at a
\* node that stays.
LEMMA DropNext ==
  ASSUME NEW s, NEW L, Holds(s, L), NEW c, NEW t, Dropped(s, L, c, t)
  PROVE  /\ c = L \/ ~node[s[c + 1]].group => DropStep(t) = t
         /\ ~(c = L \/ ~node[s[c + 1]].group) =>
              Dropped(s, L, c + 1, DropStep(t))
<1>1. /\ L \in Nat /\ s \in [1 .. L -> Item]
      /\ \A i \in 1 .. L : next[s[i]] = At(s, L, i + 1)
  BY HoldsChain
<1>2. \A i \in 1 .. L : s[i] \in Item /\ s[i] # Null
  BY <1>1 DEF Item, Null
<1>3. t \in DropState /\ c \in 0 .. L
  BY DEF Dropped
<1>4. CASE c = L
  <2>1. t.head = Null
    BY <1>1, <1>4 DEF Dropped, At
  <2> QED
    BY <1>3, <1>4, <2>1, DropStepIs
<1>5. CASE c # L /\ ~node[s[c + 1]].group
  <2>1. t.head = s[c + 1]
    BY <1>1, <1>3, <1>5 DEF Dropped, At
  <2> QED
    BY <1>3, <1>5, <2>1, DropStepIs
<1>6. CASE c # L /\ node[s[c + 1]].group
  <2>1. c + 1 \in 1 .. L /\ c + 1 \in 0 .. L
    BY <1>1, <1>3, <1>6
  <2>2. t.head = s[c + 1] /\ t.next = next
    BY <2>1 DEF Dropped, At
  <2>3. /\ DropStep(t) \in DropState
        /\ DropStep(t).head = next[s[c + 1]]
        /\ DropStep(t).used = [t.used EXCEPT ![s[c + 1]] = FALSE]
        /\ DropStep(t).next = next
    BY <1>2, <1>3, <1>6, <2>1, <2>2, DropStepIs
  <2>4. \A i \in 1 .. c + 1 : i = c + 1 \/ i \in 1 .. c
    BY <1>3
  <2>5. \A i \in 1 .. c : i \in 1 .. c + 1
    BY <1>3
  <2>6. ASSUME NEW x \in Item
        PROVE  DropStep(t).used[x] <=>
                 used[x] /\ \A i \in 1 .. c + 1 : s[i] # x
    <3>1. t.used \in [Item -> BOOLEAN]
      BY <1>3 DEF DropState
    <3>2. DropStep(t).used[x] <=> t.used[x] /\ s[c + 1] # x
      BY <1>2, <2>1, <2>3, <3>1
    <3>3. c + 1 \in 1 .. c + 1
      BY <1>3
    <3> QED
      BY <2>4, <2>5, <3>2, <3>3 DEF Dropped
  <2>7. \A i \in 1 .. c + 1 : node[s[i]].group
    BY <1>6, <2>4 DEF Dropped
  <2>8. DropStep(t).head = At(s, L, (c + 1) + 1)
    BY <1>1, <2>1, <2>3
  <2>9. Dropped(s, L, c + 1, DropStep(t))
    BY <2>1, <2>3, <2>6, <2>7, <2>8 DEF Dropped
  <2> QED
    BY <1>6, <2>9
<1> QED
  BY <1>4, <1>5, <1>6

\* The first loop drops the leading members, all of them: it has as many turns
\* as the pool has items.
LEMMA DropLeadingRight ==
  ASSUME NEW s, NEW L, Holds(s, L), NEW t,
         t = [head |-> head, used |-> used, next |-> next]
  PROVE  \E c : /\ Dropped(s, L, c, DropLeading(t))
                /\ c = L \/ ~node[s[c + 1]].group
<1>1. /\ L \in Nat /\ L <= QueueMax /\ QueueMax \in Nat
      /\ s \in [1 .. L -> Item] /\ head = At(s, L, 1)
  BY HoldsChain
<1>2. Dropped(s, L, 0, t)
  <2>1. head \in Item \cup {Null}
    BY <1>1 DEF At
  <2>2. t \in DropState
    BY <2>1 DEF Holds, PoolOK, DropState
  <2> QED
    BY <1>1, <2>2 DEF Dropped
<1>3. t \in DropState
  BY <1>2 DEF Dropped
<1>4. PICK f : /\ f \in [0 .. QueueMax -> DropState] /\ f[0] = t
               /\ \A k \in 1 .. QueueMax : f[k] = DropStep(f[k - 1])
               /\ DropLeading(t) = f[QueueMax]
  BY <1>3, DropTurns
<1> DEFINE Stop(c) == c = L \/ ~node[s[c + 1]].group
           T == {k \in 0 .. QueueMax :
                   \E c : Dropped(s, L, c, f[k]) /\ (c = k \/ Stop(c))}
<1>5. 0 \in T
  BY <1>1, <1>2, <1>4
<1>6. ASSUME NEW k \in 0 .. QueueMax, k + 1 <= QueueMax, k \in T
      PROVE  k + 1 \in T
  <2>1. PICK c : Dropped(s, L, c, f[k]) /\ (c = k \/ Stop(c))
    BY <1>6
  <2>2. k + 1 \in 1 .. QueueMax /\ k + 1 \in 0 .. QueueMax /\ (k + 1) - 1 = k
    BY <1>1, <1>6
  <2>3. f[k + 1] = DropStep(f[k])
    BY <1>4, <2>2
  <2> HIDE DEF Stop
  <2>4. CASE Stop(c)
    <3>1. f[k + 1] = f[k]
      BY <2>1, <2>3, <2>4, DropNext DEF Stop
    <3> QED
      BY <2>1, <2>2, <2>4, <3>1
  <2>5. CASE ~Stop(c)
    <3>1. c + 1 = k + 1
      BY <2>1, <2>5
    <3>2. Dropped(s, L, c + 1, f[k + 1])
      BY <2>1, <2>3, <2>5, DropNext DEF Stop
    <3> QED
      BY <2>2, <3>1, <3>2
  <2> QED
    BY <2>4, <2>5
<1> HIDE DEF T, Stop
<1>7. QueueMax \in T
  <2>1. \A k \in 0 .. QueueMax : k + 1 <= QueueMax /\ k \in T => k + 1 \in T
    BY <1>6
  <2>2. \A k \in 0 .. QueueMax : k \in T
    BY <1>1, <1>5, <2>1, Induct
  <2> QED
    BY <1>1, <2>2
<1>8. PICK c : Dropped(s, L, c, f[QueueMax]) /\ (c = QueueMax \/ Stop(c))
  BY <1>7 DEF T
<1>9. c = QueueMax => c = L
  BY <1>1, <1>8 DEF Dropped
<1> QED
  BY <1>4, <1>8, <1>9 DEF Stop

-----------------------------------------------------------------------------
(* Unlinking the members behind a node that stays.                          *)

\* Of the nodes that stay, the one at k is the next behind the one at i.
Follows(s, L, i, k) ==
  /\ ~node[s[i]].group /\ ~node[s[k]].group /\ i < k
  /\ \A h \in 1 .. L : i < h /\ h < k => node[s[h]].group

\* The list is done as far as place d, where l is the last node that stays.
Unlinked(s, L, d, l, t) ==
  /\ t \in BehindState /\ d \in 1 .. L /\ l \in 1 .. d
  /\ ~node[s[l]].group /\ t.p = s[l]
  /\ \A i \in 1 .. d : l < i => node[s[i]].group
  /\ t.next[s[l]] = At(s, L, d + 1)
  /\ \A i \in 1 .. L : d < i => t.next[s[i]] = At(s, L, i + 1)
  /\ \A i, k \in 1 .. l : Follows(s, L, i, k) => t.next[s[i]] = s[k]
  /\ \A x \in Item : t.used[x] <=>
       used[x] /\ \A i \in 1 .. d : node[s[i]].group => s[i] # x

\* One more turn does one more place, unless the list is at its end.
LEMMA UnlinkNext ==
  ASSUME NEW s, NEW L, Holds(s, L), NEW d, NEW l, NEW t, Unlinked(s, L, d, l, t)
  PROVE  /\ d = L => BehindStep(t) = t
         /\ d # L => \E m : Unlinked(s, L, d + 1, m, BehindStep(t))
<1>1. /\ L \in Nat /\ s \in [1 .. L -> Item]
      /\ \A i, j \in 1 .. L : s[i] = s[j] => i = j
  BY HoldsChain
<1>2. \A i \in 1 .. L : s[i] \in Item /\ s[i] # Null
  BY <1>1 DEF Item, Null
<1>3. /\ t \in BehindState /\ d \in 1 .. L /\ l \in 1 .. d /\ l \in 1 .. L
      /\ t.p = s[l] /\ t.next[t.p] = At(s, L, d + 1)
      /\ ~node[s[l]].group
  BY <1>1 DEF Unlinked
<1>4. CASE d = L
  <2>1. t.next[t.p] = Null
    BY <1>1, <1>3, <1>4 DEF At
  <2> QED
    BY <1>3, <1>4, <2>1, BehindStepIs
<1>5. CASE d # L
  <2>1. /\ d + 1 \in 1 .. L /\ d + 1 # l /\ d < d + 1
        /\ l \in 1 .. d + 1 /\ d + 1 \in 1 .. d + 1
        /\ \A i \in 1 .. d : i \in 1 .. d + 1
        /\ \A i \in 1 .. d + 1 : i = d + 1 \/ i \in 1 .. d
        /\ \A i \in 1 .. L : d + 1 < i => d < i /\ i # d + 1 /\ i # l
    BY <1>1, <1>3, <1>5
  <2>2. t.next[t.p] = s[d + 1]
    BY <1>3, <2>1 DEF At
  <2>3. t.p # Null /\ s[d + 1] # Null
    BY <1>2, <1>3, <2>1
  <2>4. t.next[s[d + 1]] = At(s, L, (d + 1) + 1)
    BY <2>1 DEF Unlinked
  <2>5. /\ t.used \in [Item -> BOOLEAN]
        /\ t.next \in [Item -> Item \cup {Null}]
    BY <1>3 DEF BehindState
  <2> DEFINE u == BehindStep(t)
  <2>6. CASE node[s[d + 1]].group
    <3>1. /\ u \in BehindState
          /\ u.p = t.p
          /\ u.used = [t.used EXCEPT ![s[d + 1]] = FALSE]
          /\ u.next = [t.next EXCEPT ![t.p] = t.next[s[d + 1]]]
      BY <1>3, <2>2, <2>3, <2>6, BehindStepIs
    <3> HIDE DEF u
    <3>2. u.next[s[l]] = At(s, L, (d + 1) + 1)
      BY <1>2, <1>3, <2>4, <2>5, <3>1
    <3>3. \A i \in 1 .. L : i # l => u.next[s[i]] = t.next[s[i]]
      BY <1>1, <1>2, <1>3, <2>5, <3>1
    <3>4. \A i \in 1 .. L : d + 1 < i => u.next[s[i]] = At(s, L, i + 1)
      BY <2>1, <3>3 DEF Unlinked
    <3>5. ASSUME NEW i \in 1 .. l, NEW k \in 1 .. l, Follows(s, L, i, k)
          PROVE  u.next[s[i]] = s[k]
      <4>1. i \in 1 .. L /\ i # l
        BY <1>1, <1>3, <3>5 DEF Follows
      <4>2. t.next[s[i]] = s[k]
        BY <3>5 DEF Unlinked
      <4> QED
        BY <3>3, <4>1, <4>2
    <3>6. ASSUME NEW x \in Item
          PROVE  u.used[x] <=>
                   used[x] /\ \A i \in 1 .. d + 1 :
                                node[s[i]].group => s[i] # x
      <4>1. u.used[x] <=> t.used[x] /\ s[d + 1] # x
        BY <1>2, <2>1, <2>5, <3>1
      <4>2. t.used[x] <=>
              used[x] /\ \A i \in 1 .. d : node[s[i]].group => s[i] # x
        BY DEF Unlinked
      <4> QED
        BY <2>1, <2>6, <4>1, <4>2
    <3>7. \A i \in 1 .. d + 1 : l < i => node[s[i]].group
      BY <2>1, <2>6 DEF Unlinked
    <3>8. Unlinked(s, L, d + 1, l, u)
      BY <1>3, <2>1, <3>1, <3>2, <3>4, <3>5, <3>6, <3>7 DEF Unlinked
    <3> QED
      BY <1>5, <3>8 DEF u
  <2>7. CASE ~node[s[d + 1]].group
    <3>1. /\ u \in BehindState
          /\ u.p = s[d + 1] /\ u.used = t.used /\ u.next = t.next
      BY <1>3, <2>2, <2>3, <2>7, BehindStepIs
    <3> HIDE DEF u
    <3>2. u.next[s[d + 1]] = At(s, L, (d + 1) + 1)
      BY <2>4, <3>1
    <3>3. \A i \in 1 .. L : d + 1 < i => u.next[s[i]] = At(s, L, i + 1)
      BY <2>1, <3>1 DEF Unlinked
    <3>4. ASSUME NEW i \in 1 .. d + 1, NEW k \in 1 .. d + 1,
                 Follows(s, L, i, k)
          PROVE  u.next[s[i]] = s[k]
      <4>1. i \in 1 .. d /\ i < k /\ ~node[s[i]].group /\ ~node[s[k]].group
        BY <1>3, <3>4 DEF Follows
      <4>2. i \in 1 .. l
        BY <1>1, <1>3, <4>1 DEF Unlinked
      <4>3. CASE k = d + 1
        <5>1. i = l
          BY <1>1, <1>3, <3>4, <4>2, <4>3 DEF Follows
        <5> QED
          BY <1>3, <2>2, <3>1, <4>3, <5>1
      <4>4. CASE k # d + 1
        <5>1. k \in 1 .. d
          BY <2>1, <4>4
        <5>2. k \in 1 .. l
          BY <1>1, <1>3, <4>1, <5>1 DEF Unlinked
        <5> QED
          BY <3>1, <3>4, <4>2, <5>2 DEF Unlinked
      <4> QED
        BY <4>3, <4>4
    <3>5. ASSUME NEW x \in Item
          PROVE  u.used[x] <=>
                   used[x] /\ \A i \in 1 .. d + 1 :
                                node[s[i]].group => s[i] # x
      <4>1. t.used[x] <=>
              used[x] /\ \A i \in 1 .. d : node[s[i]].group => s[i] # x
        BY DEF Unlinked
      <4> QED
        BY <2>1, <2>7, <3>1, <4>1
    <3>6. \A i \in 1 .. d + 1 : d + 1 < i => node[s[i]].group
      BY <1>3
    <3>7. Unlinked(s, L, d + 1, d + 1, u)
      BY <2>1, <2>7, <3>1, <3>2, <3>3, <3>4, <3>5, <3>6 DEF Unlinked
    <3> QED
      BY <1>5, <3>7 DEF u
  <2> QED
    BY <2>6, <2>7
<1> QED
  BY <1>4, <1>5

\* The second loop reaches the end of the list.
LEMMA UnlinkBehindRight ==
  ASSUME NEW s, NEW L, Holds(s, L), NEW c, NEW l, NEW t, Unlinked(s, L, c, l, t)
  PROVE  \E m : Unlinked(s, L, L, m, UnlinkBehind(t))
<1>1. L \in Nat /\ L <= QueueMax /\ QueueMax \in Nat
  BY HoldsChain
<1>2. t \in BehindState /\ c \in 1 .. L
  BY DEF Unlinked
<1>3. PICK f : /\ f \in [0 .. QueueMax -> BehindState] /\ f[0] = t
               /\ \A k \in 1 .. QueueMax : f[k] = BehindStep(f[k - 1])
               /\ UnlinkBehind(t) = f[QueueMax]
  BY <1>2, BehindTurns
<1> DEFINE T == {k \in 0 .. QueueMax :
                   \E d, m : Unlinked(s, L, d, m, f[k]) /\ (d = c + k \/ d = L)}
<1>4. 0 \in T
  BY <1>1, <1>2, <1>3
<1>5. ASSUME NEW k \in 0 .. QueueMax, k + 1 <= QueueMax, k \in T
      PROVE  k + 1 \in T
  <2>1. PICK d, m : Unlinked(s, L, d, m, f[k]) /\ (d = c + k \/ d = L)
    BY <1>5
  <2>2. k + 1 \in 1 .. QueueMax /\ k + 1 \in 0 .. QueueMax /\ (k + 1) - 1 = k
    BY <1>1, <1>5
  <2>3. f[k + 1] = BehindStep(f[k])
    BY <1>3, <2>2
  <2>4. CASE d = L
    BY <2>1, <2>2, <2>3, <2>4, UnlinkNext
  <2>5. CASE d # L
    <3>1. PICK h : Unlinked(s, L, d + 1, h, f[k + 1])
      BY <2>1, <2>3, <2>5, UnlinkNext
    <3>2. d + 1 = c + (k + 1)
      BY <1>2, <2>1, <2>5
    <3> QED
      BY <2>2, <3>1, <3>2
  <2> QED
    BY <2>4, <2>5
<1> HIDE DEF T
<1>6. QueueMax \in T
  <2>1. \A k \in 0 .. QueueMax : k + 1 <= QueueMax /\ k \in T => k + 1 \in T
    BY <1>5
  <2>2. \A k \in 0 .. QueueMax : k \in T
    BY <1>1, <1>4, <2>1, Induct
  <2> QED
    BY <1>1, <2>2
<1>7. PICK d, m : /\ Unlinked(s, L, d, m, f[QueueMax])
                  /\ d = c + QueueMax \/ d = L
  BY <1>6 DEF T
<1>8. d = L
  BY <1>1, <1>2, <1>7 DEF Unlinked
<1> QED
  BY <1>3, <1>7, <1>8

\* Nothing is behind the end of a list.
LEMMA UnlinkNothing ==
  ASSUME NEW t \in BehindState, t.p = Null
  PROVE  UnlinkBehind(t) = t
<1>1. PICK f : /\ f \in [0 .. QueueMax -> BehindState] /\ f[0] = t
               /\ \A k \in 1 .. QueueMax : f[k] = BehindStep(f[k - 1])
               /\ UnlinkBehind(t) = f[QueueMax]
  BY BehindTurns
<1>2. BehindStep(t) = t
  BY BehindStepIs
<1>3. QueueMax \in Nat
  BY PoolAssumption
<1> DEFINE T == {k \in 0 .. QueueMax : f[k] = t}
<1>4. 0 \in T
  BY <1>1, <1>3
<1>5. ASSUME NEW k \in 0 .. QueueMax, k + 1 <= QueueMax, k \in T
      PROVE  k + 1 \in T
  <2>1. k + 1 \in 1 .. QueueMax /\ k + 1 \in 0 .. QueueMax /\ (k + 1) - 1 = k
    BY <1>3, <1>5
  <2>2. f[k + 1] = BehindStep(f[k]) /\ f[k] = t
    BY <1>1, <1>5, <2>1
  <2> QED
    BY <1>2, <2>1, <2>2
<1> HIDE DEF T
<1>6. \A k \in 0 .. QueueMax : k \in T
  <2>1. \A k \in 0 .. QueueMax : k + 1 <= QueueMax /\ k \in T => k + 1 \in T
    BY <1>5
  <2> QED
    BY <1>3, <1>4, <2>1, Induct
<1>7. f[QueueMax] = t
  BY <1>3, <1>6 DEF T
<1> QED
  BY <1>1, <1>7

\* The places of the nodes that stay.
Staying(s, L) == {i \in 1 .. L : ~node[s[i]].group}

\* What delete_group_member leaves: the nodes that stay, each linked to the next
\* of them, and only their items used.
LEMMA DeleteGroupLinks ==
  ASSUME NEW s, NEW L, Holds(s, L), DeleteGroup,
         NEW S, S = Staying(s, L)
  PROVE  /\ PoolOK' /\ node' = node
         /\ \A x \in Item : used'[x] <=> \E i \in S : s[i] = x
         /\ S = {} => head' = Null /\ tail' = Null
         /\ \A i \in S : (\A k \in S : i <= k) => head' = s[i]
         /\ \A i \in S : (\A k \in S : k <= i) =>
              tail' = s[i] /\ next'[s[i]] = Null
         /\ \A i, k \in S : i < k /\ (\A h \in S : h <= i \/ k <= h) =>
              next'[s[i]] = s[k]
<1>0. S = {i \in 1 .. L : ~node[s[i]].group}
  BY DEF Staying
<1>1. /\ L \in Nat /\ s \in [1 .. L -> Item]
      /\ \A i, j \in 1 .. L : s[i] = s[j] => i = j
      /\ \A i \in 1 .. L : next[s[i]] = At(s, L, i + 1)
  BY HoldsChain
<1>2. \A i \in 1 .. L : s[i] \in Item /\ s[i] # Null
  BY <1>1 DEF Item, Null
<1>3. PICK t0 : t0 = [head |-> head, used |-> used, next |-> next]
  OBVIOUS
<1>4. PICK t1 : t1 = DropLeading(t0)
  OBVIOUS
<1>5. PICK t2 : t2 = [p |-> t1.head, used |-> t1.used, next |-> t1.next]
  OBVIOUS
<1>6. PICK t3 : t3 = UnlinkBehind(t2)
  OBVIOUS
<1>7. head' = t1.head /\ tail' = t3.p /\ used' = t3.used /\ next' = t3.next
      /\ node' = node
  BY <1>3, <1>4, <1>5, <1>6 DEF DeleteGroup
<1>8. PICK c : Dropped(s, L, c, t1) /\ (c = L \/ ~node[s[c + 1]].group)
  BY <1>3, <1>4, DropLeadingRight
<1>9. /\ t1 \in DropState /\ c \in 0 .. L
      /\ t1.head = At(s, L, c + 1) /\ t1.next = next
      /\ \A i \in 1 .. c : node[s[i]].group
      /\ \A x \in Item : t1.used[x] <=> used[x] /\ \A i \in 1 .. c : s[i] # x
  BY <1>8 DEF Dropped
<1>10. t2 \in BehindState /\ t2.p = t1.head /\ t2.used = t1.used
       /\ t2.next = next
  BY <1>5, <1>9 DEF DropState, BehindState
<1>11. \A x \in Item : used[x] <=> \E i \in 1 .. L : s[i] = x
  BY DEF Holds
<1>12. CASE c = L
  <2>1. S = {}
    BY <1>0, <1>9, <1>12
  <2>2. t1.head = Null
    BY <1>1, <1>9, <1>12 DEF At
  <2>3. t3 = t2
    BY <1>6, <1>10, <2>2, UnlinkNothing
  <2>4. PoolOK'
    BY <1>7, <1>10, <2>3 DEF Holds, PoolOK, BehindState
  <2>5. ASSUME NEW x \in Item PROVE ~used'[x]
    <3>1. used'[x] = t1.used[x]
      BY <1>7, <1>10, <2>3
    <3>2. t1.used[x] <=> used[x] /\ \A i \in 1 .. L : s[i] # x
      BY <1>9, <1>12
    <3>3. used[x] <=> \E i \in 1 .. L : s[i] = x
      BY <1>11
    <3> QED
      BY <3>1, <3>2, <3>3
  <2> QED
    BY <1>7, <1>10, <2>1, <2>2, <2>3, <2>4, <2>5
<1>13. CASE c # L
  <2>1. c + 1 \in 1 .. L /\ ~node[s[c + 1]].group
    BY <1>1, <1>8, <1>9, <1>13
  <2>2. t1.head = s[c + 1]
    BY <1>9, <2>1 DEF At
  <2>3. Unlinked(s, L, c + 1, c + 1, t2)
    <3>1. /\ c + 1 \in 1 .. c + 1
          /\ \A i \in 1 .. c + 1 : ~(c + 1 < i) /\ (i = c + 1 \/ i \in 1 .. c)
          /\ \A i \in 1 .. c : i \in 1 .. c + 1
      BY <1>9
    <3>2. /\ t2.next[s[c + 1]] = At(s, L, (c + 1) + 1)
          /\ \A i \in 1 .. L : c + 1 < i => t2.next[s[i]] = At(s, L, i + 1)
      BY <1>1, <1>10, <2>1
    <3>3. ASSUME NEW i \in 1 .. c + 1, NEW k \in 1 .. c + 1,
                 Follows(s, L, i, k)
          PROVE  FALSE
      <4>1. i < k /\ ~node[s[i]].group
        BY <3>3 DEF Follows
      <4>2. i \in 1 .. c
        BY <1>9, <4>1
      <4> QED
        BY <1>9, <4>1, <4>2
    <3>4. ASSUME NEW x \in Item
          PROVE  t2.used[x] <=>
                   used[x] /\ \A i \in 1 .. c + 1 :
                                node[s[i]].group => s[i] # x
      <4>1. t2.used[x] <=> used[x] /\ \A i \in 1 .. c : s[i] # x
        BY <1>9, <1>10
      <4>2. \A i \in 1 .. c : node[s[i]].group
        BY <1>9
      <4> QED
        BY <2>1, <3>1, <4>1, <4>2
    <3> QED
      BY <1>10, <2>1, <2>2, <3>1, <3>2, <3>3, <3>4 DEF Unlinked
  <2>4. PICK m : Unlinked(s, L, L, m, t3)
    BY <1>6, <2>3, UnlinkBehindRight
  <2>5. /\ t3 \in BehindState /\ m \in 1 .. L /\ ~node[s[m]].group
        /\ t3.p = s[m] /\ t3.next[s[m]] = At(s, L, L + 1)
        /\ \A i \in 1 .. L : m < i => node[s[i]].group
        /\ \A i, k \in 1 .. m : Follows(s, L, i, k) => t3.next[s[i]] = s[k]
        /\ \A x \in Item : t3.used[x] <=>
             used[x] /\ \A i \in 1 .. L : node[s[i]].group => s[i] # x
    BY <2>4 DEF Unlinked
  <2>6. PoolOK'
    BY <1>7, <2>5 DEF Holds, PoolOK, BehindState
  <2>7. ASSUME NEW x \in Item
        PROVE  used'[x] <=> \E i \in S : s[i] = x
    <3>1. used'[x] <=>
            used[x] /\ \A i \in 1 .. L : node[s[i]].group => s[i] # x
      BY <1>7, <2>5
    <3>2. used[x] <=> \E i \in 1 .. L : s[i] = x
      BY <1>11
    <3>3. CASE used[x]
      <4>1. PICK i \in 1 .. L : s[i] = x
        BY <3>2, <3>3
      <4>2. \A j \in 1 .. L : s[j] = x => j = i
        BY <1>1, <4>1
      <4> QED
        BY <1>0, <3>1, <3>3, <4>1, <4>2
    <3>4. CASE ~used[x]
      BY <1>0, <3>1, <3>2, <3>4
    <3> QED
      BY <3>3, <3>4
  <2>8. c + 1 \in S /\ m \in S
    BY <1>0, <2>1, <2>5
  <2>9. ASSUME NEW i \in S, \A k \in S : i <= k PROVE head' = s[i]
    <3>1. i <= c + 1 /\ i \in 1 .. L /\ ~node[s[i]].group
      BY <1>0, <2>8, <2>9
    <3>2. i \notin 1 .. c
      BY <1>9, <3>1
    <3>3. i = c + 1
      BY <1>9, <3>1, <3>2
    <3> QED
      BY <1>7, <2>2, <3>3
  <2>10. ASSUME NEW i \in S, \A k \in S : k <= i
         PROVE  tail' = s[i] /\ next'[s[i]] = Null
    <3>1. m <= i /\ i \in 1 .. L /\ ~node[s[i]].group
      BY <1>0, <2>8, <2>10
    <3>2. i = m
      BY <2>5, <3>1
    <3> QED
      BY <1>1, <1>7, <2>5, <3>2 DEF At
  <2>11. ASSUME NEW i \in S, NEW k \in S, i < k,
                \A h \in S : h <= i \/ k <= h
         PROVE  next'[s[i]] = s[k]
    <3>1. /\ i \in 1 .. L /\ k \in 1 .. L
          /\ ~node[s[i]].group /\ ~node[s[k]].group
      BY <1>0
    <3>2. i \in 1 .. m /\ k \in 1 .. m
      BY <1>1, <2>5, <3>1
    <3>3. Follows(s, L, i, k)
      <4>1. ASSUME NEW h \in 1 .. L, i < h, h < k PROVE h \notin S
        BY <2>11, <3>1, <4>1
      <4> QED
        BY <1>0, <2>11, <3>1, <4>1 DEF Follows
    <3> QED
      BY <1>7, <2>5, <3>2, <3>3
  <2> QED
    BY <1>7, <2>6, <2>7, <2>8, <2>9, <2>10, <2>11
<1> QED
  BY <1>12, <1>13

-----------------------------------------------------------------------------
(* The places of the nodes that stay.                                       *)

\* The abstract queue counts as this module does.
LEMMA SameCardinality == \A S : Todo!Cardinality(S) = Cardinality(S)
BY DEF Todo!Cardinality, Cardinality

\* The rank of a node that stays is its place in the shorter list: the first has
\* rank 1, the last the number of them, and the next has the next rank.
LEMMA RankOrder ==
  ASSUME NEW L \in Nat, NEW S \in SUBSET (1 .. L)
  PROVE  /\ Cardinality(S) \in Nat /\ Cardinality(S) <= L
         /\ \A j \in 1 .. Cardinality(S) : \E i \in S : Todo!Rank(S, i) = j
         /\ \A i, k \in S : Todo!Rank(S, i) = Todo!Rank(S, k) => i = k
         /\ \A i \in S : Todo!Rank(S, i) \in 1 .. Cardinality(S)
         /\ \A i \in S : (\A k \in S : i <= k) => Todo!Rank(S, i) = 1
         /\ \A i \in S : (\A k \in S : k <= i) =>
              Todo!Rank(S, i) = Cardinality(S)
         /\ \A i, k \in S : i < k /\ (\A h \in S : h <= i \/ k <= h) =>
              Todo!Rank(S, k) = Todo!Rank(S, i) + 1
<1> DEFINE Below(i) == {k \in S : k <= i}
           T == 1 .. Cardinality(S)
           f == [i \in S |-> Cardinality(Below(i))]
<1>0. \A i \in S : i \in Int
  OBVIOUS
<1>1. \A i : Todo!Rank(S, i) = Cardinality(Below(i))
  BY SameCardinality DEF Todo!Rank
<1>2. IsFiniteSet(S) /\ Cardinality(S) \in Nat /\ Cardinality(S) <= L
  <2>1. IsFiniteSet(1 .. L) /\ Cardinality(1 .. L) = L
    BY FS_Interval
  <2> QED
    BY <2>1, FS_Subset, FS_CardinalityType
<1>3. ASSUME NEW i \in S
      PROVE  /\ IsFiniteSet(Below(i)) /\ Cardinality(Below(i)) \in Nat
             /\ Cardinality(Below(i)) \in T
  <2>1. Below(i) \in SUBSET S /\ i \in Below(i)
    BY <1>0
  <2>2. /\ IsFiniteSet(Below(i)) /\ Cardinality(Below(i)) \in Nat
        /\ Cardinality(Below(i)) <= Cardinality(S)
    BY <1>2, <2>1, FS_Subset, FS_CardinalityType
  <2>3. Cardinality(Below(i)) # 0
    BY <2>1, <2>2, FS_EmptySet
  <2> QED
    BY <1>2, <2>2, <2>3
<1>4. ASSUME NEW i \in S, \A k \in S : i <= k
      PROVE  Cardinality(Below(i)) = 1
  <2>1. \A k \in S : k <= i <=> k = i
    BY <1>0, <1>4
  <2>2. Below(i) = {i}
    BY <2>1
  <2> QED
    BY <2>2, FS_Singleton
<1>5. ASSUME NEW i \in S, \A k \in S : k <= i
      PROVE  Cardinality(Below(i)) = Cardinality(S)
  <2>1. Below(i) = S
    BY <1>5
  <2> QED
    BY <2>1
<1>6. ASSUME NEW i \in S, NEW k \in S, i < k, \A h \in S : h <= i \/ k <= h
      PROVE  Cardinality(Below(k)) = Cardinality(Below(i)) + 1
  <2>0. i \in Int /\ k \in Int
    BY <1>0
  <2>1. ASSUME NEW h \in S PROVE h <= k <=> h <= i \/ h = k
    <3>1. h \in Int /\ (h <= i \/ k <= h)
      BY <1>0, <1>6
    <3> QED
      BY <1>6, <2>0, <3>1
  <2>2. Below(k) = Below(i) \cup {k}
    BY <2>1
  <2>3. k \notin Below(i)
    BY <1>6, <2>0
  <2>4. IsFiniteSet(Below(i))
    BY <1>3
  <2> HIDE DEF Below
  <2> QED
    BY <2>2, <2>3, <2>4, FS_AddElement
<1>7. ASSUME NEW i \in S, NEW k \in S, i < k
      PROVE  Cardinality(Below(i)) # Cardinality(Below(k))
  <2>1. i \in Int /\ k \in Int
    BY <1>0
  <2>2. ASSUME NEW m \in Below(i) PROVE m \in Below(k)
    BY <1>0, <1>7, <2>1
  <2>3. k \in Below(k) /\ k \notin Below(i)
    BY <1>7, <2>1
  <2>4. IsFiniteSet(Below(k))
    BY <1>3
  <2> HIDE DEF Below
  <2>5. Below(i) \in SUBSET Below(k)
    BY <2>2
  <2> QED
    BY <2>3, <2>4, <2>5, FS_Subset
<1>8. ASSUME NEW i \in S, NEW k \in S,
             Cardinality(Below(i)) = Cardinality(Below(k))
      PROVE  i = k
  <2> HIDE DEF Below
  <2>1. ~(i < k) /\ ~(k < i)
    BY <1>7, <1>8
  <2> QED
    BY <1>0, <2>1
<1>9. \A j \in T : \E i \in S : Cardinality(Below(i)) = j
  <2>1. f \in Injection(S, T)
    BY <1>3, <1>8 DEF Injection, IsInjective
  <2>2. IsFiniteSet(T) /\ Cardinality(T) = Cardinality(S)
    BY <1>2, FS_Interval
  <2>3. f \in Surjection(S, T)
    BY <2>1, <2>2, FS_Injection
  <2> QED
    BY <2>3 DEF Surjection
<1> HIDE DEF Below, f
<1> QED
  BY <1>1, <1>2, <1>3, <1>4, <1>5, <1>6, <1>8, <1>9

\* Deleting the members of a group leaves the list of the nodes that stay.
LEMMA DeleteGroupStep ==
  ASSUME NEW s, NEW L, Holds(s, L), DeleteGroup
  PROVE  \E r, M : /\ Holds(r, M)'
                   /\ Content(r, M, node)'
                        = Todo!WithoutGroup(Content(s, L, node))
<1>0. PICK S : S = Staying(s, L)
  OBVIOUS
<1>1. S = {i \in 1 .. L : ~node[s[i]].group}
  BY <1>0 DEF Staying
<1> DEFINE M == Cardinality(S)
           Rank(i) == Todo!Rank(S, i)
           pick(j) == CHOOSE i \in S : Rank(i) = j
           r == [j \in 1 .. M |-> s[pick(j)]]
<1>2. /\ L \in Nat /\ s \in [1 .. L -> Item]
      /\ \A i, j \in 1 .. L : s[i] = s[j] => i = j
  BY HoldsChain
<1>3. S \in SUBSET (1 .. L)
  BY <1>1
<1>4. /\ PoolOK' /\ node' = node
      /\ \A x \in Item : used'[x] <=> \E i \in S : s[i] = x
      /\ S = {} => head' = Null /\ tail' = Null
      /\ \A i \in S : (\A k \in S : i <= k) => head' = s[i]
      /\ \A i \in S : (\A k \in S : k <= i) =>
           tail' = s[i] /\ next'[s[i]] = Null
      /\ \A i, k \in S : i < k /\ (\A h \in S : h <= i \/ k <= h) =>
           next'[s[i]] = s[k]
  BY <1>0, DeleteGroupLinks
<1>5. /\ M \in Nat
      /\ \A j \in 1 .. M : \E i \in S : Rank(i) = j
      /\ \A i, k \in S : Rank(i) = Rank(k) => i = k
      /\ \A i \in S : Rank(i) \in 1 .. M
      /\ \A i \in S : (\A k \in S : i <= k) => Rank(i) = 1
      /\ \A i \in S : (\A k \in S : k <= i) => Rank(i) = M
      /\ \A i, k \in S : i < k /\ (\A h \in S : h <= i \/ k <= h) =>
           Rank(k) = Rank(i) + 1
  BY <1>2, <1>3, RankOrder
<1> HIDE DEF M, Rank
<1>6. \A j \in 1 .. M : pick(j) \in S /\ Rank(pick(j)) = j
  BY <1>5
<1> HIDE DEF pick
<1>7. \A i \in S : pick(Rank(i)) = i
  BY <1>5, <1>6
<1>8. S \in SUBSET Nat
  BY <1>2, <1>3
<1>9. /\ r \in [1 .. M -> Item]
      /\ \A j \in 1 .. M : r[j] = s[pick(j)] /\ pick(j) \in 1 .. L
  BY <1>2, <1>3, <1>6
<1> HIDE DEF r
<1>10. ASSUME NEW i \in 1 .. M, NEW j \in 1 .. M, pick(i) = pick(j)
       PROVE  i = j
  BY <1>6, <1>10
<1>11. ASSUME NEW j \in 1 .. M
       PROVE  /\ j = M => \A k \in S : k <= pick(j)
              /\ j # M => /\ j + 1 \in 1 .. M /\ pick(j) < pick(j + 1)
                          /\ \A h \in S : h <= pick(j) \/ pick(j + 1) <= h
  <2> DEFINE U == {k \in S : pick(j) < k}
  <2>1. pick(j) \in S /\ pick(j) \in Nat /\ U \in SUBSET Nat
    BY <1>6, <1>8
  <2>2. CASE U = {}
    <3>1. \A k \in S : k <= pick(j)
      BY <1>8, <2>1, <2>2
    <3>2. j = M
      BY <1>5, <1>6, <2>1, <3>1
    <3> QED
      BY <3>1, <3>2
  <2>3. CASE U # {}
    <3>1. PICK k \in U : \A h \in U : k <= h
      BY <2>1, <2>3, Least
    <3>2. k \in S /\ pick(j) < k
      BY <3>1
    <3>3. \A h \in S : h <= pick(j) \/ k <= h
      BY <1>8, <2>1, <3>1
    <3>4. Rank(k) = j + 1
      BY <1>5, <1>6, <2>1, <3>2, <3>3
    <3>5. j + 1 \in 1 .. M /\ pick(j + 1) = k
      BY <1>5, <1>7, <3>2, <3>4
    <3>6. j # M
      BY <1>5, <3>5
    <3> QED
      BY <3>2, <3>3, <3>5, <3>6
  <2> QED
    BY <2>2, <2>3
<1>12. head' = At(r, M, 1)
  <2>1. CASE S = {}
    <3>1. 1 \notin 1 .. M
      BY <1>6, <2>1
    <3> QED
      BY <1>4, <2>1, <3>1 DEF At
  <2>2. CASE S # {}
    <3>1. PICK i \in S : \A k \in S : i <= k
      BY <1>8, <2>2, Least
    <3>2. Rank(i) = 1 /\ 1 \in 1 .. M /\ pick(1) = i
      BY <1>5, <1>7, <3>1
    <3>3. head' = s[i]
      BY <1>4, <3>1
    <3> QED
      BY <1>9, <3>2, <3>3 DEF At
  <2> QED
    BY <2>1, <2>2
<1>13. tail' = At(r, M, M)
  <2>1. CASE S = {}
    <3>1. M \notin 1 .. M
      BY <1>6, <2>1
    <3> QED
      BY <1>4, <2>1, <3>1 DEF At
  <2>2. CASE S # {}
    <3>1. M \in 1 .. M
      BY <1>5, <2>2
    <3>2. pick(M) \in S /\ \A k \in S : k <= pick(M)
      BY <1>6, <1>11, <3>1
    <3> QED
      BY <1>4, <1>9, <3>1, <3>2 DEF At
  <2> QED
    BY <2>1, <2>2
<1>14. ASSUME NEW j \in 1 .. M PROVE next'[r[j]] = At(r, M, j + 1)
  <2>1. CASE j = M
    <3>1. next'[s[pick(j)]] = Null
      BY <1>4, <1>6, <1>11, <2>1
    <3>2. j + 1 \notin 1 .. M
      BY <1>5, <2>1
    <3> QED
      BY <1>9, <3>1, <3>2 DEF At
  <2>2. CASE j # M
    <3>1. /\ j + 1 \in 1 .. M /\ pick(j) < pick(j + 1)
          /\ \A h \in S : h <= pick(j) \/ pick(j + 1) <= h
      BY <1>11, <2>2
    <3>2. pick(j) \in S /\ pick(j + 1) \in S
      BY <1>6, <3>1
    <3>3. next'[s[pick(j)]] = s[pick(j + 1)]
      BY <1>4, <3>1, <3>2
    <3> QED
      BY <1>9, <3>1, <3>3 DEF At
  <2> QED
    BY <2>1, <2>2
<1>15. \A i, j \in 1 .. M : r[i] = r[j] => i = j
  BY <1>2, <1>9, <1>10
<1>16. Chain(r, M, head', next')
  BY <1>5, <1>9, <1>12, <1>14, <1>15 DEF Chain
<1>17. ASSUME NEW x \in Item PROVE used'[x] <=> \E j \in 1 .. M : r[j] = x
  BY <1>4, <1>5, <1>6, <1>7, <1>9
<1>18. \A j \in 1 .. M : node'[r[j]] = node[s[pick(j)]]
  BY <1>4, <1>9
<1>19. \A j \in 1 .. M : node'[r[j]] \in Node
  BY <1>9, <1>18 DEF Holds
<1>20. \A i, j \in 1 .. M : node'[r[i]].addr = node'[r[j]].addr => i = j
  BY <1>9, <1>10, <1>18 DEF Holds
<1>21. Holds(r, M)'
  BY <1>4, <1>13, <1>16, <1>17, <1>19, <1>20 DEF Holds
<1>22. Content(r, M, node)' = Todo!WithoutGroup(Content(s, L, node))
  <2> DEFINE c == Content(s, L, node)
  <2>1. DOMAIN c = 1 .. L /\ \A i \in 1 .. L : c[i] = node[s[i]]
    BY ContentIs
  <2>2. Todo!Survivors(c) = S
    BY <1>1, <2>1 DEF Todo!Survivors
  <2>3. Todo!WithoutGroup(c) = [j \in 1 .. M |-> c[pick(j)]]
    BY <2>2, SameCardinality DEF Todo!WithoutGroup, M, pick, Rank
  <2>4. \A j \in 1 .. M : c[pick(j)] = node'[r[j]]
    BY <1>9, <1>18, <2>1
  <2> HIDE DEF c
  <2>5. Todo!WithoutGroup(c) = [j \in 1 .. M |-> node'[r[j]]]
    BY <2>3, <2>4
  <2> QED
    BY <2>5 DEF Content, c
<1> QED
  BY <1>21, <1>22

-----------------------------------------------------------------------------
(* Every step.                                                              *)

\* The reading operators, wherever the list stands.
Reads ==
  \A x, M : Holds(x, M) =>
    Walk = Content(x, M, node) /\ ListWellFormed /\ PoolExact /\ TypeOK

\* As a fact of every state, so that it can be had of the next one.
LEMMA ReadsAll == Reads
BY ReadsRight DEF Reads

\* Both insertions, done to the list as to the sequence.
LEMMA InsertNormalStep ==
  ASSUME NEW s, NEW L, Holds(s, L), NEW n \in Node, InsertNormal(n)
  PROVE  \E r, K : /\ Holds(r, K)'
                   /\ Content(r, K, node)'
                        = Todo!InsertNormal(Content(s, L, node), n)
<1> DEFINE c == Content(s, L, node)
<1>1. n.plan # {}
  BY DEF InsertNormal
<1>2. Len(c) = L /\ L \in Nat
  BY ContentIs, HoldsChain
<1>3. CASE FindItem(n.addr) # Null
  <2>1. MergeInto(FindItem(n.addr), n)
    BY <1>3 DEF InsertNormal
  <2>2. /\ Holds(s, L)' /\ Todo!Queued(c, n.addr)
        /\ Content(s, L, node)' = Todo!Merge(c, n)
    BY <1>3, <2>1, MergeStep
  <2>3. Todo!InsertNormal(c, n) = Todo!Merge(c, n)
    BY <1>1, <2>2 DEF Todo!InsertNormal, Todo!Insert
  <2> QED
    BY <2>2, <2>3
<1>4. CASE FindItem(n.addr) = Null
  <2>1. ~Todo!Queued(c, n.addr) /\ (MallocItem # Null <=> L < QueueMax)
    BY <1>4, FreshItem
  <2>2. CASE MallocItem = Null
    <3>1. UNCHANGED vars
      BY <1>4, <2>2 DEF InsertNormal
    <3>2. Holds(s, L)' /\ Content(s, L, node)' = c
      BY <3>1 DEF vars, Holds, PoolOK, Chain, At, Content
    <3>3. Todo!InsertNormal(c, n) = c
      BY <1>1, <1>2, <2>1, <2>2 DEF Todo!InsertNormal, Todo!Insert
    <3> QED
      BY <3>2, <3>3
  <2>3. CASE MallocItem # Null
    <3>1. PICK r : Holds(r, L + 1)' /\ Content(r, L + 1, node)' = Append(c, n)
      BY <1>4, <2>3, AppendStep
    <3>2. Todo!InsertNormal(c, n) = Append(c, n)
      BY <1>1, <1>2, <2>1, <2>3 DEF Todo!InsertNormal, Todo!Insert
    <3> QED
      BY <3>1, <3>2
  <2> QED
    BY <2>2, <2>3
<1> QED
  BY <1>3, <1>4

\* The same at the front.
LEMMA InsertForceStep ==
  ASSUME NEW s, NEW L, Holds(s, L), NEW n \in Node, InsertForce(n)
  PROVE  \E r, K : /\ Holds(r, K)'
                   /\ Content(r, K, node)'
                        = Todo!InsertForce(Content(s, L, node), n)
<1> DEFINE c == Content(s, L, node)
<1>1. n.plan # {}
  BY DEF InsertForce
<1>2. Len(c) = L /\ L \in Nat
  BY ContentIs, HoldsChain
<1>3. CASE FindItem(n.addr) # Null
  <2>1. MergeInto(FindItem(n.addr), n)
    BY <1>3 DEF InsertForce
  <2>2. /\ Holds(s, L)' /\ Todo!Queued(c, n.addr)
        /\ Content(s, L, node)' = Todo!Merge(c, n)
    BY <1>3, <2>1, MergeStep
  <2>3. Todo!InsertForce(c, n) = Todo!Merge(c, n)
    BY <1>1, <2>2 DEF Todo!InsertForce, Todo!Insert
  <2> QED
    BY <2>2, <2>3
<1>4. CASE FindItem(n.addr) = Null
  <2>1. ~Todo!Queued(c, n.addr) /\ (MallocItem # Null <=> L < QueueMax)
    BY <1>4, FreshItem
  <2>2. CASE MallocItem = Null
    <3>1. UNCHANGED vars
      BY <1>4, <2>2 DEF InsertForce
    <3>2. Holds(s, L)' /\ Content(s, L, node)' = c
      BY <3>1 DEF vars, Holds, PoolOK, Chain, At, Content
    <3>3. Todo!InsertForce(c, n) = c
      BY <1>1, <1>2, <2>1, <2>2 DEF Todo!InsertForce, Todo!Insert
    <3> QED
      BY <3>2, <3>3
  <2>3. CASE MallocItem # Null
    <3>1. PICK r : Holds(r, L + 1)' /\ Content(r, L + 1, node)' = <<n>> \o c
      BY <1>4, <2>3, PrependStep
    <3>2. Todo!InsertForce(c, n) = <<n>> \o c
      BY <1>1, <1>2, <2>1, <2>3 DEF Todo!InsertForce, Todo!Insert
    <3> QED
      BY <3>1, <3>2
  <2> QED
    BY <2>2, <2>3
<1> QED
  BY <1>3, <1>4

\* A step from a list goes to a list, and does to the sequence what LinkbackTodo
\* says.
LEMMA QueueStep ==
  ASSUME NEW s, NEW L, Holds(s, L), [Next]_vars
  PROVE  QueueInv' /\ [Todo!Next]_Walk
<1> DEFINE c == Content(s, L, node)
<1>1. Walk = c
  BY ReadsRight
<1>2. ASSUME NEW r, NEW K, Holds(r, K)'
      PROVE  QueueInv' /\ Walk' = Content(r, K, node)'
  <2>1. Reads'
    BY ReadsAll, PTL
  <2>2. Walk' = Content(r, K, node)'
    BY <1>2, <2>1 DEF Reads
  <2>3. QueueInv'
    BY <1>2 DEF QueueInv
  <2> QED
    BY <2>2, <2>3
<1> HIDE DEF c
<1>3. CASE QueueInit
  BY <1>2, <1>3, QueueInitStep DEF Todo!Next, Todo!DoDeleteAll
<1>4. ASSUME NEW n \in Node, InsertNormal(n)
      PROVE  QueueInv' /\ [Todo!Next]_Walk
  <2>1. PICK r, K : Holds(r, K)' /\ Content(r, K, node)' = Todo!InsertNormal(c, n)
    BY <1>4, InsertNormalStep DEF c
  <2>2. QueueInv' /\ Walk' = Todo!InsertNormal(Walk, n)
    BY <1>1, <1>2, <2>1
  <2>3. n \in Todo!Node /\ ~n.force
    BY <1>4 DEF InsertNormal, Node, Todo!Node
  <2> QED
    BY <2>2, <2>3 DEF Todo!Next, Todo!DoInsertNormal
<1>5. ASSUME NEW n \in Node, InsertForce(n)
      PROVE  QueueInv' /\ [Todo!Next]_Walk
  <2>1. PICK r, K : Holds(r, K)' /\ Content(r, K, node)' = Todo!InsertForce(c, n)
    BY <1>5, InsertForceStep DEF c
  <2>2. QueueInv' /\ Walk' = Todo!InsertForce(Walk, n)
    BY <1>1, <1>2, <2>1
  <2>3. n \in Todo!Node /\ n.force
    BY <1>5 DEF InsertForce, Node, Todo!Node
  <2> QED
    BY <2>2, <2>3 DEF Todo!Next, Todo!DoInsertForce
<1>6. CASE TakeFirst
  <2>1. PICK r, K : Holds(r, K)' /\ Content(r, K, node)' = Tail(c)
    BY <1>6, TakeFirstStep DEF c
  <2>2. c # <<>>
    BY <1>6, TakeFirstStep DEF c
  <2>3. QueueInv' /\ Walk # <<>> /\ Walk' = Tail(Walk)
    BY <1>1, <1>2, <2>1, <2>2
  <2> QED
    BY <2>3 DEF Todo!Next, Todo!DoTake
<1>7. ASSUME NEW a \in Addr, NEW ps \in SUBSET Prof, RemovePlan(a, ps)
      PROVE  QueueInv' /\ [Todo!Next]_Walk
  <2>1. Holds(s, L)' /\ Content(s, L, node)' = Todo!RemovePlan(c, a, ps)
    BY <1>7, RemovePlanStep DEF c
  <2>2. QueueInv' /\ Walk' = Todo!RemovePlan(Walk, a, ps)
    BY <1>1, <1>2, <2>1
  <2> QED
    BY <2>2 DEF Todo!Next, Todo!DoRemovePlan
<1>8. CASE DeleteAll
  <2>1. PICK r : Holds(r, 0)' /\ Content(r, 0, node)' = <<>>
    BY <1>8, DeleteAllStep
  <2>2. QueueInv' /\ Walk' = <<>>
    BY <1>2, <2>1
  <2> QED
    BY <2>2 DEF Todo!Next, Todo!DoDeleteAll
<1>9. CASE DeleteGroup
  <2>1. PICK r, M : Holds(r, M)' /\ Content(r, M, node)' = Todo!WithoutGroup(c)
    BY <1>9, DeleteGroupStep DEF c
  <2>2. QueueInv' /\ Walk' = Todo!WithoutGroup(Walk)
    BY <1>1, <1>2, <2>1
  <2> QED
    BY <2>2 DEF Todo!Next, Todo!DoDeleteGroup
<1>10. ASSUME NEW t \in Timeout, SetGroupTimeout(t)
       PROVE  QueueInv' /\ [Todo!Next]_Walk
  <2>1. Holds(s, L)' /\ Content(s, L, node)' = Todo!SetGroupTimeout(c, t)
    BY <1>10, SetGroupTimeoutStep DEF c
  <2>2. QueueInv' /\ Walk' = Todo!SetGroupTimeout(Walk, t)
    BY <1>1, <1>2, <2>1
  <2> QED
    BY <2>2 DEF Todo!Next, Todo!DoSetGroupTimeout
<1>11. CASE UNCHANGED vars
  <2>1. Holds(s, L)' /\ Content(s, L, node)' = c
    BY <1>11 DEF vars, Holds, PoolOK, Chain, At, Content, c
  <2>2. QueueInv' /\ Walk' = Walk
    BY <1>1, <1>2, <2>1
  <2> QED
    BY <2>2
<1> QED
  BY <1>3, <1>4, <1>5, <1>6, <1>7, <1>8, <1>9, <1>10, <1>11 DEF Next

\* The invariant holds of every state.
LEMMA QueueInvariant == Spec => []QueueInv
<1>1. Init => QueueInv
  BY InitStep DEF QueueInv
<1>2. QueueInv /\ [Next]_vars => QueueInv'
  BY QueueStep DEF QueueInv
<1> QED
  BY <1>1, <1>2, PTL DEF Spec

\* What the runs check follows from it.
LEMMA QueueReads ==
  ASSUME QueueInv
  PROVE  TypeOK /\ ListWellFormed /\ PoolExact
BY ReadsAll DEF Reads, QueueInv

-----------------------------------------------------------------------------
\* Type correctness: the pointers are items or null, and an item holds a node
\* the callers gave it or the cleared one.
THEOREM QueueTypeOK == Spec => []TypeOK
BY QueueInvariant, QueueReads, PTL

\* The list has no cycle and ends at tail, after every insertion at either end,
\* every removal and every clearing (linkback_todo_queue_*).
THEOREM QueueWellFormed == Spec => []ListWellFormed
BY QueueInvariant, QueueReads, PTL

\* No operation leaks an item of the pool, and none frees one that is still
\* linked.
THEOREM QueuePoolExact == Spec => []PoolExact
BY QueueInvariant, QueueReads, PTL

\* The pool of linked items implements the bounded sequence of nodes: each
\* function of the code does to the list what LinkbackTodo says of the sequence.
THEOREM QueueImplementsTodo == Spec => ImplementsTodo
<1>1. Init => Todo!Init
  BY InitStep, ReadsAll DEF Reads, Todo!Init
<1>2. QueueInv /\ [Next]_vars => [Todo!Next]_Walk
  BY QueueStep DEF QueueInv
<1> QED
  BY <1>1, <1>2, QueueInvariant, PTL DEF Spec, ImplementsTodo, Todo!Spec

=============================================================================
