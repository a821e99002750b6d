--------------------------- MODULE LinkbackQueue ---------------------------
(***************************************************************************)
(* The linkback to-do queue as the code keeps it: a fixed pool of items     *)
(* with an is_used flag, chained through their next pointers from head to   *)
(* tail (app_linkback.c).  Items are never cleared when they are freed, so  *)
(* a free item still holds its last node and its last next pointer; what    *)
(* has to hold is that no such leftover ever becomes visible.               *)
(*                                                                         *)
(* The module implements LinkbackTodo: the sequence of nodes reached from   *)
(* head is the abstract queue.                                              *)
(***************************************************************************)
EXTENDS Naturals, FiniteSets

CONSTANTS
  Addr, Prof, Timeout, QueueMax,   \* as in LinkbackTodo
  NoAddr                           \* the zero address of a cleared item

ASSUME NoAddrAssumption == NoAddr \notin Addr

ASSUME PoolAssumption == QueueMax \in Nat \ {0}

\* The item pointers: linkback_node_item[i] and the null pointer.
Item == 1 .. QueueMax
Null == 0

VARIABLES
  head, tail,   \* linkback_todo_queue
  used,         \* is_used of each item
  next,         \* next of each item
  node          \* linkback_node of each item

vars == <<head, tail, used, next, node>>

Node == [addr : Addr, plan : SUBSET Prof, force : BOOLEAN,
         group : BOOLEAN, tmo : Timeout]

-----------------------------------------------------------------------------
(* Walking the list.                                                        *)

\* Reached[k] is the k-th item met from head, Null when the list is shorter.
Reached ==
  LET f[k \in 1 .. QueueMax + 1] ==
        IF k = 1 THEN head
        ELSE IF f[k - 1] = Null THEN Null ELSE next[f[k - 1]]
  IN  f

InList == {Reached[k] : k \in DOMAIN Reached} \ {Null}

NodeNum == Cardinality({k \in DOMAIN Reached : Reached[k] # Null})

Walk == [k \in 1 .. NodeNum |-> node[Reached[k]]]

\* The first item of the list that holds a device, Null if none does.
FindItem(a) ==
  IF \E x \in InList : node[x].addr = a
  THEN LET k == CHOOSE k \in DOMAIN Reached :
                  /\ Reached[k] # Null /\ node[Reached[k]].addr = a
                  /\ \A m \in 1 .. k - 1 : node[Reached[m]].addr # a
       IN  Reached[k]
  ELSE Null

\* The first free item of the pool, Null if every item is used.
MallocItem ==
  IF \E x \in Item : ~used[x]
  THEN CHOOSE x \in Item : ~used[x] /\ \A y \in 1 .. x - 1 : used[y]
  ELSE Null

-----------------------------------------------------------------------------
EmptyNode ==
  [addr |-> NoAddr, plan |-> {}, force |-> FALSE, group |-> FALSE, tmo |-> 0]

Init ==
  /\ head = Null /\ tail = Null
  /\ used = [x \in Item |-> FALSE]
  /\ next = [x \in Item |-> Null]
  /\ node = [x \in Item |-> EmptyNode]

\* linkback_todo_queue_init clears the pool, not only the two ends.
QueueInit ==
  /\ head' = Null /\ tail' = Null
  /\ used' = [x \in Item |-> FALSE]
  /\ next' = [x \in Item |-> Null]
  /\ node' = [x \in Item |-> EmptyNode]

\* (Slips: the timeouts add up; the way the node was inserted, or its profiles,
\* are overwritten.)
MergeIntoAddsTime(x, n) ==
  /\ node' = [node EXCEPT ![x].plan = @ \cup n.plan, ![x].tmo = @ + n.tmo]
  /\ UNCHANGED <<head, tail, used, next>>

MergeIntoDemotes(x, n) ==
  /\ node' = IF n.group THEN node
             ELSE [node EXCEPT ![x].plan  = @ \cup n.plan,
                               ![x].force = n.force,
                               ![x].tmo   = n.tmo,
                               ![x].group = FALSE]
  /\ UNCHANGED <<head, tail, used, next>>

MergeIntoReplaces(x, n) ==
  /\ node' = IF n.group THEN node
             ELSE [node EXCEPT ![x].plan  = n.plan,
                               ![x].force = IF n.force THEN TRUE ELSE @,
                               ![x].tmo   = n.tmo,
                               ![x].group = FALSE]
  /\ UNCHANGED <<head, tail, used, next>>

\* The merge of an insertion into the item that already holds the device.
MergeInto(x, n) ==
  /\ node' = IF n.group THEN node
             ELSE [node EXCEPT ![x].plan  = @ \cup n.plan,
                               ![x].force = IF n.force THEN TRUE ELSE @,
                               ![x].tmo   = n.tmo,
                               ![x].group = FALSE]
  /\ UNCHANGED <<head, tail, used, next>>

InsertNormal(n) ==
  LET x == FindItem(n.addr)  y == MallocItem IN
  /\ ~n.force /\ n.plan # {}
  /\ \/ x # Null /\ MergeInto(x, n)
     \/ x = Null /\ y = Null /\ UNCHANGED vars
     \/ /\ x = Null /\ y # Null
        /\ used' = [used EXCEPT ![y] = TRUE]
        /\ node' = [node EXCEPT ![y] = n]
        /\ next' = IF head = Null THEN [next EXCEPT ![y] = Null]
                   ELSE [next EXCEPT ![y] = Null, ![tail] = y]
        /\ head' = IF head = Null THEN y ELSE head
        /\ tail' = y

InsertForce(n) ==
  LET x == FindItem(n.addr)  y == MallocItem IN
  /\ n.force /\ n.plan # {}
  /\ \/ x # Null /\ MergeInto(x, n)
     \/ x = Null /\ y = Null /\ UNCHANGED vars
     \/ /\ x = Null /\ y # Null
        /\ used' = [used EXCEPT ![y] = TRUE]
        /\ node' = [node EXCEPT ![y] = n]
        /\ next' = [next EXCEPT ![y] = head]
        /\ tail' = IF head = Null THEN y ELSE tail
        /\ head' = y

\* (Slips: the tail is left behind; the item is not given back.)
TakeFirstKeepsTail ==
  /\ head # Null
  /\ used' = [used EXCEPT ![head] = FALSE]
  /\ head' = next[head]
  /\ UNCHANGED <<tail, next, node>>

TakeFirstLeaks ==
  /\ head # Null
  /\ head' = next[head]
  /\ tail' = IF next[head] = Null THEN Null ELSE tail
  /\ UNCHANGED <<used, next, node>>

TakeFirst ==
  /\ head # Null
  /\ used' = [used EXCEPT ![head] = FALSE]
  /\ head' = next[head]
  /\ tail' = IF next[head] = Null THEN Null ELSE tail
  /\ UNCHANGED <<next, node>>

RemovePlan(a, ps) ==
  /\ node' = [x \in Item |-> IF x \in InList /\ node[x].addr = a
                             THEN [node[x] EXCEPT !.plan = @ \ ps] ELSE node[x]]
  /\ UNCHANGED <<head, tail, used, next>>

DeleteAll ==
  /\ used' = [x \in Item |-> used[x] /\ x \notin InList]
  /\ head' = Null /\ tail' = Null
  /\ UNCHANGED <<next, node>>

\* The two loops of linkback_todo_queue_delete_group_member on a record of
\* the pointers they move: the first drops the leading members, the second
\* unlinks the ones behind p.
DropLeading(s) ==
  LET f[k \in 0 .. QueueMax] ==
        IF k = 0 THEN s
        ELSE LET t == f[k - 1] IN
             IF t.head = Null \/ ~node[t.head].group THEN t
             ELSE [t EXCEPT !.used[t.head] = FALSE, !.head = t.next[t.head]]
  IN  f[QueueMax]

UnlinkBehind(s) ==
  LET f[k \in 0 .. QueueMax] ==
        IF k = 0 THEN s
        ELSE LET t == f[k - 1]  q == t.next[t.p] IN
             IF t.p = Null \/ q = Null THEN t
             ELSE IF node[q].group
                  THEN [t EXCEPT !.used[q] = FALSE, !.next[t.p] = t.next[q]]
                  ELSE [t EXCEPT !.p = q]
  IN  f[QueueMax]

DeleteGroup ==
  LET s1 == DropLeading([head |-> head, used |-> used, next |-> next])
      s2 == UnlinkBehind([p |-> s1.head, used |-> s1.used, next |-> s1.next])
  IN  /\ head' = s1.head
      /\ tail' = s2.p
      /\ used' = s2.used
      /\ next' = s2.next
      /\ UNCHANGED node

SetGroupTimeout(t) ==
  /\ node' = [x \in Item |-> IF x \in InList /\ node[x].group
                             THEN [node[x] EXCEPT !.tmo = t] ELSE node[x]]
  /\ UNCHANGED <<head, tail, used, next>>

Next ==
  \/ QueueInit
  \/ \E n \in Node : InsertNormal(n) \/ InsertForce(n)
  \/ TakeFirst
  \/ \E a \in Addr, ps \in SUBSET Prof : RemovePlan(a, ps)
  \/ DeleteAll
  \/ DeleteGroup
  \/ \E t \in Timeout : SetGroupTimeout(t)

Spec == Init /\ [][Next]_vars

-----------------------------------------------------------------------------
TypeOK ==
  /\ head \in Item \cup {Null} /\ tail \in Item \cup {Null}
  /\ used \in [Item -> BOOLEAN]
  /\ next \in [Item -> Item \cup {Null}]
  /\ node \in [Item -> Node \cup {EmptyNode}]

\* The list ends: it has no cycle, and tail is its last item, so the next
\* insert_normal_node appends to what take_first_node will reach.  Stale next
\* pointers of freed items, a removal at the tail and an insertion into an
\* emptied queue are what could break it.
ListWellFormed ==
  /\ Reached[QueueMax + 1] = Null
  /\ tail = IF head = Null THEN Null ELSE Reached[NodeNum]

\* The items marked used are exactly those in the list: no operation leaks an
\* item of the pool, none frees an item that is still linked.
PoolExact == {x \in Item : used[x]} = InList

Todo == INSTANCE LinkbackTodo WITH todo <- Walk

\* The linked pool implements the bounded sequence.
ImplementsTodo == Todo!Spec

=============================================================================
