--------------------------- MODULE LinkbackNodes ---------------------------
(***************************************************************************)
(* The linkback to-do queue seen as a sequence: the devices the headset     *)
(* still has to page, each with the profiles to connect, in the order they  *)
(* will be tried.  The operators are the results of the                     *)
(* linkback_todo_queue_* functions of app_linkback.c on that sequence;      *)
(* LinkbackTodo is the queue on its own, LinkbackQueue the pool of linked   *)
(* items the code keeps, and LinkbackEngine the state machine that uses it. *)
(***************************************************************************)
EXTENDS Naturals, Sequences, FiniteSets

CONSTANTS
  Addr,        \* the peer devices (bd_addr)
  Prof,        \* the profiles a node may plan (bits of plan_profs)
  Timeout,     \* the values of retry_timeout
  QueueMax     \* the number of items in the pool (LINKBACK_NODE_ITEM_NUM)

ASSUME QueueMaxAssumption == QueueMax \in Nat \ {0}

\* T_LINKBACK_NODE, without the search parameters of a forced search.
Node == [addr : Addr, plan : SUBSET Prof, force : BOOLEAN,
         group : BOOLEAN, tmo : Timeout]

-----------------------------------------------------------------------------
(* The queue as a sequence of nodes.                                        *)

Queued(q, a) == \E i \in DOMAIN q : q[i].addr = a

\* A device that is already queued keeps its place and takes the new
\* profiles and timeout; it leaves its group.  A group member being loaded
\* never disturbs a device that is already queued.
Merge(q, n) ==
  IF n.group THEN q
  ELSE [i \in DOMAIN q |->
          IF q[i].addr # n.addr THEN q[i]
          ELSE [q[i] EXCEPT !.plan  = @ \cup n.plan,
                            !.force = @ \/ n.force,
                            !.tmo   = n.tmo,
                            !.group = FALSE]]

\* A node without profiles is not inserted; a node is dropped when no item
\* of the pool is free.
Insert(q, n, whereFree) ==
  CASE n.plan = {}        -> q
    [] n.plan # {} /\ Queued(q, n.addr) -> Merge(q, n)
    [] OTHER              -> IF Len(q) < QueueMax THEN whereFree ELSE q

InsertNormal(q, n) == Insert(q, n, Append(q, n))

InsertForce(q, n) == Insert(q, n, <<n>> \o q)

RemovePlan(q, a, ps) ==
  [i \in DOMAIN q |->
     IF q[i].addr = a THEN [q[i] EXCEPT !.plan = @ \ ps] ELSE q[i]]

\* The places of the nodes that are not group members, and the queue that
\* keeps these only, in their order.
Survivors(q) == {i \in DOMAIN q : ~q[i].group}

Rank(S, i) == Cardinality({k \in S : k <= i})

WithoutGroup(q) ==
  [j \in 1 .. Cardinality(Survivors(q)) |->
     q[CHOOSE i \in Survivors(q) : Rank(Survivors(q), i) = j]]

SetGroupTimeout(q, t) ==
  [i \in DOMAIN q |-> IF q[i].group THEN [q[i] EXCEPT !.tmo = t] ELSE q[i]]

-----------------------------------------------------------------------------
\* The queues the pool can hold.
IsTodo(q) == q \in Seq(Node) /\ Len(q) <= QueueMax

\* No device is queued twice.
DistinctAddr(q) == \A i, j \in DOMAIN q : q[i].addr = q[j].addr => i = j

=============================================================================
