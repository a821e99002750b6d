---------------------------- MODULE LinkbackTodo ----------------------------
(***************************************************************************)
(* What the linkback to-do queue promises to the connection engine: a       *)
(* bounded sequence of nodes.  Forced nodes go to the front, normal ones to *)
(* the back, and a device that is already queued is merged, never queued    *)
(* twice.  Any caller may call any operation in any order.                  *)
(***************************************************************************)
EXTENDS LinkbackNodes

VARIABLE todo

Init == todo = <<>>

DoInsertNormal == \E n \in Node : ~n.force /\ todo' = InsertNormal(todo, n)

DoInsertForce == \E n \in Node : n.force /\ todo' = InsertForce(todo, n)

DoTake == todo # <<>> /\ todo' = Tail(todo)

DoRemovePlan ==
  \E a \in Addr, ps \in SUBSET Prof : todo' = RemovePlan(todo, a, ps)

DoDeleteAll == todo' = <<>>

DoDeleteGroup == todo' = WithoutGroup(todo)

DoSetGroupTimeout == \E t \in Timeout : todo' = SetGroupTimeout(todo, t)

Next ==
  \/ DoInsertNormal \/ DoInsertForce \/ DoTake \/ DoRemovePlan
  \/ DoDeleteAll \/ DoDeleteGroup \/ DoSetGroupTimeout

Spec == Init /\ [][Next]_todo

-----------------------------------------------------------------------------
\* The queue holds nodes, at most as many as the pool has items.
TypeOK == IsTodo(todo)

\* No device is queued twice: linkback_todo_queue_find_node_item looks for the
\* first node of a device, and merging, removing profiles and judging what is
\* still to do all rely on it being the only one.
NoDuplicateAddr == DistinctAddr(todo)

=============================================================================
