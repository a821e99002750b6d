------------------------ MODULE LinkbackTodo_proofs ------------------------
(***************************************************************************)
(* The queue holds distinct devices and fits its pool in every behaviour.   *)
(***************************************************************************)
EXTENDS LinkbackTodo, LinkbackNodes_proofs

\* The linkback queue only ever holds nodes of the pool's size, and never two
\* nodes for one device, in any order of any calls.
THEOREM TodoAlwaysGood == Spec => [](TypeOK /\ NoDuplicateAddr)
<1> DEFINE Inv == GoodTodo(todo)
<1>1. Init => Inv
  BY QueueMaxAssumption DEF Init, GoodTodo, IsTodo, DistinctAddr
<1>2. Inv /\ [Next]_todo => Inv'
  <2> SUFFICES ASSUME GoodTodo(todo), [Next]_todo
               PROVE  GoodTodo(todo')
    BY DEF GoodTodo, IsTodo, DistinctAddr
  <2>1. CASE DoInsertNormal
    BY <2>1, InsertGood DEF DoInsertNormal
  <2>2. CASE DoInsertForce
    BY <2>2, InsertGood DEF DoInsertForce
  <2>3. CASE DoTake
    BY <2>3, TailGood DEF DoTake
  <2>4. CASE DoRemovePlan
    BY <2>4, RemovePlanGood DEF DoRemovePlan
  <2>5. CASE DoDeleteAll
    BY <2>5, QueueMaxAssumption DEF DoDeleteAll, GoodTodo, IsTodo, DistinctAddr
  <2>6. CASE DoDeleteGroup
    BY <2>6, WithoutGroupGood DEF DoDeleteGroup
  <2>7. CASE DoSetGroupTimeout
    BY <2>7, SetGroupTimeoutGood DEF DoSetGroupTimeout
  <2>8. CASE UNCHANGED todo
    BY <2>8
  <2> QED
    BY <2>1, <2>2, <2>3, <2>4, <2>5, <2>6, <2>7, <2>8 DEF Next
<1>3. Inv => TypeOK /\ NoDuplicateAddr
  BY DEF GoodTodo, TypeOK, NoDuplicateAddr
<1> QED
  BY <1>1, <1>2, <1>3, PTL DEF Spec

=============================================================================
