----------------------- MODULE LinkbackEngine_proofs -----------------------
(***************************************************************************)
(* Type correctness of the engine, and the two invariants every other       *)
(* argument about it rests on: a device has one place, and nothing of a     *)
(* session outlives it.  They hold for any devices, profiles, timeouts,     *)
(* link table and disturbances.                                             *)
(***************************************************************************)
EXTENDS LinkbackEngine, LinkbackNodes_proofs

-----------------------------------------------------------------------------
(* The active node.                                                         *)

\* The profile a node turns to is one it plans, if it plans any.
LEMMA FirstProfType ==
  ASSUME NEW ps \in SUBSET Prof
  PROVE  /\ FirstProf(ps) \in Prof \cup {NoProf}
         /\ ps # {} => FirstProf(ps) \in ps
<1>1. CASE ps = {}
  BY <1>1 DEF FirstProf
<1>2. CASE ps # {}
  <2> DEFINE D == {i \in 1 .. 9 : ProfOrder[i] \in ps}
  <2>1. DOMAIN ProfOrder = 1 .. 9
    BY DEF ProfOrder
  <2>2. \E i \in 1 .. 9 : i \in D
    BY <1>2, <2>1, ProfAssumption
  <2>3. PICK m \in D : \A k \in D : m <= k
    <3> HIDE DEF D
    <3>1. \/ 1 \in D \/ 2 \in D \/ 3 \in D \/ 4 \in D \/ 5 \in D
          \/ 6 \in D \/ 7 \in D \/ 8 \in D \/ 9 \in D
      BY <2>2
    <3>2. \A k \in D : k \in 1 .. 9
      BY DEF D
    <3> QED
      BY <3>1, <3>2
  <2> DEFINE P(i) == /\ ProfOrder[i] \in ps
                     /\ \A k \in 1 .. i - 1 : ProfOrder[k] \notin ps
  <2>4. m \in DOMAIN ProfOrder /\ P(m)
    BY <2>1, <2>3
  <2> DEFINE c == CHOOSE i \in DOMAIN ProfOrder : P(i)
  <2>5. ProfOrder[c] \in ps
    BY <2>4
  <2>6. FirstProf(ps) = ProfOrder[c]
    BY <1>2 DEF FirstProf
  <2> QED
    BY <2>5, <2>6
<1> QED
  BY <1>1, <1>2

\* Loading a node.
LEMMA LoadType ==
  ASSUME NEW n \in Node
  PROVE  /\ Load(n) \in ActiveNode /\ Load(n).valid
         /\ Load(n).addr = n.addr /\ Load(n).remain = n.plan
         /\ n.plan # {} => Load(n).doing \in Prof
<1>1. n.plan \in SUBSET Prof
  BY DEF Node
<1>2. FirstProf(n.plan) \in Prof \cup {NoProf}
  BY <1>1, FirstProfType
<1>3. n.plan # {} => FirstProf(n.plan) \in Prof
  BY <1>1, FirstProfType
<1> QED
  BY <1>2, <1>3 DEF Load, ActiveNode, Node

\* The profile steps restarted: only what they are about changes.
LEMMA ReloadType ==
  ASSUME NEW a \in ActiveNode, NEW rs \in SUBSET Prof
  PROVE  /\ Reload(a, rs) \in ActiveNode /\ Reload(a, rs).valid
         /\ Reload(a, rs).addr = a.addr /\ Reload(a, rs).exit = a.exit
         /\ Reload(a, rs).remain = rs
         /\ rs # {} => Reload(a, rs).doing \in Prof
<1> DEFINE fp == FirstProf(rs)
           r  == [a EXCEPT !.remain = rs, !.doing = fp, !.sdpOk = FALSE,
                           !.retry = 0]
<1>1. fp \in Prof \cup {NoProf} /\ (rs # {} => fp \in Prof)
  BY FirstProfType
<1>2. Reload(a, rs) = r
  BY DEF Reload
<1> HIDE DEF fp
<1>3. r \in ActiveNode
  <2> DEFINE z == 0
  <2>1. z \in 0 .. 2
    OBVIOUS
  <2> HIDE DEF z
  <2>2. [a EXCEPT !.remain = rs, !.doing = fp, !.sdpOk = FALSE, !.retry = z]
          \in ActiveNode
    BY <1>1, <2>1 DEF ActiveNode
  <2> QED
    BY <2>2 DEF z
<1>4. r.valid /\ r.addr = a.addr /\ r.exit = a.exit /\ r.remain = rs
      /\ r.doing = fp
  BY DEF ActiveNode
<1> QED
  BY <1>1, <1>2, <1>3, <1>4

\* What a step of the node keeps: it is about the same device, and it has a
\* current profile as long as it has any left.
Kept(b, a) ==
  /\ b \in ActiveNode /\ b.valid /\ b.addr = a.addr /\ b.exit = a.exit
  /\ b.remain # {} => b.doing \in Prof

LEMMA StepKept ==
  ASSUME NEW a \in ActiveNode, a.remain # {} => a.doing \in Prof
  PROVE  Kept(StepSuc(a), a) /\ Kept(StepFail(a), a) /\ Kept(ConnFailAdjust(a), a)
<1>1. a.remain \in SUBSET Prof /\ a.plan \in SUBSET Prof /\ a.retry \in 0 .. 2
  BY DEF ActiveNode
<1>2. Kept(StepSuc(a), a)
  BY <1>1, ReloadType DEF Kept, StepSuc
<1>3. Kept(ConnFailAdjust(a), a)
  BY <1>1, ReloadType DEF Kept, ConnFailAdjust
<1>4. CASE a.retry < 2
  <2>1. a.retry + 1 \in 0 .. 2
    BY <1>1, <1>4
  <2>2. StepFail(a) = [a EXCEPT !.retry = a.retry + 1, !.sdpOk = FALSE]
    BY <1>4 DEF StepFail
  <2>3. Kept(StepFail(a), a)
    BY <2>1, <2>2 DEF Kept, ActiveNode
  <2> QED
    BY <1>2, <1>3, <2>3
<1>5. CASE ~(a.retry < 2)
  <2> DEFINE gone == {a.doing} \cup
                     {r[2] : r \in {x \in ProfRelation : x[1] = a.doing}}
  <2>1. StepFail(a) = Reload(a, a.remain \ gone)
    BY <1>5 DEF StepFail
  <2>2. a.remain \ gone \in SUBSET Prof
    BY <1>1
  <2> HIDE DEF gone
  <2>3. Kept(StepFail(a), a)
    BY <2>1, <2>2, ReloadType DEF Kept
  <2> QED
    BY <1>2, <1>3, <2>3
<1> QED
  BY <1>4, <1>5

\* Profiles added and taken away by a command: the current one stays.
LEMMA ProfsKept ==
  ASSUME NEW a \in ActiveNode, a.doing \in Prof, NEW ps \in SUBSET Prof
  PROVE  /\ Kept(ProfsAdd(a, ps), a) /\ ProfsAdd(a, ps).doing = a.doing
         /\ Kept(ProfsSub(a, ps), a) /\ ProfsSub(a, ps).doing = a.doing
<1>1. LinkbackTimeout \in Timeout
  BY EngineAssumption
<1> QED
  BY <1>1 DEF ProfsAdd, ProfsSub, Kept, ActiveNode

-----------------------------------------------------------------------------
(* Which devices the queue operations may put in the queue.                 *)

LEMMA InsertQueued ==
  ASSUME NEW q, GoodTodo(q), NEW n \in Node, NEW b
  PROVE  Queued(InsertNormal(q, n), b) \/ Queued(InsertForce(q, n), b) =>
           b = n.addr \/ Queued(q, b)
<1>1. q \in Seq(Node) /\ Len(q) \in Nat /\ DOMAIN q = 1 .. Len(q)
  BY LenProperties DEF GoodTodo, IsTodo
<1>2. Queued(Merge(q, n), b) => Queued(q, b)
  <2>1. \A i \in DOMAIN q : q[i] \in Node
    BY <1>1
  <2>2. DOMAIN Merge(q, n) = DOMAIN q
    BY DEF Merge
  <2>3. \A i \in DOMAIN q : Merge(q, n)[i].addr = q[i].addr
    BY <2>1 DEF Merge, Node
  <2> QED
    BY <2>2, <2>3 DEF Queued
<1>3. Queued(Append(q, n), b) => b = n.addr \/ Queued(q, b)
  <2>1. /\ Append(q, n) \in Seq(Node) /\ Len(Append(q, n)) = Len(q) + 1
        /\ \A i \in 1 .. Len(q) : Append(q, n)[i] = q[i]
        /\ Append(q, n)[Len(q) + 1] = n
    BY <1>1, AppendProperties
  <2>2. DOMAIN Append(q, n) = 1 .. Len(q) + 1
    BY <2>1, LenProperties
  <2> QED
    BY <1>1, <2>1, <2>2 DEF Queued
<1>4. Queued(<<n>> \o q, b) => b = n.addr \/ Queued(q, b)
  <2>1. <<n>> \in Seq(Node) /\ Len(<<n>>) = 1 /\ <<n>>[1] = n
    OBVIOUS
  <2>2. /\ <<n>> \o q \in Seq(Node) /\ Len(<<n>> \o q) = 1 + Len(q)
        /\ \A i \in 1 .. 1 + Len(q) :
             (<<n>> \o q)[i] = IF i <= 1 THEN <<n>>[i] ELSE q[i - 1]
    BY <1>1, <2>1, ConcatProperties
  <2>3. DOMAIN (<<n>> \o q) = 1 .. 1 + Len(q)
    BY <2>2, LenProperties
  <2>4. ASSUME NEW i \in 1 .. 1 + Len(q), (<<n>> \o q)[i].addr = b
        PROVE  b = n.addr \/ Queued(q, b)
    <3>1. CASE i <= 1
      BY <1>1, <2>1, <2>2, <2>4, <3>1
    <3>2. CASE ~(i <= 1)
      <4>1. i - 1 \in DOMAIN q /\ q[i - 1].addr = b
        BY <1>1, <2>2, <2>4, <3>2
      <4> QED
        BY <4>1 DEF Queued
    <3> QED
      BY <3>1, <3>2
  <2> QED
    BY <2>3, <2>4 DEF Queued
<1> QED
  BY <1>2, <1>3, <1>4 DEF InsertNormal, InsertForce, Insert

LEMMA LessQueued ==
  ASSUME NEW q, GoodTodo(q), NEW b, NEW a, NEW ps, NEW t
  PROVE  Queued(RemovePlan(q, a, ps), b) \/ Queued(SetGroupTimeout(q, t), b)
         \/ Queued(WithoutGroup(q), b) => Queued(q, b)
<1>1. \A i \in DOMAIN q : q[i] \in Node
  BY DEF GoodTodo, IsTodo
<1>2. Queued(RemovePlan(q, a, ps), b) => Queued(q, b)
  BY <1>1 DEF RemovePlan, Queued, Node
<1>3. Queued(SetGroupTimeout(q, t), b) => Queued(q, b)
  BY <1>1 DEF SetGroupTimeout, Queued, Node
<1>4. Queued(WithoutGroup(q), b) => Queued(q, b)
  <2>1. Survivors(q) \subseteq DOMAIN q
    BY DEF Survivors
  <2> QED
    BY <2>1, WithoutGroupNodes DEF Queued
<1> QED
  BY <1>2, <1>3, <1>4

-----------------------------------------------------------------------------
(* The inductive invariant.                                                 *)

\* The engine's own variables have their types.
EngOK ==
  /\ mode \in {"startup", "linkback", "stable", "stop"}
  /\ running \in BOOLEAN
  /\ GoodTodo(todo) /\ act \in Active
  /\ used \in Nat /\ timer \in Nat
  /\ delay \in BOOLEAN /\ afterStop \in BOOLEAN

\* The active node is not queued, unless it is about to be dropped; and it has
\* a current profile, unless it is about to be dropped for want of one.
NodeOK ==
  act.valid => /\ act.exit \/ ~Queued(todo, act.addr)
               /\ act.doing \in Prof \/ (running /\ act.remain = {})

\* The other variables have theirs, and only a headset with AVRCP waits for it.
RestOK ==
  /\ later # {} => "AVRCP" \in Prof
  /\ tracked \subseteq Addr /\ later \subseteq Addr /\ ind \subseteq Addr
  /\ profs \in [Addr -> SUBSET Prof] /\ closeAfter \in [Addr -> SUBSET Prof]
  /\ link \in [Addr -> {"down", "up", "closing"}]
  /\ page \in [Addr -> {"no", "yes", "cancel"}]
  /\ inc \subseteq Addr /\ auth \subseteq Addr
  /\ sdp \in [Addr -> SUBSET Prof] /\ pconn \in [Addr -> SUBSET Prof]
  /\ pdisc \in [Addr -> SUBSET Prof]
  /\ budget \in 0 .. Budget

EInv == EngOK /\ NodeOK /\ QuietOutsideSession /\ RestOK

LEMMA ActiveCases ==
  ASSUME NEW a \in Active
  PROVE  /\ \/ a = NoNode /\ ~a.valid
            \/ a \in ActiveNode /\ a.valid
         /\ NoNode \in Active /\ ~NoNode.valid /\ ActiveNode \subseteq Active
<1>1. NoNode \in Active /\ ActiveNode \subseteq Active
  BY DEF Active
<1>2. NoNode.valid = FALSE
  BY DEF NoNode
<1>3. a \in ActiveNode => a.valid = TRUE
  BY DEF ActiveNode
<1> QED
  BY <1>1, <1>2, <1>3 DEF Active

\* What follows from the invariant while a node is active.
LEMMA NodeFacts ==
  ASSUME EngOK, NodeOK, act.valid
  PROVE  /\ act \in ActiveNode /\ act.addr \in Addr /\ act.plan \in SUBSET Prof
         /\ act.remain \in SUBSET Prof /\ act.force \in BOOLEAN
         /\ act.group \in BOOLEAN /\ act.tmo \in Timeout
         /\ (act.remain # {} => act.doing \in Prof)
         /\ (~running => act.doing \in Prof)
<1>1. act \in ActiveNode
  BY ActiveCases DEF EngOK
<1> QED
  BY <1>1 DEF ActiveNode, NodeOK

LEMMA TimeoutNat == Timeout \subseteq Nat /\ LinkbackTimeout \in Timeout
                    /\ LossTimeout \in Timeout /\ 2 * LinkbackTimeout \in Timeout
BY EngineAssumption

\* The nodes the engine makes are nodes of the queue.
LEMMA ANodeType ==
  ASSUME NEW a \in Addr, NEW ps \in SUBSET Prof, NEW t \in Timeout,
         NEW f \in BOOLEAN, NEW g \in BOOLEAN
  PROVE  ANode(a, ps, t, f, g) \in Node /\ ANode(a, ps, t, f, g).addr = a
BY DEF ANode, Node

LEMMA LoadBondListGood == GoodTodo(LoadBondList)
<1> DEFINE t == IF Len(BondList) > 1 THEN 2 * LinkbackTimeout
                ELSE LinkbackTimeout
           q == LoadBondList
<1>1. t \in Timeout
  BY TimeoutNat
<1>2. /\ BondList \in Seq(Addr) /\ Len(BondList) \in Nat
      /\ DOMAIN BondList = 1 .. Len(BondList) /\ Len(BondList) <= QueueMax
      /\ \A i \in DOMAIN BondList : BondList[i] \in Addr
      /\ BondPlan \in [Addr -> SUBSET Prof]
  BY EngineAssumption, LenProperties
<1> HIDE DEF t
<1>3. q = [i \in DOMAIN BondList |->
             ANode(BondList[i], BondPlan[BondList[i]], t, FALSE, TRUE)]
  BY DEF LoadBondList, t
<1>4. \A i \in DOMAIN BondList : q[i] \in Node /\ q[i].addr = BondList[i]
  BY <1>1, <1>2, <1>3, ANodeType
<1> HIDE DEF q
<1>5. q \in [1 .. Len(BondList) -> Node]
  BY <1>2, <1>3, <1>4
<1>6. q \in Seq(Node) /\ Len(q) = Len(BondList)
  BY <1>2, <1>5
<1>7. DistinctAddr(q)
  <2>1. DOMAIN q = DOMAIN BondList
    BY <1>3
  <2>2. \A i, j \in DOMAIN BondList : BondList[i] = BondList[j] => i = j
    BY EngineAssumption
  <2> QED
    BY <1>4, <2>1, <2>2 DEF DistinctAddr
<1>8. GoodTodo(q)
  BY <1>2, <1>6, <1>7 DEF GoodTodo, IsTodo
<1> QED
  BY <1>8 DEF q

\* Putting the active node back keeps the queue.
LEMMA UseLeftTimeGood ==
  ASSUME EngOK, NodeOK, act.valid, NEW isNormal \in BOOLEAN
  PROVE  GoodTodo(UseLeftTime(isNormal))
<1> DEFINE left == act.tmo - used
           q    == IF act.group THEN SetGroupTimeout(todo, left) ELSE todo
           n    == ANode(act.addr, act.plan, left, ~isNormal, act.group)
<1>1. CASE used < act.tmo
  <2>1. act.tmo \in Timeout /\ act.tmo \in Nat /\ used \in Nat
    BY NodeFacts, TimeoutNat DEF EngOK
  <2>2. left \in 0 .. act.tmo
    BY <1>1, <2>1
  <2>3. left \in Timeout
    BY <2>1, <2>2, EngineAssumption
  <2> HIDE DEF left
  <2>4. GoodTodo(q)
    BY <2>3, SetGroupTimeoutGood DEF EngOK
  <2>5. n \in Node
    BY <2>3, NodeFacts, ANodeType
  <2> HIDE DEF q, n
  <2>6. GoodTodo(InsertNormal(q, n)) /\ GoodTodo(InsertForce(q, n))
    BY <2>4, <2>5, InsertGood
  <2>7. UseLeftTime(isNormal) =
          IF isNormal THEN InsertNormal(q, n) ELSE InsertForce(q, n)
    BY <1>1 DEF UseLeftTime, q, n, left
  <2> QED
    BY <2>6, <2>7
<1>2. CASE ~(used < act.tmo)
  BY <1>2, WithoutGroupGood DEF UseLeftTime, EngOK
<1> QED
  BY <1>1, <1>2

-----------------------------------------------------------------------------
(* Every action keeps it.                                                   *)

\* Nothing but the engine's own variables changes.
LEMMA RestSame ==
  ASSUME RestOK, UNCHANGED <<tableVars, stackVars>>, budget' \in 0 .. Budget
  PROVE  RestOK'
BY DEF RestOK, tableVars, stackVars

\* The disturbances of a run.
LEMMA DisturbOK ==
  ASSUME RestOK, NEW k, Disturb(k)
  PROVE  budget' \in 0 .. Budget
BY EngineAssumption DEF RestOK, Disturb

\* A page and a link in one of their states; closing keeps them so.
PageLinkOK ==
  /\ page \in [Addr -> {"no", "yes", "cancel"}]
  /\ link \in [Addr -> {"down", "up", "closing"}]

LEMMA AclDisconnectType ==
  ASSUME RestOK, NEW a \in Addr, AclDisconnect(a)
  PROVE  PageLinkOK'
BY DEF RestOK, AclDisconnect, PageLinkOK

\* The turns of app_bt_policy_linkback_run.
LEMMA RunKeeps ==
  ASSUME EInv, Run
  PROVE  EInv'
<1> USE DEF EInv
<1>0. /\ running /\ mode = "linkback" /\ GoodTodo(todo) /\ act \in Active
      /\ budget \in 0 .. Budget /\ NoNode \in Active /\ ~NoNode.valid
  BY ActiveCases DEF Run, RunTake, RunTakeEmptyPlan, RunFinish, RunDrop,
       RunWaitInd, RunAlreadyConnected, RunDropFull, RunSearch, ToSearch,
       RunSearchRefused, ToConnect, EngOK, RestOK, QuietOutsideSession
<1>1. CASE RunTake
  <2>1. /\ Head(todo) \in Node /\ GoodTodo(Tail(todo))
        /\ ~Queued(Tail(todo), Head(todo).addr)
    BY <1>0, <1>1, TailGood DEF RunTake
  <2> DEFINE n == Head(todo)
  <2>2. /\ Load(n) \in ActiveNode /\ Load(n).addr = n.addr
        /\ Load(n).doing \in Prof
    BY <1>1, <2>1, LoadType DEF RunTake
  <2>3. n.tmo \in Nat
    BY <2>1, TimeoutNat DEF Node
  <2>4. EngOK' /\ NodeOK' /\ QuietOutsideSession'
    BY <1>0, <1>1, <2>1, <2>2, <2>3, ActiveCases
       DEF RunTake, EngOK, NodeOK, QuietOutsideSession
  <2> QED
    BY <1>0, <1>1, <2>4, RestSame DEF RunTake
<1>2. CASE RunTakeEmptyPlan \/ RunFinish
  <2>1. GoodTodo(todo')
    BY <1>0, <1>2, TailGood DEF RunTakeEmptyPlan, RunFinish
  <2>2. Finish /\ UNCHANGED <<used, afterStop>>
    BY <1>2 DEF RunTakeEmptyPlan, RunFinish
  <2>3. EngOK' /\ NodeOK' /\ QuietOutsideSession'
    BY <1>0, <2>1, <2>2 DEF Finish, EngOK, NodeOK, QuietOutsideSession
  <2> QED
    BY <1>0, <1>2, <2>3, RestSame DEF RunTakeEmptyPlan, RunFinish
<1>3. CASE RunDrop \/ RunDropFull
  <2>1. EngOK' /\ NodeOK' /\ QuietOutsideSession'
    BY <1>0, <1>3
       DEF RunDrop, RunDropFull, EngOK, NodeOK, QuietOutsideSession
  <2> QED
    BY <1>0, <1>3, <2>1, RestSame DEF RunDrop, RunDropFull
<1>4. CASE RunWaitInd
  <2>1. EngOK' /\ NodeOK' /\ QuietOutsideSession'
    BY <1>0, <1>4
       DEF RunWaitInd, ToConnect, EngOK, NodeOK, QuietOutsideSession
  <2> QED
    BY <1>0, <1>4, <2>1, RestSame DEF RunWaitInd
<1>5. CASE RunAlreadyConnected
  <2>1. act.valid /\ ~act.exit /\ act \in ActiveNode
        /\ (act.remain # {} => act.doing \in Prof)
    BY <1>5, NodeFacts DEF RunAlreadyConnected, ToConnect
  <2>2. Kept(StepSuc(act), act)
    BY <2>1, StepKept
  <2>3. EngOK' /\ NodeOK' /\ QuietOutsideSession'
    BY <1>0, <1>5, <2>1, <2>2, ActiveCases
       DEF RunAlreadyConnected, Kept, EngOK, NodeOK, QuietOutsideSession
  <2> QED
    BY <1>0, <1>5, <2>3, RestSame DEF RunAlreadyConnected
<1>6. CASE RunSearch
  <2>1. act.addr \in Addr /\ act.doing \in Prof
    BY <1>6, NodeFacts DEF RunSearch, ToSearch, ToConnect
  <2>2. EngOK' /\ NodeOK' /\ QuietOutsideSession'
    BY <1>0, <1>6, <2>1
       DEF RunSearch, nodeVars, EngOK, NodeOK, QuietOutsideSession
  <2>3. RestOK'
    BY <1>6, <2>1 DEF RunSearch, tableVars, RestOK
  <2> QED
    BY <2>2, <2>3
<1>7. CASE RunSearchRefused
  <2>1. act.valid /\ ~act.exit /\ act \in ActiveNode
        /\ (act.remain # {} => act.doing \in Prof)
    BY <1>7, NodeFacts DEF RunSearchRefused, ToSearch, ToConnect
  <2>2. Kept(StepFail(act), act)
    BY <2>1, StepKept
  <2>3. EngOK' /\ NodeOK' /\ QuietOutsideSession'
    BY <1>0, <1>7, <2>1, <2>2, ActiveCases
       DEF RunSearchRefused, Kept, EngOK, NodeOK, QuietOutsideSession
  <2>4. budget' \in 0 .. Budget
    BY <1>7, DisturbOK DEF RunSearchRefused
  <2> QED
    BY <1>7, <2>3, <2>4, RestSame DEF RunSearchRefused
<1> QED
  BY <1>1, <1>2, <1>3, <1>4, <1>5, <1>6, <1>7 DEF Run

\* Power on and the end of a stop load the bonded devices; a stop puts the
\* active node back.
LEMMA SessionCommandsKeep ==
  ASSUME EInv, Startup \/ Restore \/ Stop
  PROVE  EInv'
<1> USE DEF EInv
<1>0. NoNode \in Active /\ ~NoNode.valid /\ budget \in 0 .. Budget
  BY ActiveCases DEF EngOK, RestOK
<1>1. CASE Startup \/ Restore
  <2>1. mode # "linkback" /\ LinkbackSched /\ UNCHANGED budget
    BY <1>1 DEF Startup, Restore
  <2>2. timer = 0 /\ ~delay /\ ~running
    BY <2>1 DEF QuietOutsideSession
  <2>3. GoodTodo(todo')
    BY <2>1, LoadBondListGood DEF LinkbackSched
  <2>4. EngOK' /\ NodeOK'
    BY <1>0, <2>1, <2>2, <2>3 DEF LinkbackSched, EngOK, NodeOK
  <2>5. QuietOutsideSession'
    BY <1>0, <2>1, <2>2 DEF LinkbackSched, QuietOutsideSession
  <2>6. UNCHANGED <<tableVars, stackVars>>
    BY <2>1 DEF LinkbackSched
  <2> QED
    BY <1>0, <2>1, <2>4, <2>5, <2>6, RestSame
<1>2. CASE Stop
  <2>1. GoodTodo(todo')
    BY <1>2, UseLeftTimeGood DEF Stop, EngOK
  <2>2. EngOK' /\ NodeOK' /\ QuietOutsideSession'
    BY <1>0, <1>2, <2>1 DEF Stop, EngOK, NodeOK, QuietOutsideSession
  <2>3. budget' \in 0 .. Budget
    BY <1>2, DisturbOK DEF Stop
  <2>4. PageLinkOK' /\ sdp' \in [Addr -> SUBSET Prof]
    <3>1. CASE act.valid /\ act.addr \notin tracked
      BY <1>2, <3>1, NodeFacts, AclDisconnectType
         DEF Stop, StopSearch, PageLinkOK, RestOK
    <3>2. CASE ~(act.valid /\ act.addr \notin tracked)
      BY <1>2, <3>2 DEF Stop, StopSearch, PageLinkOK, RestOK
    <3> QED
      BY <3>1, <3>2
  <2>5. RestOK'
    BY <1>2, <2>3, <2>4 DEF Stop, tableVars, PageLinkOK, RestOK
  <2> QED
    BY <2>2, <2>5
<1> QED
  BY <1>1, <1>2

\* More profiles for the active node.
LEMMA MoreProfsKeep ==
  ASSUME EInv, mode = "linkback", ~running, act.valid, NEW ps \in SUBSET Prof,
         MoreProfs(act, ps), UNCHANGED <<mode, running, delay, afterStop>>
  PROVE  EngOK' /\ NodeOK' /\ QuietOutsideSession'
<1> USE DEF EInv
<1>1. act \in ActiveNode /\ act.doing \in Prof
  BY NodeFacts
<1>2. /\ Kept(ProfsAdd(act, ps), act)
      /\ ProfsAdd(act, ps).doing = act.doing
  BY <1>1, ProfsKept
<1>3. LinkbackTimeout + 1 \in Nat
  BY TimeoutNat
<1>4. EngOK'
  BY <1>2, <1>3, ActiveCases DEF MoreProfs, Kept, EngOK
<1>5. NodeOK'
  BY <1>1, <1>2 DEF MoreProfs, Kept, NodeOK
<1> QED
  BY <1>4, <1>5 DEF QuietOutsideSession

\* A forced node for another device than the active one.
LEMMA ForceNodeKeeps ==
  ASSUME EngOK, NodeOK, NEW a \in Addr, NEW ps \in SUBSET Prof, ~Current(a)
  PROVE  /\ GoodTodo(InsertForce(todo, ForceNode(a, ps)))
         /\ act.valid => act.exit
              \/ ~Queued(InsertForce(todo, ForceNode(a, ps)), act.addr)
<1>1. ForceNode(a, ps) \in Node /\ ForceNode(a, ps).addr = a
  BY ANodeType, TimeoutNat DEF ForceNode
<1>2. GoodTodo(todo)
  BY DEF EngOK
<1>3. GoodTodo(InsertForce(todo, ForceNode(a, ps)))
  BY <1>1, <1>2, InsertGood
<1>4. Queued(InsertForce(todo, ForceNode(a, ps)), act.addr) =>
        act.addr = a \/ Queued(todo, act.addr)
  BY <1>1, <1>2, InsertQueued
<1> QED
  BY <1>3, <1>4 DEF NodeOK, Current

\* The commands of the user.
LEMMA ConnectKeeps ==
  ASSUME EInv, NEW a \in Addr, NEW ps \in SUBSET Prof, Connect(a, ps)
  PROVE  EInv'
<1> USE DEF EInv
<1>1. ~running /\ UNCHANGED <<delay, afterStop, tableVars, stackVars>>
  BY DEF Connect
<1>2. RestOK'
  BY <1>1, DisturbOK, RestSame DEF Connect
<1>3. CASE mode = "linkback" /\ Current(a)
  <2>1. MoreProfs(act, ps) /\ UNCHANGED <<mode, running>> /\ act.valid
    BY <1>3 DEF Connect, Current
  <2> QED
    BY <1>1, <1>2, <1>3, <2>1, MoreProfsKeep
<1>4. CASE mode = "linkback" /\ ~Current(a)
  <2>1. /\ todo' = InsertForce(todo, ForceNode(a, ps))
        /\ UNCHANGED <<mode, running, act, timer, used>>
    BY <1>4 DEF Connect
  <2>2. EngOK' /\ NodeOK' /\ QuietOutsideSession'
    BY <1>1, <1>4, <2>1, ForceNodeKeeps DEF EngOK, NodeOK, QuietOutsideSession
  <2> QED
    BY <1>2, <2>2
<1>5. CASE mode = "stable"
  <2>1. /\ todo' = InsertForce(todo, ForceNode(a, ps))
        /\ mode' = "linkback" /\ running' = TRUE
        /\ UNCHANGED <<act, timer, used>>
    BY <1>5 DEF Connect
  <2>2. ~act.valid /\ ~Current(a)
    BY <1>5 DEF QuietOutsideSession, Current
  <2>3. EngOK' /\ NodeOK' /\ QuietOutsideSession'
    BY <1>1, <2>1, <2>2, ForceNodeKeeps DEF EngOK, NodeOK, QuietOutsideSession
  <2> QED
    BY <1>2, <2>3
<1> QED
  BY <1>3, <1>4, <1>5 DEF Connect

LEMMA DisconnectKeeps ==
  ASSUME EInv, NEW a \in Addr, NEW ps \in SUBSET Prof, Disconnect(a, ps)
  PROVE  EInv'
<1> USE DEF EInv
<1>1. GoodTodo(todo') /\ (Queued(todo', act.addr) => Queued(todo, act.addr))
  BY RemovePlanGood, LessQueued DEF Disconnect, EngOK
<1>2. ~running /\ UNCHANGED <<mode, running, used, timer, delay, afterStop>>
  BY DEF Disconnect
<1>3. budget' \in 0 .. Budget
  BY DisturbOK DEF Disconnect
<1>4. ps \cap profs[a] \in SUBSET Prof /\ ToClose(a, ps) \in SUBSET Prof
  BY DEF ToClose, RestOK
<1>5. RestOK'
  BY <1>3, <1>4 DEF Disconnect, AclDisconnect, RestOK
<1>6. CASE Current(a)
  <2>1. act.valid /\ act \in ActiveNode /\ act.doing \in Prof
    BY <1>2, <1>6, NodeFacts DEF Current
  <2>2. /\ Kept(ProfsSub(act, ps), act)
        /\ ProfsSub(act, ps).doing = act.doing
    BY <2>1, ProfsKept
  <2>3. act' = ProfsSub(act, ps)
    BY <1>6 DEF Disconnect
  <2>4. EngOK' /\ NodeOK'
    BY <1>1, <1>2, <2>1, <2>2, <2>3, ActiveCases DEF Kept, EngOK, NodeOK
  <2>5. QuietOutsideSession'
    BY <1>2, <2>1, <2>3 DEF QuietOutsideSession
  <2> QED
    BY <1>5, <2>4, <2>5
<1>7. CASE ~Current(a)
  BY <1>1, <1>2, <1>5, <1>7 DEF Disconnect, EngOK, NodeOK, QuietOutsideSession
<1> QED
  BY <1>6, <1>7

\* EVENT_SRC_CONN_TIMEOUT, which both the timer and an authentication raise.
LEMMA ConnTimeoutKeeps ==
  ASSUME EInv, ~running, mode = "linkback", ConnTimeout
  PROVE  /\ EngOK' /\ NodeOK' /\ QuietOutsideSession'
         /\ PageLinkOK' /\ sdp' \in [Addr -> SUBSET Prof]
<1> USE DEF EInv
<1>1. /\ GoodTodo(todo) /\ GoodTodo(todo')
      /\ Queued(todo', act.addr) => Queued(todo, act.addr)
  BY WithoutGroupGood, LessQueued DEF ConnTimeout, EngOK
<1>2. UNCHANGED <<mode, used>> /\ timer' = 0
  BY DEF ConnTimeout
<1>3. CASE ~act.valid \/ delay
  <2>1. /\ delay' = (delay /\ ~act.valid) /\ running' = TRUE
        /\ UNCHANGED <<act, afterStop, sdp, page, link>>
    BY <1>3 DEF ConnTimeout
  <2>2. delay' \in BOOLEAN
    BY <2>1
  <2>3. EngOK' /\ NodeOK' /\ QuietOutsideSession'
    BY <1>1, <1>2, <2>1, <2>2 DEF EngOK, NodeOK, QuietOutsideSession
  <2> QED
    BY <2>1, <2>3 DEF PageLinkOK, RestOK
<1>4. CASE act.valid /\ ~delay /\ act.addr \notin tracked
  <2>1. /\ afterStop' = TRUE
        /\ StopSearch(act.addr) /\ AclDisconnect(act.addr)
        /\ UNCHANGED <<act, delay, running>>
    BY <1>4 DEF ConnTimeout
  <2>2. EngOK' /\ NodeOK' /\ QuietOutsideSession'
    BY <1>1, <1>2, <2>1 DEF EngOK, NodeOK, QuietOutsideSession
  <2>3. PageLinkOK' /\ sdp' \in [Addr -> SUBSET Prof]
    BY <1>4, <2>1, NodeFacts, AclDisconnectType DEF StopSearch, RestOK
  <2> QED
    BY <2>2, <2>3
<1>5. CASE act.valid /\ ~delay /\ act.addr \in tracked
  <2>1. /\ act' = [act EXCEPT !.plan = {}]
        /\ UNCHANGED <<delay, running, afterStop, sdp, page, link>>
    BY <1>5 DEF ConnTimeout
  <2>2. act \in ActiveNode /\ act.doing \in Prof
    BY <1>5, NodeFacts
  <2>3. /\ act' \in ActiveNode /\ act'.addr = act.addr
        /\ act'.exit = act.exit /\ act'.doing = act.doing
    BY <2>1, <2>2 DEF ActiveNode
  <2>4. EngOK' /\ NodeOK' /\ QuietOutsideSession'
    BY <1>1, <1>2, <1>5, <2>1, <2>2, <2>3, ActiveCases
       DEF EngOK, NodeOK, QuietOutsideSession
  <2> QED
    BY <2>1, <2>4 DEF PageLinkOK, RestOK
<1> QED
  BY <1>3, <1>4, <1>5

LEMMA TimersKeep ==
  ASSUME EInv, TimerFires
  PROVE  EInv'
<1> USE DEF EInv
<1>0. budget \in 0 .. Budget
  BY DEF RestOK
<1>1. CASE Tick
  <2>1. act.valid /\ mode = "linkback"
    BY <1>1 DEF Tick, QuietOutsideSession
  <2>2. used' \in Nat /\ timer' \in Nat
    BY <1>1, TimeoutNat DEF Tick, EngOK
  <2>3. EngOK' /\ NodeOK' /\ QuietOutsideSession'
    BY <1>1, <2>1, <2>2 DEF Tick, EngOK, NodeOK, QuietOutsideSession
  <2> QED
    BY <1>0, <1>1, <2>3, RestSame DEF Tick
<1>2. CASE LinkbackTimerFires
  <2>1. ~running /\ mode = "linkback" /\ ConnTimeout
    BY <1>2 DEF LinkbackTimerFires, QuietOutsideSession
  <2>2. /\ EngOK' /\ NodeOK' /\ QuietOutsideSession'
        /\ PageLinkOK' /\ sdp' \in [Addr -> SUBSET Prof]
    BY <2>1, ConnTimeoutKeeps
  <2>3. UNCHANGED <<inc, pconn, pdisc, auth, tableVars, budget>>
    BY <1>2, <2>1 DEF LinkbackTimerFires, ConnTimeout
  <2>4. RestOK'
    BY <2>2, <2>3 DEF RestOK, PageLinkOK, tableVars
  <2> QED
    BY <2>2, <2>4
<1>3. CASE DelayTimerFires
  <2>1. ~running /\ mode = "linkback"
    BY <1>3 DEF DelayTimerFires, QuietOutsideSession
  <2>2. CASE act.valid
    <3>1. act \in ActiveNode /\ (act.remain # {} => act.doing \in Prof)
      BY <2>2, NodeFacts
    <3>2. Kept(ConnFailAdjust(act), act)
      BY <3>1, StepKept
    <3>3. EngOK' /\ NodeOK' /\ QuietOutsideSession'
      BY <1>3, <2>1, <2>2, <3>2, ActiveCases
         DEF DelayTimerFires, Kept, EngOK, NodeOK, QuietOutsideSession
    <3> QED
      BY <1>0, <1>3, <3>3, RestSame DEF DelayTimerFires
  <2>3. CASE ~act.valid
    <3>1. EngOK' /\ NodeOK' /\ QuietOutsideSession'
      BY <1>3, <2>1, <2>3
         DEF DelayTimerFires, EngOK, NodeOK, QuietOutsideSession
    <3> QED
      BY <1>0, <1>3, <3>1, RestSame DEF DelayTimerFires
  <2> QED
    BY <2>2, <2>3
<1>4. ASSUME NEW a \in Addr, IndTimerFires(a)
      PROVE  EInv'
  <2>1. EngOK' /\ NodeOK' /\ QuietOutsideSession'
    BY <1>4
       DEF IndTimerFires, engVars, nodeVars, EngOK, NodeOK, QuietOutsideSession
  <2>2. RestOK'
    BY <1>4 DEF IndTimerFires, stackVars, RestOK
  <2> QED
    BY <2>1, <2>2
<1>5. ASSUME NEW a \in Addr, LaterAvrcpFires(a)
      PROVE  EInv'
  <2>1. /\ ~running /\ UNCHANGED <<mode, running, delay, afterStop>>
        /\ UNCHANGED <<tracked, profs, closeAfter, ind, link, page, inc, auth,
                       sdp, pdisc, budget>>
        /\ later' = later \ {a}
    BY <1>5 DEF LaterAvrcpFires
  <2>2. CASE "AVRCP" \in Prof
    <3>1. pconn' \in [Addr -> SUBSET Prof]
      BY <1>5, <2>2 DEF LaterAvrcpFires, RestOK
    <3>2. RestOK'
      BY <2>1, <3>1 DEF RestOK
    <3>3. CASE mode = "linkback" /\ Current(a)
      <4>1. MoreProfs(act, {"AVRCP"}) /\ act.valid
        BY <1>5, <3>3 DEF LaterAvrcpFires, Current
      <4> QED
        BY <2>1, <2>2, <3>2, <3>3, <4>1, MoreProfsKeep
    <3>4. CASE mode = "linkback" /\ ~Current(a)
      <4>1. /\ todo' = InsertForce(todo, ForceNode(a, {"AVRCP"}))
            /\ UNCHANGED <<act, timer, used>>
        BY <1>5, <3>4 DEF LaterAvrcpFires
      <4>2. EngOK' /\ NodeOK' /\ QuietOutsideSession'
        BY <2>1, <2>2, <3>4, <4>1, ForceNodeKeeps
           DEF EngOK, NodeOK, QuietOutsideSession
      <4> QED
        BY <3>2, <4>2
    <3>5. CASE mode # "linkback"
      <4>1. UNCHANGED <<todo, act, timer, used>>
        BY <1>5, <3>5 DEF LaterAvrcpFires
      <4> QED
        BY <2>1, <3>2, <4>1 DEF EngOK, NodeOK, QuietOutsideSession
    <3> QED
      BY <3>3, <3>4, <3>5
  <2>3. "AVRCP" \in Prof
    BY <1>5 DEF LaterAvrcpFires, RestOK
  <2> QED
    BY <2>2, <2>3
<1> QED
  BY <1>1, <1>2, <1>3, <1>4, <1>5 DEF TimerFires

-----------------------------------------------------------------------------
(* What the stack reports of links.                                         *)

\* A page or an incoming connection that failed: the active node is tried again,
\* put back or dropped, or the engine looks again later.
LEMMA ConnFailKeeps ==
  ASSUME EInv, ~running, NEW a \in Addr, UNCHANGED <<mode, used>>,
         \/ ConnFailHandler(a) /\ UNCHANGED delay
         \/ DelayRetry(a)
  PROVE  EngOK' /\ NodeOK' /\ QuietOutsideSession'
<1> USE DEF EInv
<1>0. NoNode \in Active /\ ~NoNode.valid
  BY ActiveCases DEF EngOK
<1>1. CASE ConnFailHandler(a) /\ UNCHANGED delay
  <2>1. CASE mode = "linkback" /\ Current(a) /\ todo = <<>>
    <3>1. act.valid /\ act \in ActiveNode /\ (act.remain # {} => act.doing \in Prof)
      BY <2>1, NodeFacts DEF Current
    <3>2. Kept(ConnFailAdjust(act), act)
      BY <3>1, StepKept
    <3>3. /\ act' \in {NoNode, ConnFailAdjust(act)}
          /\ UNCHANGED <<todo, timer>> /\ afterStop' = FALSE /\ running' = TRUE
      BY <1>1, <2>1 DEF ConnFailHandler
    <3> QED
      BY <1>0, <1>1, <2>1, <3>1, <3>2, <3>3, ActiveCases
         DEF Kept, EngOK, NodeOK, QuietOutsideSession
  <2>2. CASE mode = "linkback" /\ Current(a) /\ todo # <<>>
    <3>1. /\ timer' = 0 /\ todo' = UseLeftTime(TRUE) /\ act' = NoNode
          /\ afterStop' = FALSE /\ running' = TRUE
      BY <1>1, <2>2 DEF ConnFailHandler
    <3>2. GoodTodo(todo')
      BY <2>2, <3>1, UseLeftTimeGood DEF Current
    <3> QED
      BY <1>0, <1>1, <2>2, <3>1, <3>2 DEF EngOK, NodeOK, QuietOutsideSession
  <2>3. CASE ~(mode = "linkback" /\ Current(a))
    BY <1>1, <2>3 DEF ConnFailHandler, EngOK, NodeOK, QuietOutsideSession
  <2> QED
    BY <2>1, <2>2, <2>3
<1>2. CASE DelayRetry(a)
  BY <1>2 DEF DelayRetry, EngOK, NodeOK, QuietOutsideSession
<1> QED
  BY <1>1, <1>2

LEMMA PageEndsKeep ==
  ASSUME EInv, NEW a \in Addr,
         PageSuc(a) \/ PageFail(a) \/ PageFailExist(a) \/ PageFailBusy(a)
  PROVE  EInv'
<1> USE DEF EInv
<1>0. budget \in 0 .. Budget /\ NoNode \in Active /\ ~NoNode.valid
  BY ActiveCases DEF RestOK, EngOK
<1>1. CASE PageSuc(a)
  <2>1. EngOK' /\ NodeOK' /\ QuietOutsideSession'
    BY <1>1
       DEF PageSuc, LinkUp, engVars, nodeVars, EngOK, NodeOK,
           QuietOutsideSession
  <2>2. RestOK'
    BY <1>0, <1>1 DEF PageSuc, LinkUp, RestOK
  <2> QED
    BY <2>1, <2>2
<1>2. CASE PageFail(a)
  <2>1. /\ ~running /\ ConnFailHandler(a) /\ StopSearch(a)
        /\ page' = [page EXCEPT ![a] = "no"]
        /\ UNCHANGED <<mode, used, delay, tableVars, link, inc, auth, pconn,
                       pdisc, budget>>
    BY <1>2 DEF PageFail, PageEnds
  <2>2. RestOK'
    BY <2>1 DEF StopSearch, tableVars, RestOK
  <2> QED
    BY <2>1, <2>2, ConnFailKeeps
<1>3. CASE PageFailExist(a) \/ PageFailBusy(a)
  <2>1. /\ DelayRetry(a) /\ ~running
        /\ page' = [page EXCEPT ![a] = "no"]
        /\ StopSearch(a) \/ UNCHANGED sdp
        /\ UNCHANGED <<mode, used, tableVars, link, inc, auth, pconn, pdisc>>
    BY <1>3 DEF PageFailExist, PageFailBusy, PageEnds
  <2>2. budget' \in 0 .. Budget
    BY <1>0, <1>3, DisturbOK DEF PageFailExist, PageFailBusy
  <2>3. EngOK' /\ NodeOK' /\ QuietOutsideSession'
    BY <2>1 DEF DelayRetry, EngOK, NodeOK, QuietOutsideSession
  <2>4. sdp' \in [Addr -> SUBSET Prof]
    BY <2>1 DEF StopSearch, RestOK
  <2>5. RestOK'
    BY <2>1, <2>2, <2>4 DEF tableVars, RestOK
  <2> QED
    BY <2>3, <2>5
<1> QED
  BY <1>1, <1>2, <1>3

LEMMA IncomingKeeps ==
  ASSUME EInv, NEW a \in Addr,
         Incoming(a) \/ IncomingUp(a) \/ IncomingFails(a) \/ AuthSuc(a)
  PROVE  EInv'
<1> USE DEF EInv
<1>0. budget \in 0 .. Budget
  BY DEF RestOK
<1>1. CASE Incoming(a) \/ IncomingUp(a)
  <2>1. UNCHANGED engVars
    BY <1>1 DEF Incoming, IncomingUp, LinkUp
  <2>2. EngOK' /\ NodeOK' /\ QuietOutsideSession'
    BY <2>1 DEF engVars, nodeVars, EngOK, NodeOK, QuietOutsideSession
  <2>3. CASE Incoming(a)
    <3>1. budget' \in 0 .. Budget
      BY <2>3, DisturbOK DEF Incoming
    <3> QED
      BY <2>2, <2>3, <3>1 DEF Incoming, RestOK
  <2>4. CASE IncomingUp(a)
    <3>1. RestOK'
      BY <1>0, <2>4 DEF IncomingUp, LinkUp, RestOK
    <3> QED
      BY <2>2, <3>1
  <2> QED
    BY <1>1, <2>3, <2>4
<1>2. CASE AuthSuc(a)
  <2>1. ~running /\ auth' = auth \cup {a} /\ UNCHANGED <<tableVars, budget>>
    BY <1>2 DEF AuthSuc
  <2>2. CASE UNCHANGED <<engVars, sdp, page, link, inc, pconn, pdisc>>
    <3>1. EngOK' /\ NodeOK' /\ QuietOutsideSession'
      BY <2>2 DEF engVars, nodeVars, EngOK, NodeOK, QuietOutsideSession
    <3>2. RestOK'
      BY <2>1, <2>2 DEF tableVars, RestOK
    <3> QED
      BY <3>1, <3>2
  <2>3. CASE mode = "linkback" /\ ConnTimeout
    <3>1. /\ EngOK' /\ NodeOK' /\ QuietOutsideSession'
          /\ PageLinkOK' /\ sdp' \in [Addr -> SUBSET Prof]
      BY <2>1, <2>3, ConnTimeoutKeeps
    <3>2. UNCHANGED <<inc, pconn, pdisc>>
      BY <2>3 DEF ConnTimeout
    <3>3. RestOK'
      BY <2>1, <3>1, <3>2 DEF tableVars, PageLinkOK, RestOK
    <3> QED
      BY <3>1, <3>3
  <2> QED
    BY <1>2, <2>2, <2>3 DEF AuthSuc
<1>3. CASE IncomingFails(a)
  <2>1. RestOK'
    BY <1>0, <1>3 DEF IncomingFails, tableVars, RestOK
  <2> QED
    BY <1>3, <2>1, ConnFailKeeps DEF IncomingFails
<1> QED
  BY <1>1, <1>2, <1>3

LEMMA LinkGoneType ==
  ASSUME RestOK, NEW a \in Addr, LinkGone(a), budget' \in 0 .. Budget
  PROVE  RestOK'
BY DEF RestOK, LinkGone

\* The node of a link that went down: a queue that gained no device but that
\* one keeps the invariant.
LEMMA ExitNodeKeeps ==
  ASSUME EInv, NEW a \in Addr, ~running, ExitNode(a),
         UNCHANGED <<mode, used, timer, delay>>,
         GoodTodo(todo'),
         \A b : Queued(todo', b) => b = a \/ Queued(todo, b)
  PROVE  EngOK' /\ NodeOK' /\ QuietOutsideSession'
<1> USE DEF EInv
<1>1. CASE mode = "linkback" /\ Current(a)
  <2>1. /\ act' = [act EXCEPT !.exit = TRUE]
        /\ afterStop' = FALSE /\ running' = TRUE
    BY <1>1 DEF ExitNode
  <2>2. act \in ActiveNode /\ act.doing \in Prof /\ act.valid
    BY <1>1, NodeFacts DEF Current
  <2>3. act' \in ActiveNode /\ act'.exit /\ act'.doing = act.doing
    BY <2>1, <2>2 DEF ActiveNode
  <2> QED
    BY <1>1, <2>1, <2>2, <2>3, ActiveCases
       DEF EngOK, NodeOK, QuietOutsideSession
<1>2. CASE mode = "linkback" /\ ~Current(a)
  <2>1. UNCHANGED <<act, afterStop, running>>
    BY <1>2 DEF ExitNode
  <2>2. act.valid => act.addr # a
    BY <1>2 DEF Current
  <2> QED
    BY <1>2, <2>1, <2>2 DEF EngOK, NodeOK, QuietOutsideSession
<1>3. CASE mode # "linkback"
  <2>1. UNCHANGED <<act, afterStop, running>>
    BY <1>3 DEF ExitNode
  <2> QED
    BY <1>3, <2>1 DEF EngOK, NodeOK, QuietOutsideSession
<1> QED
  BY <1>1, <1>2, <1>3

LEMMA DisconnKeeps ==
  ASSUME EInv, NEW a \in Addr, DisconnNormal(a) \/ DisconnLost(a)
  PROVE  EInv'
<1> USE DEF EInv
<1>1. CASE DisconnNormal(a)
  <2>1. /\ ~running /\ ExitNode(a) /\ LinkGone(a)
        /\ UNCHANGED <<mode, todo, used, timer, delay>>
    BY <1>1 DEF DisconnNormal
  <2>2. GoodTodo(todo') /\ \A b : Queued(todo', b) => Queued(todo, b)
    BY <2>1 DEF EngOK
  <2>3. EngOK' /\ NodeOK' /\ QuietOutsideSession'
    BY <2>1, <2>2, ExitNodeKeeps
  <2>4. budget' \in 0 .. Budget
    BY <1>1, DisturbOK DEF DisconnNormal, RestOK
  <2> QED
    BY <2>1, <2>3, <2>4, LinkGoneType
<1>2. CASE DisconnLost(a)
  <2> DEFINE n == ANode(a, BondPlan[a], LossTimeout, FALSE, FALSE)
  <2>1. n \in Node /\ n.addr = a
    <3>1. BondPlan[a] \in SUBSET Prof
      BY EngineAssumption
    <3> QED
      BY <3>1, ANodeType, TimeoutNat
  <2>2. /\ ~running /\ LinkGone(a) /\ UNCHANGED <<used, timer, delay>>
        /\ todo' = IF a \in tracked THEN InsertNormal(todo, n) ELSE todo
    BY <1>2 DEF DisconnLost
  <2> HIDE DEF n
  <2>3. GoodTodo(todo') /\ \A b : Queued(todo', b) => b = a \/ Queued(todo, b)
    BY <2>1, <2>2, InsertGood, InsertQueued DEF EngOK
  <2>4. RestOK'
    BY <1>2, <2>2, DisturbOK, LinkGoneType DEF DisconnLost
  <2>5. CASE mode = "stable"
    <3>1. mode' = "linkback" /\ running' = TRUE /\ UNCHANGED <<act, afterStop>>
      BY <1>2, <2>5 DEF DisconnLost
    <3>2. EngOK' /\ NodeOK' /\ QuietOutsideSession'
      BY <2>2, <2>3, <2>5, <3>1 DEF EngOK, NodeOK, QuietOutsideSession
    <3> QED
      BY <2>4, <3>2
  <2>6. CASE mode # "stable"
    <3>1. ExitNode(a) /\ UNCHANGED mode
      BY <1>2, <2>6 DEF DisconnLost
    <3>2. EngOK' /\ NodeOK' /\ QuietOutsideSession'
      BY <2>2, <2>3, <3>1, ExitNodeKeeps
    <3> QED
      BY <2>4, <3>2
  <2> QED
    BY <2>5, <2>6
<1> QED
  BY <1>1, <1>2

-----------------------------------------------------------------------------
(* What the stack reports of searches and profiles.                         *)

\* The active node makes a step and the run goes on.
LEMMA StepKeeps ==
  ASSUME EInv, ~running, mode = "linkback", act.valid,
         act' \in {StepSuc(act), StepFail(act)}, running' = TRUE,
         UNCHANGED <<mode, todo, used, timer, delay, afterStop>>
  PROVE  EngOK' /\ NodeOK' /\ QuietOutsideSession'
<1> USE DEF EInv
<1>1. act \in ActiveNode /\ (act.remain # {} => act.doing \in Prof)
  BY NodeFacts
<1>2. Kept(act', act)
  BY <1>1, StepKept
<1> QED
  BY <1>2, ActiveCases DEF Kept, EngOK, NodeOK, QuietOutsideSession

LEMMA SearchKeeps ==
  ASSUME EInv, NEW a \in Addr,
         SdpAttr(a) \/ \E p \in Prof : SdpCmpl(a, p)
  PROVE  EInv'
<1> USE DEF EInv
<1>1. CASE SdpAttr(a)
  <2>1. act.valid /\ act' = [act EXCEPT !.sdpOk = TRUE] /\ mode = "linkback"
        /\ ~running
    BY <1>1 DEF SdpAttr, Current
  <2>2. act \in ActiveNode /\ act.doing \in Prof
    BY <2>1, NodeFacts
  <2>3. /\ act' \in ActiveNode /\ act'.addr = act.addr
        /\ act'.exit = act.exit /\ act'.doing = act.doing
    BY <2>1, <2>2 DEF ActiveNode
  <2>4. UNCHANGED <<mode, running, todo, used, timer, delay, afterStop>>
    BY <1>1 DEF SdpAttr
  <2>5. EngOK' /\ NodeOK' /\ QuietOutsideSession'
    BY <2>1, <2>2, <2>3, <2>4, ActiveCases
       DEF EngOK, NodeOK, QuietOutsideSession
  <2>6. RestOK'
    BY <1>1, RestSame DEF SdpAttr, RestOK
  <2> QED
    BY <2>5, <2>6
<1>2. ASSUME NEW p \in Prof, SdpCmpl(a, p)
      PROVE  EInv'
  <2>1. /\ ~running
        /\ sdp' = [sdp EXCEPT ![a] = @ \ {p}]
        /\ UNCHANGED <<mode, todo, used, timer, delay, afterStop, tableVars,
                       link, page, inc, auth, pdisc>>
    BY <1>2 DEF SdpCmpl
  <2>2. budget' \in 0 .. Budget
    BY <1>2, DisturbOK DEF SdpCmpl, RestOK
  <2>3. \/ UNCHANGED <<act, running>>
        \/ /\ mode = "linkback" /\ act.valid /\ running' = TRUE
           /\ act' \in {StepSuc(act), StepFail(act)}
    BY <1>2 DEF SdpCmpl, Current
  <2>4. EngOK' /\ NodeOK' /\ QuietOutsideSession'
    <3>1. CASE UNCHANGED <<act, running>>
      BY <2>1, <3>1 DEF EngOK, NodeOK, QuietOutsideSession
    <3>2. CASE ~UNCHANGED <<act, running>>
      BY <2>1, <2>3, <3>2, StepKeeps
    <3> QED
      BY <3>1, <3>2
  <2>5. \/ UNCHANGED pconn
        \/ act.valid /\ pconn' = [pconn EXCEPT ![a] = @ \cup {act.doing}]
    BY <1>2 DEF SdpCmpl, Current
  <2>6. pconn' \in [Addr -> SUBSET Prof]
    BY <2>1, <2>5, NodeFacts DEF RestOK
  <2>7. RestOK'
    BY <2>1, <2>2, <2>6 DEF tableVars, RestOK
  <2> QED
    BY <2>4, <2>7
<1> QED
  BY <1>1, <1>2

\* The first profile of a link asks for the DID of the device before the engine
\* looks at its own progress: a forced node, or one profile more.
LEMMA ProfConnectedKeeps ==
  ASSUME EInv, NEW a \in Addr, NEW p \in Prof, ProfConnected(a, p)
  PROVE  EInv'
<1> USE DEF EInv
<1> DEFINE first == profs[a] = {}
           cur   == mode = "linkback" /\ Current(a)
           act1  == IF first /\ cur THEN ProfsAdd(act, {"DID"}) ELSE act
           done  == cur /\ act.doing = p /\ act.sdpOk
<1>1. /\ ~running /\ ProfSuc(a, p)
      /\ UNCHANGED <<mode, delay, afterStop, tracked, closeAfter, ind, link,
                     page, inc, auth, pdisc>>
      /\ pconn' = [pconn EXCEPT ![a] = @ \ {p}]
  BY DEF ProfConnected, ProfSuc
<1>2. budget' \in 0 .. Budget
  BY DisturbOK DEF ProfConnected, RestOK
<1>3. {"DID"} \in SUBSET Prof
  BY ProfAssumption
<1>4. CASE a \notin tracked
  <2>1. UNCHANGED <<profs, later, act, running, timer, used, todo, sdp>>
    BY <1>1, <1>4 DEF ProfSuc
  <2>2. EngOK' /\ NodeOK' /\ QuietOutsideSession'
    BY <1>1, <2>1 DEF EngOK, NodeOK, QuietOutsideSession
  <2> QED
    BY <1>1, <1>2, <2>1, <2>2 DEF RestOK
<1>5. CASE a \in tracked
  <2>1. /\ profs' = [profs EXCEPT ![a] = @ \cup {p}]
        /\ later' = IF p = "A2DP" /\ "AVRCP" \in Prof \ profs[a]
                       /\ closeAfter[a] = {}
                    THEN later \cup {a}
                    ELSE IF p = "AVRCP" THEN later \ {a} ELSE later
        /\ sdp' = IF first /\ mode = "stable"
                  THEN [sdp EXCEPT ![a] = @ \cup {"DID"}] ELSE sdp
        /\ act' = IF done THEN StepSuc(act1) ELSE act1
        /\ running' = done
        /\ timer' = IF first /\ cur THEN LinkbackTimeout + 1 ELSE timer
        /\ used' = IF first /\ cur /\ todo = <<>> THEN 0 ELSE used
        /\ todo' = IF first /\ mode = "linkback" /\ ~cur
                   THEN InsertForce(todo, ForceNode(a, {"DID"})) ELSE todo
    BY <1>1, <1>5 DEF ProfSuc
  <2>2. RestOK'
    <3>1. profs' \in [Addr -> SUBSET Prof] /\ sdp' \in [Addr -> SUBSET Prof]
      BY <1>3, <2>1 DEF RestOK
    <3>2. later' \subseteq Addr /\ (later' # {} => "AVRCP" \in Prof)
      BY <2>1 DEF RestOK
    <3> QED
      BY <1>1, <1>2, <3>1, <3>2 DEF RestOK
  <2>3. CASE cur
    <3>1. act.valid /\ act \in ActiveNode /\ act.doing \in Prof
      BY <1>1, <2>3, NodeFacts DEF Current
    <3>2. Kept(act1, act) /\ act1.doing = act.doing
      BY <1>3, <3>1, ProfsKept, ActiveCases DEF Kept, EngOK
    <3>3. act1 \in ActiveNode /\ (act1.remain # {} => act1.doing \in Prof)
      BY <3>2 DEF Kept
    <3> HIDE DEF act1
    <3>4. Kept(StepSuc(act1), act1)
      BY <3>3, StepKept
    <3>5. /\ act' \in ActiveNode /\ act'.valid
          /\ act'.addr = act.addr /\ act'.exit = act.exit
          /\ (act'.remain # {} => act'.doing \in Prof)
          /\ (~running' => act'.doing \in Prof)
      BY <2>1, <3>1, <3>2, <3>4 DEF Kept
    <3>6. timer' \in Nat /\ used' \in Nat
      BY <2>1, TimeoutNat DEF EngOK
    <3>7. todo' = todo
      BY <2>1, <2>3
    <3>8. EngOK'
      BY <1>1, <2>1, <3>5, <3>6, <3>7, ActiveCases DEF EngOK
    <3>9. NodeOK'
      <4>1. running' \in BOOLEAN
        BY <3>8 DEF EngOK
      <4> QED
        BY <3>1, <3>5, <3>7, <4>1 DEF NodeOK
    <3>10. QuietOutsideSession'
      BY <1>1, <2>3 DEF QuietOutsideSession
    <3> QED
      BY <2>2, <3>8, <3>9, <3>10
  <2>4. CASE ~cur
    <3>1. UNCHANGED <<act, running, timer, used>>
      BY <1>1, <2>1, <2>4 DEF EngOK
    <3>2. CASE mode = "linkback"
      <4>1. ~Current(a)
        BY <2>4, <3>2
      <4>2. todo' \in {InsertForce(todo, ForceNode(a, {"DID"})), todo}
        BY <2>1
      <4>3. /\ GoodTodo(todo')
            /\ act.valid => act.exit \/ ~Queued(todo', act.addr)
        BY <1>3, <4>1, <4>2, ForceNodeKeeps DEF EngOK, NodeOK
      <4>4. EngOK' /\ NodeOK' /\ QuietOutsideSession'
        BY <1>1, <3>1, <3>2, <4>3 DEF EngOK, NodeOK, QuietOutsideSession
      <4> QED
        BY <2>2, <4>4
    <3>3. CASE mode # "linkback"
      <4>1. todo' = todo
        BY <2>1, <3>3
      <4>2. EngOK' /\ NodeOK' /\ QuietOutsideSession'
        BY <1>1, <3>1, <4>1 DEF EngOK, NodeOK, QuietOutsideSession
      <4> QED
        BY <2>2, <4>2
    <3> QED
      BY <3>2, <3>3
  <2> QED
    BY <2>3, <2>4
<1> QED
  BY <1>4, <1>5

LEMMA ProfEndsKeep ==
  ASSUME EInv, NEW a \in Addr, NEW p \in Prof,
         \/ ProfFail(a, p) \/ ProfFailSecurity(a, p) \/ ProfFailNoResource(a, p)
         \/ ProfDisconnected(a, p)
  PROVE  EInv'
<1> USE DEF EInv
<1>1. CASE ProfFail(a, p)
  <2>1. /\ ~running /\ pconn' = [pconn EXCEPT ![a] = @ \ {p}]
        /\ UNCHANGED <<mode, todo, used, timer, delay, afterStop, tableVars,
                       link, page, inc, auth, sdp, pdisc, budget>>
    BY <1>1 DEF ProfFail
  <2>2. \/ UNCHANGED <<act, running>>
        \/ /\ mode = "linkback" /\ act.valid /\ running' = TRUE
           /\ act' = StepFail(act)
    BY <1>1 DEF ProfFail, Current
  <2>3. EngOK' /\ NodeOK' /\ QuietOutsideSession'
    <3>1. CASE UNCHANGED <<act, running>>
      BY <2>1, <3>1 DEF EngOK, NodeOK, QuietOutsideSession
    <3>2. CASE ~UNCHANGED <<act, running>>
      BY <2>1, <2>2, <3>2, StepKeeps
    <3> QED
      BY <3>1, <3>2
  <2>4. RestOK'
    BY <2>1 DEF tableVars, RestOK
  <2> QED
    BY <2>3, <2>4
<1>2. CASE ProfFailSecurity(a, p)
  <2>1. budget' \in 0 .. Budget
    BY <1>2, DisturbOK DEF ProfFailSecurity
  <2>2. PageLinkOK'
    BY <1>2, AclDisconnectType DEF ProfFailSecurity, PageLinkOK, RestOK
  <2>3. RestOK'
    BY <1>2, <2>1, <2>2 DEF ProfFailSecurity, PageLinkOK, tableVars, RestOK
  <2>4. EngOK' /\ NodeOK' /\ QuietOutsideSession'
    BY <1>2 DEF ProfFailSecurity, engVars, nodeVars, EngOK, NodeOK,
                QuietOutsideSession
  <2> QED
    BY <2>3, <2>4
<1>3. CASE ProfFailNoResource(a, p)
  <2>1. budget' \in 0 .. Budget
    BY <1>3, DisturbOK DEF ProfFailNoResource
  <2>2. RestOK'
    BY <1>3, <2>1 DEF ProfFailNoResource, tableVars, RestOK
  <2>3. EngOK' /\ NodeOK' /\ QuietOutsideSession'
    BY <1>3
       DEF ProfFailNoResource, DelayRetry, EngOK, NodeOK, QuietOutsideSession
  <2> QED
    BY <2>2, <2>3
<1>4. CASE ProfDisconnected(a, p)
  <2>1. UNCHANGED <<engVars, tracked, later, ind, inc, auth, sdp, pconn>>
    BY <1>4 DEF ProfDisconnected
  <2>2. budget' \in 0 .. Budget
    BY <1>4, DisturbOK DEF ProfDisconnected, RestOK
  <2>3. PageLinkOK' /\ closeAfter' \in [Addr -> SUBSET Prof]
    BY <1>4, AclDisconnectType DEF ProfDisconnected, PageLinkOK, RestOK
  <2>4. profs' \in [Addr -> SUBSET Prof] /\ pdisc' \in [Addr -> SUBSET Prof]
    BY <1>4 DEF ProfDisconnected, RestOK
  <2>5. RestOK'
    BY <2>1, <2>2, <2>3, <2>4 DEF PageLinkOK, RestOK
  <2>6. EngOK' /\ NodeOK' /\ QuietOutsideSession'
    BY <2>1 DEF engVars, nodeVars, EngOK, NodeOK, QuietOutsideSession
  <2> QED
    BY <2>5, <2>6
<1> QED
  BY <1>1, <1>2, <1>3, <1>4

-----------------------------------------------------------------------------
(* Closing a link after its profiles.                                       *)

\* Only a command, the end of a profile and the end of the link change what the
\* link waits for.
LEMMA NextCloseAwaits ==
  ASSUME EInv, CloseAwaitsProfile, [Next]_vars
  PROVE  CloseAwaitsProfile'
<1>0. /\ profs \in [Addr -> SUBSET Prof] /\ closeAfter \in [Addr -> SUBSET Prof]
  BY DEF EInv, RestOK
<1>1. ASSUME UNCHANGED <<profs, closeAfter>>
      PROVE  CloseAwaitsProfile'
  BY <1>1 DEF CloseAwaitsProfile
<1>2. CASE Run \/ TimerFires
  <2>1. UNCHANGED <<profs, closeAfter>>
    BY <1>2
       DEF Run, RunTake, RunTakeEmptyPlan, RunFinish, RunDrop, RunWaitInd,
           RunAlreadyConnected, RunDropFull, RunSearch, RunSearchRefused,
           TimerFires, Tick, LinkbackTimerFires, DelayTimerFires,
           IndTimerFires, LaterAvrcpFires, tableVars
  <2> QED
    BY <1>1, <2>1
<1>3. CASE Command
  <2>1. ASSUME NEW a \in Addr, NEW ps, Disconnect(a, ps)
        PROVE  CloseAwaitsProfile'
    <3>1. /\ UNCHANGED profs
          /\ \/ UNCHANGED closeAfter
             \/ closeAfter' = [closeAfter EXCEPT ![a] = ToClose(a, ps)]
      BY <2>1 DEF Disconnect
    <3> QED
      BY <1>0, <3>1 DEF ToClose, CloseAwaitsProfile
  <2>2. CASE \/ Startup \/ Restore \/ Stop
             \/ \E a \in Addr, ps \in SUBSET (Prof \ {"DID"}) \ {{}} : Connect(a, ps)
    <3>1. UNCHANGED <<profs, closeAfter>>
      BY <2>2 DEF Startup, Restore, LinkbackSched, Stop, Connect, tableVars
    <3> QED
      BY <1>1, <3>1
  <2> QED
    BY <1>3, <2>1, <2>2 DEF Command
<1>4. ASSUME NEW a \in Addr,
             \/ PageSuc(a) \/ PageFail(a) \/ PageFailExist(a) \/ PageFailBusy(a)
             \/ Incoming(a) \/ IncomingUp(a) \/ IncomingFails(a) \/ AuthSuc(a)
             \/ SdpAttr(a)
      PROVE  CloseAwaitsProfile'
  <2>1. UNCHANGED <<profs, closeAfter>>
    BY <1>4
       DEF PageSuc, LinkUp, PageFail, PageFailExist, PageFailBusy, PageEnds,
           Incoming, IncomingUp, IncomingFails, AuthSuc, SdpAttr, tableVars
  <2> QED
    BY <1>1, <2>1
<1>5. ASSUME NEW a \in Addr, DisconnNormal(a) \/ DisconnLost(a)
      PROVE  CloseAwaitsProfile'
  <2>1. /\ profs' = [profs EXCEPT ![a] = {}]
        /\ closeAfter' = [closeAfter EXCEPT ![a] = {}]
    BY <1>5 DEF DisconnNormal, DisconnLost, LinkGone
  <2> QED
    BY <1>0, <2>1 DEF CloseAwaitsProfile
<1>6. ASSUME NEW a \in Addr, NEW p \in Prof,
             \/ SdpCmpl(a, p) \/ ProfFail(a, p) \/ ProfFailSecurity(a, p)
             \/ ProfFailNoResource(a, p)
      PROVE  CloseAwaitsProfile'
  <2>1. UNCHANGED <<profs, closeAfter>>
    BY <1>6 DEF SdpCmpl, ProfFail, ProfFailSecurity, ProfFailNoResource, tableVars
  <2> QED
    BY <1>1, <2>1
<1>7. ASSUME NEW a \in Addr, NEW p \in Prof, ProfConnected(a, p)
      PROVE  CloseAwaitsProfile'
  <2>1. /\ UNCHANGED closeAfter
        /\ profs' = profs \/ profs' = [profs EXCEPT ![a] = @ \cup {p}]
    BY <1>7 DEF ProfConnected, ProfSuc
  <2> QED
    BY <1>0, <2>1 DEF CloseAwaitsProfile
<1>8. ASSUME NEW a \in Addr, NEW p \in Prof, ProfDisconnected(a, p)
      PROVE  CloseAwaitsProfile'
  <2>1. /\ profs' = [profs EXCEPT ![a] = @ \ {p}]
        /\ IF closeAfter[a] # {} /\ (profs[a] \ {p}) \cap closeAfter[a] = {}
           THEN closeAfter' = [closeAfter EXCEPT ![a] = {}]
           ELSE UNCHANGED closeAfter
    BY <1>8 DEF ProfDisconnected
  <2> QED
    BY <1>0, <2>1 DEF CloseAwaitsProfile
<1>9. CASE UNCHANGED vars
  BY <1>1, <1>9 DEF vars, tableVars
<1> QED
  BY <1>2, <1>3, <1>4, <1>5, <1>6, <1>7, <1>8, <1>9 DEF Next, StackAnswer

-----------------------------------------------------------------------------
(* The theorems.                                                            *)

LEMMA InitEInv == Init => EInv
<1> SUFFICES ASSUME Init PROVE EInv
  OBVIOUS
<1>1. GoodTodo(<<>>)
  BY QueueMaxAssumption DEF GoodTodo, IsTodo, DistinctAddr
<1>2. NoNode \in Active /\ ~NoNode.valid
  BY DEF Active, NoNode
<1>3. Budget \in 0 .. Budget
  BY EngineAssumption
<1>4. EngOK
  BY <1>1, <1>2 DEF Init, EngOK
<1>5. NodeOK /\ QuietOutsideSession
  BY <1>2 DEF Init, NodeOK, QuietOutsideSession
<1>6. RestOK
  BY <1>3 DEF Init, RestOK
<1> QED
  BY <1>4, <1>5, <1>6 DEF EInv

LEMMA NextEInv == EInv /\ [Next]_vars => EInv'
<1> SUFFICES ASSUME EInv, [Next]_vars PROVE EInv'
  OBVIOUS
<1>1. CASE Run
  BY <1>1, RunKeeps
<1>2. CASE Command
  BY <1>2, SessionCommandsKeep, ConnectKeeps, DisconnectKeeps DEF Command
<1>3. CASE TimerFires
  BY <1>3, TimersKeep
<1>4. ASSUME NEW a \in Addr, StackAnswer(a) \/ Incoming(a) \/ DisconnLost(a)
      PROVE  EInv'
  BY <1>4, PageEndsKeep, IncomingKeeps, DisconnKeeps, SearchKeeps,
     ProfConnectedKeeps, ProfEndsKeep DEF StackAnswer
<1>5. CASE UNCHANGED vars
  BY <1>5 DEF vars, engVars, nodeVars, tableVars, stackVars, EInv, EngOK,
              NodeOK, QuietOutsideSession, RestOK
<1> QED
  BY <1>1, <1>2, <1>3, <1>4, <1>5 DEF Next

LEMMA SpecEInv == Spec => []EInv
<1> QED
  BY InitEInv, NextEInv, PTL DEF Spec

\* The engine's variables keep their types: whatever is merged, put back,
\* added or taken away, the queue fits its pool, a timeout is one of those the
\* configuration can produce, and the current profile is one the headset has.
THEOREM EngineTypeOK == Spec => []TypeOK
<1>1. EInv => TypeOK
  BY DEF EInv, EngOK, RestOK, TypeOK, GoodTodo
<1> QED
  BY <1>1, SpecEInv, PTL

\* No device is ever queued twice, or queued while it is the active node, by
\* any interleaving of losses, failures, commands and reloads.
THEOREM EngineOnePlace == Spec => []OnePlacePerDevice
<1>1. EInv => OnePlacePerDevice
  BY DEF EInv, EngOK, NodeOK, OnePlacePerDevice, GoodTodo
<1> QED
  BY <1>1, SpecEInv, PTL

\* No active node and no timer of a session outlives it.
THEOREM EngineQuiet == Spec => []QuietOutsideSession
<1>1. EInv => QuietOutsideSession
  BY DEF EInv
<1> QED
  BY <1>1, SpecEInv, PTL

\* A link waits to be closed only while a profile it waits for is connected:
\* the one whose end will close it.
THEOREM EngineCloseAwaits == Spec => []CloseAwaitsProfile
<1>1. Init => CloseAwaitsProfile
  BY DEF Init, CloseAwaitsProfile
<1>2. EInv /\ CloseAwaitsProfile /\ [Next]_vars => CloseAwaitsProfile'
  BY NextCloseAwaits
<1> QED
  BY <1>1, <1>2, SpecEInv, PTL DEF Spec

=============================================================================
