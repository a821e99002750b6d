---------------------- MODULE LinkbackSession_proofs ----------------------
(***************************************************************************)
(* What a session of the engine keeps, for any devices, profiles, timeouts, *)
(* link table and disturbances, except for those a theorem names.           *)
(*                                                                         *)
(* The budget: the members of the group loaded at power on share one value, *)
(* and it only shrinks.  Every step does one of four things with the queue  *)
(* and the active node (StepShape): it keeps the budgets, takes the first   *)
(* node, puts the active node back with the time it has left, or loads the  *)
(* bonded devices outside a session.  Both results follow from that.        *)
(*                                                                         *)
(* The end: the queue never holds a node without profiles (Planned), so a   *)
(* session ends only when nothing is queued.                                *)
(*                                                                         *)
(* Progress: between two messages something under way will call the engine  *)
(* back (Waits), and while neither a busy controller nor a phone that pages *)
(* the headset interferes, what is paged is paged for the active node and   *)
(* under its time limit (CalmInv).                                          *)
(*                                                                         *)
(* The clocks: a node's timer and its own clock are started and shortened by *)
(* different handlers; the timer never fires first (NextLimit).             *)
(*                                                                         *)
(* Fairness among phones: a queued one leaves the queue when its turn comes, *)
(* or with its group (NextLeaves).                                          *)
(*                                                                         *)
(* The run loop: a turn shortens the queue, drops the active node or lowers *)
(* the work that is left for it (RunTurn).                                  *)
(*                                                                         *)
(* The headset alone: while neither a phone nor the user connects anything, *)
(* what is planned, at its turn, on its way, connected or to be disconnected *)
(* of a device are disjoint (AloneInv), so what the headset disconnects      *)
(* stays disconnected; and no search outlives its turn (SearchInv).          *)
(***************************************************************************)
EXTENDS LinkbackEngine_proofs

\* Each group member of the queue r is one of the queue q, with its budget.
Members(r, q) ==
  \A i \in DOMAIN r : r[i].group =>
    \E k \in DOMAIN q :
      q[k].group /\ q[k].addr = r[i].addr /\ q[k].tmo = r[i].tmo

\* The active node b is no member of a group that a was not, and has its budget.
SameBudget(b, a) ==
  b.valid => a.valid /\ (b.group => a.group /\ b.tmo = a.tmo)

\* The four things a step may do.
KeepsBudgets == Members(todo', todo) /\ SameBudget(act', act)

TakesFirst == todo # <<>> /\ todo' = Tail(todo) /\ act' = Load(Head(todo))

PutsBack ==
  /\ act.valid /\ act' = NoNode
  /\ \E isNormal \in BOOLEAN : todo' = UseLeftTime(isNormal)

LoadsBonds == mode # "linkback" /\ todo' = LoadBondList /\ act' = NoNode

-----------------------------------------------------------------------------
(* What the queue operations do with the members of the group.              *)

LEMMA MembersSame ==
  ASSUME NEW q PROVE Members(q, q)
BY DEF Members

\* An insertion adds a member at most when it inserts one.
LEMMA InsertMembers ==
  ASSUME NEW q, GoodTodo(q), NEW n \in Node, NEW r,
         r \in {InsertNormal(q, n), InsertForce(q, n)},
         NEW i \in DOMAIN r, r[i].group
  PROVE  \/ r[i] = n
         \/ \E k \in DOMAIN q :
              q[k].group /\ q[k].addr = r[i].addr /\ q[k].tmo = r[i].tmo
<1>1. q \in Seq(Node) /\ Len(q) \in Nat /\ DOMAIN q = 1 .. Len(q)
  BY LenProperties DEF GoodTodo, IsTodo
<1>2. CASE r = q
  BY <1>2
<1>3. CASE r = Merge(q, n)
  <2>1. CASE n.group
    BY <1>3, <2>1 DEF Merge
  <2>2. CASE ~n.group
    <3>1. \A k \in DOMAIN q : q[k] \in Node
      BY <1>1
    <3>2. i \in DOMAIN q
      BY <1>3, <2>2 DEF Merge
    <3>3. CASE q[i].addr # n.addr
      <4>1. r[i] = q[i]
        BY <1>3, <2>2, <3>2, <3>3 DEF Merge
      <4> QED
        BY <3>2, <4>1
    <3>4. CASE q[i].addr = n.addr
      <4>1. r[i] = [q[i] EXCEPT !.plan  = q[i].plan \cup n.plan,
                                !.force = q[i].force \/ n.force,
                                !.tmo   = n.tmo,
                                !.group = FALSE]
        BY <1>3, <2>2, <3>2, <3>4 DEF Merge
      <4>2. r[i].group = FALSE
        BY <3>1, <3>2, <4>1 DEF Node
      <4> QED
        BY <4>2
    <3> QED
      BY <3>3, <3>4
  <2> QED
    BY <2>1, <2>2
<1>4. CASE r = Append(q, n)
  <2>1. /\ Append(q, n) \in Seq(Node) /\ Len(Append(q, n)) = Len(q) + 1
        /\ \A k \in 1 .. Len(q) : Append(q, n)[k] = q[k]
        /\ Append(q, n)[Len(q) + 1] = n
    BY <1>1, AppendProperties
  <2>2. DOMAIN r = 1 .. Len(q) + 1
    BY <1>4, <2>1, LenProperties
  <2>3. r[i] = n \/ (i \in DOMAIN q /\ r[i] = q[i])
    BY <1>1, <1>4, <2>1, <2>2
  <2> QED
    BY <2>3
<1>5. CASE r = <<n>> \o q
  <2>1. <<n>> \in Seq(Node) /\ Len(<<n>>) = 1 /\ <<n>>[1] = n
    OBVIOUS
  <2>2. /\ r \in Seq(Node) /\ Len(r) = 1 + Len(q)
        /\ \A k \in 1 .. 1 + Len(q) :
             r[k] = IF k <= 1 THEN <<n>>[k] ELSE q[k - 1]
    BY <1>1, <1>5, <2>1, ConcatProperties
  <2>3. DOMAIN r = 1 .. 1 + Len(q)
    BY <2>2, LenProperties
  <2>4. r[i] = n \/ (i - 1 \in DOMAIN q /\ r[i] = q[i - 1])
    BY <1>1, <2>1, <2>2, <2>3
  <2> QED
    BY <2>4
<1>6. r \in {q, Merge(q, n), Append(q, n), <<n>> \o q}
  BY DEF InsertNormal, InsertForce, Insert
<1> QED
  BY <1>2, <1>3, <1>4, <1>5, <1>6

\* A node outside the group leaves the members as they are.
LEMMA InsertKeepsMembers ==
  ASSUME NEW q, GoodTodo(q), NEW n \in Node, ~n.group
  PROVE  Members(InsertNormal(q, n), q) /\ Members(InsertForce(q, n), q)
BY InsertMembers DEF Members

\* So do the operations that add no node.
LEMMA LessKeepsMembers ==
  ASSUME NEW q, GoodTodo(q), NEW a, NEW ps
  PROVE  /\ Members(RemovePlan(q, a, ps), q)
         /\ Members(WithoutGroup(q), q)
         /\ q # <<>> => Members(Tail(q), q)
<1>1. q \in Seq(Node) /\ Len(q) \in Nat /\ DOMAIN q = 1 .. Len(q)
      /\ \A i \in DOMAIN q : q[i] \in Node
  BY LenProperties DEF GoodTodo, IsTodo
<1>2. Members(RemovePlan(q, a, ps), q)
  BY <1>1 DEF RemovePlan, Members, Node
<1>3. Members(WithoutGroup(q), q)
  BY WithoutGroupGood DEF Members
<1>4. ASSUME q # <<>> PROVE Members(Tail(q), q)
  <2>1. /\ Tail(q) \in Seq(Node) /\ Len(Tail(q)) = Len(q) - 1
        /\ \A i \in 1 .. Len(Tail(q)) : Tail(q)[i] = q[i + 1]
    BY <1>1, <1>4, HeadTailProperties
  <2>2. DOMAIN Tail(q) = 1 .. Len(q) - 1
    BY <2>1, LenProperties
  <2>3. \A i \in DOMAIN Tail(q) : i + 1 \in DOMAIN q /\ Tail(q)[i] = q[i + 1]
    BY <1>1, <2>1, <2>2
  <2> QED
    BY <2>3 DEF Members
<1> QED
  BY <1>2, <1>3, <1>4

\* The new budget of a group is that of each of its members.
LEMMA SetGroupTimeoutMembers ==
  ASSUME NEW q, GoodTodo(q), NEW t, NEW i \in DOMAIN SetGroupTimeout(q, t),
         SetGroupTimeout(q, t)[i].group
  PROVE  /\ i \in DOMAIN q /\ q[i].group
         /\ SetGroupTimeout(q, t)[i].addr = q[i].addr
         /\ SetGroupTimeout(q, t)[i].tmo = t
<1>1. \A k \in DOMAIN q : q[k] \in Node
  BY DEF GoodTodo, IsTodo
<1>2. i \in DOMAIN q
  BY DEF SetGroupTimeout
<1>3. CASE q[i].group
  <2>1. SetGroupTimeout(q, t)[i] = [q[i] EXCEPT !.tmo = t]
    BY <1>2, <1>3 DEF SetGroupTimeout
  <2> QED
    BY <1>1, <1>2, <1>3, <2>1 DEF Node
<1>4. CASE ~q[i].group
  BY <1>2, <1>4 DEF SetGroupTimeout
<1> QED
  BY <1>3, <1>4

-----------------------------------------------------------------------------
(* What a step of the active node does with its budget.                     *)

LEMMA ReloadBudget ==
  ASSUME NEW a \in ActiveNode, NEW rs
  PROVE  SameBudget(Reload(a, rs), a)
BY DEF Reload, SameBudget, ActiveNode

LEMMA NodeBudget ==
  ASSUME NEW a \in ActiveNode, NEW ps \in SUBSET Prof
  PROVE  /\ SameBudget(StepSuc(a), a) /\ SameBudget(StepFail(a), a)
         /\ SameBudget(ConnFailAdjust(a), a)
         /\ SameBudget(ProfsAdd(a, ps), a) /\ SameBudget(ProfsSub(a, ps), a)
         /\ SameBudget([a EXCEPT !.exit = TRUE], a)
         /\ SameBudget([a EXCEPT !.plan = {}], a)
         /\ SameBudget([a EXCEPT !.sdpOk = TRUE], a)
         /\ SameBudget(a, a) /\ SameBudget(NoNode, a)
<1>1. /\ SameBudget(StepSuc(a), a) /\ SameBudget(ConnFailAdjust(a), a)
  BY ReloadBudget DEF StepSuc, ConnFailAdjust
<1>2. SameBudget(StepFail(a), a)
  <2>1. CASE a.retry < 2
    <3>1. StepFail(a) = [a EXCEPT !.retry = a.retry + 1, !.sdpOk = FALSE]
      BY <2>1 DEF StepFail
    <3> QED
      BY <3>1 DEF SameBudget, ActiveNode
  <2>2. CASE ~(a.retry < 2)
    BY <2>2, ReloadBudget DEF StepFail
  <2> QED
    BY <2>1, <2>2
<1>3. SameBudget(ProfsAdd(a, ps), a) /\ SameBudget(ProfsSub(a, ps), a)
  BY DEF ProfsAdd, ProfsSub, SameBudget, ActiveNode
<1>4. /\ SameBudget([a EXCEPT !.exit = TRUE], a)
      /\ SameBudget([a EXCEPT !.plan = {}], a)
      /\ SameBudget([a EXCEPT !.sdpOk = TRUE], a)
  BY DEF SameBudget, ActiveNode
<1>5. SameBudget(a, a) /\ SameBudget(NoNode, a)
  BY ActiveCases DEF SameBudget, NoNode
<1> QED
  BY <1>1, <1>2, <1>3, <1>4, <1>5

\* Nothing said of the queue and the active node.
LEMMA SameKeepsBudgets ==
  ASSUME UNCHANGED <<todo, act>>
  PROVE  KeepsBudgets
BY MembersSame DEF KeepsBudgets, SameBudget

\* No active node is no member of a group.
LEMMA NoNodeBudget ==
  ASSUME NEW a PROVE SameBudget(NoNode, a)
BY DEF SameBudget, NoNode

-----------------------------------------------------------------------------
(* Every step does one of the four things.                                  *)

StepShape == KeepsBudgets \/ TakesFirst \/ PutsBack \/ LoadsBonds

\* What the arguments below need of the invariant.
LEMMA ShapeFacts ==
  ASSUME EInv
  PROVE  /\ GoodTodo(todo) /\ act \in Active /\ (act.valid => act \in ActiveNode)
         /\ SameBudget(act, act) /\ SameBudget(NoNode, act)
         /\ Members(todo, todo)
BY ActiveCases, MembersSame, NoNodeBudget DEF EInv, EngOK, SameBudget

\* The turns of app_bt_policy_linkback_run.
LEMMA RunShape ==
  ASSUME EInv, Run
  PROVE  StepShape
<1>1. CASE RunTake
  BY <1>1 DEF RunTake, TakesFirst, StepShape
<1>2. CASE RunTakeEmptyPlan \/ RunFinish
  <2>1. (todo # <<>> /\ todo' = Tail(todo)) \/ todo' = todo
    BY <1>2 DEF RunTakeEmptyPlan, RunFinish
  <2>2. act' = NoNode
    BY <1>2 DEF RunTakeEmptyPlan, RunFinish, Finish
  <2>3. Members(todo', todo)
    BY <2>1, ShapeFacts, LessKeepsMembers
  <2> QED
    BY <2>2, <2>3, ShapeFacts DEF KeepsBudgets, StepShape
<1>3. CASE RunDrop \/ RunDropFull
  BY <1>3, ShapeFacts DEF RunDrop, RunDropFull, KeepsBudgets, StepShape
<1>4. CASE RunWaitInd \/ RunSearch
  BY <1>4, SameKeepsBudgets DEF RunWaitInd, RunSearch, nodeVars, StepShape
<1>5. CASE RunAlreadyConnected \/ RunSearchRefused
  <2>1. /\ act.valid /\ todo' = todo /\ act' \in {StepSuc(act), StepFail(act)}
    BY <1>5 DEF RunAlreadyConnected, RunSearchRefused, ToSearch, ToConnect
  <2> QED
    BY <2>1, ShapeFacts, NodeBudget DEF KeepsBudgets, StepShape
<1> QED
  BY <1>1, <1>2, <1>3, <1>4, <1>5 DEF Run

\* A node made for a command, or for a lost device, is in no group.
LEMMA LoneNode ==
  ASSUME NEW a \in Addr, NEW ps \in SUBSET Prof
  PROVE  /\ ForceNode(a, ps) \in Node /\ ~ForceNode(a, ps).group
         /\ ANode(a, ps, LossTimeout, FALSE, FALSE) \in Node
         /\ ~ANode(a, ps, LossTimeout, FALSE, FALSE).group
BY TimeoutNat DEF ForceNode, ANode, Node

\* The commands.
LEMMA CommandShape ==
  ASSUME EInv, Command
  PROVE  StepShape
<1>1. CASE Startup \/ Restore
  BY <1>1 DEF Startup, Restore, LinkbackSched, LoadsBonds, StepShape
<1>2. CASE Stop
  <2>1. CASE act.valid
    BY <1>2, <2>1 DEF Stop, PutsBack, StepShape
  <2>2. CASE ~act.valid
    BY <1>2, <2>2, ShapeFacts DEF Stop, KeepsBudgets, StepShape
  <2> QED
    BY <2>1, <2>2
<1>3. ASSUME NEW a \in Addr, NEW ps \in SUBSET Prof, Connect(a, ps)
      PROVE  StepShape
  <2>1. \/ act.valid /\ act' = ProfsAdd(act, ps) /\ todo' = todo
        \/ act' = act /\ todo' = InsertForce(todo, ForceNode(a, ps))
    BY <1>3 DEF Connect, MoreProfs, Current
  <2>2. CASE act.valid /\ act' = ProfsAdd(act, ps) /\ todo' = todo
    BY <2>2, ShapeFacts, NodeBudget DEF KeepsBudgets, StepShape
  <2>3. CASE act' = act /\ todo' = InsertForce(todo, ForceNode(a, ps))
    BY <2>3, ShapeFacts, LoneNode, InsertKeepsMembers
       DEF KeepsBudgets, StepShape
  <2> QED
    BY <2>1, <2>2, <2>3
<1>4. ASSUME NEW a \in Addr, NEW ps \in SUBSET Prof, Disconnect(a, ps)
      PROVE  StepShape
  <2>1. Members(todo', todo)
    BY <1>4, ShapeFacts, LessKeepsMembers DEF Disconnect
  <2>2. (act.valid /\ act' = ProfsSub(act, ps)) \/ act' = act
    BY <1>4 DEF Disconnect, Current
  <2>3. SameBudget(act', act)
    BY <2>2, ShapeFacts, NodeBudget
  <2> QED
    BY <2>1, <2>3 DEF KeepsBudgets, StepShape
<1> QED
  BY <1>1, <1>2, <1>3, <1>4 DEF Command

\* EVENT_SRC_CONN_TIMEOUT ends the group or leaves it alone.
LEMMA ConnTimeoutShape ==
  ASSUME EInv, ConnTimeout
  PROVE  StepShape
<1>1. Members(todo', todo)
  BY ShapeFacts, LessKeepsMembers DEF ConnTimeout
<1>2. \/ act' = act \/ act' = NoNode
      \/ (act.valid /\ act' = [act EXCEPT !.plan = {}])
  BY DEF ConnTimeout
<1>3. SameBudget(act', act)
  BY <1>2, ShapeFacts, NodeBudget
<1> QED
  BY <1>1, <1>3 DEF KeepsBudgets, StepShape

LEMMA TimersShape ==
  ASSUME EInv, TimerFires
  PROVE  StepShape
<1>1. CASE Tick
  BY <1>1, SameKeepsBudgets DEF Tick, StepShape
<1>2. CASE LinkbackTimerFires
  BY <1>2, ConnTimeoutShape DEF LinkbackTimerFires
<1>3. CASE DelayTimerFires
  <2>1. todo' = todo
        /\ ((act.valid /\ act' = ConnFailAdjust(act)) \/ act' = act)
    BY <1>3 DEF DelayTimerFires
  <2>2. SameBudget(act', act)
    BY <2>1, ShapeFacts, NodeBudget
  <2> QED
    BY <2>1, <2>2, ShapeFacts DEF KeepsBudgets, StepShape
<1>4. ASSUME NEW a \in Addr, IndTimerFires(a)
      PROVE  StepShape
  BY <1>4, SameKeepsBudgets DEF IndTimerFires, engVars, nodeVars, StepShape
<1>5. ASSUME NEW a \in Addr, LaterAvrcpFires(a)
      PROVE  StepShape
  <2>0. {"AVRCP"} \in SUBSET Prof
    BY <1>5 DEF LaterAvrcpFires, EInv, RestOK
  <2>1. \/ act.valid /\ act' = ProfsAdd(act, {"AVRCP"}) /\ todo' = todo
        \/ act' = act /\ todo' = InsertForce(todo, ForceNode(a, {"AVRCP"}))
        \/ act' = act /\ todo' = todo
    BY <1>5 DEF LaterAvrcpFires, MoreProfs, Current
  <2>2. CASE act.valid /\ act' = ProfsAdd(act, {"AVRCP"}) /\ todo' = todo
    BY <2>0, <2>2, ShapeFacts, NodeBudget DEF KeepsBudgets, StepShape
  <2>3. CASE act' = act /\ todo' = InsertForce(todo, ForceNode(a, {"AVRCP"}))
    BY <2>0, <2>3, ShapeFacts, LoneNode, InsertKeepsMembers
       DEF KeepsBudgets, StepShape
  <2>4. CASE act' = act /\ todo' = todo
    BY <2>4, SameKeepsBudgets DEF StepShape
  <2> QED
    BY <2>1, <2>2, <2>3, <2>4
<1> QED
  BY <1>1, <1>2, <1>3, <1>4, <1>5 DEF TimerFires

\* What the stack reports of links.
LEMMA LinksShape ==
  ASSUME EInv, NEW a \in Addr,
         \/ PageSuc(a) \/ PageFail(a) \/ PageFailExist(a) \/ PageFailBusy(a)
         \/ Incoming(a) \/ IncomingUp(a) \/ IncomingFails(a) \/ AuthSuc(a)
  PROVE  StepShape
<1>1. CASE PageSuc(a) \/ Incoming(a) \/ IncomingUp(a)
  BY <1>1, SameKeepsBudgets
     DEF PageSuc, Incoming, IncomingUp, LinkUp, engVars, nodeVars, StepShape
<1>2. CASE PageFailExist(a) \/ PageFailBusy(a) \/ DelayRetry(a)
  BY <1>2, SameKeepsBudgets
     DEF PageFailExist, PageFailBusy, DelayRetry, StepShape
<1>3. CASE PageFail(a) \/ ConnFailHandler(a)
  <2>1. \/ UNCHANGED <<act, todo>>
        \/ /\ act.valid /\ todo' = todo
           /\ act' \in {NoNode, ConnFailAdjust(act)}
        \/ act.valid /\ todo' = UseLeftTime(TRUE) /\ act' = NoNode
    BY <1>3 DEF PageFail, ConnFailHandler, Current
  <2>2. CASE UNCHANGED <<act, todo>>
    BY <2>2, SameKeepsBudgets DEF StepShape
  <2>3. CASE /\ act.valid /\ todo' = todo
             /\ act' \in {NoNode, ConnFailAdjust(act)}
    BY <2>3, ShapeFacts, NodeBudget DEF KeepsBudgets, StepShape
  <2>4. CASE act.valid /\ todo' = UseLeftTime(TRUE) /\ act' = NoNode
    BY <2>4 DEF PutsBack, StepShape
  <2> QED
    BY <2>1, <2>2, <2>3, <2>4
<1>4. CASE AuthSuc(a)
  <2>1. ConnTimeout \/ UNCHANGED engVars
    BY <1>4 DEF AuthSuc
  <2> QED
    BY <2>1, ConnTimeoutShape, SameKeepsBudgets DEF engVars, nodeVars, StepShape
<1>5. IncomingFails(a) => ConnFailHandler(a) \/ DelayRetry(a)
  BY DEF IncomingFails
<1> QED
  BY <1>1, <1>2, <1>3, <1>4, <1>5

LEMMA DisconnShape ==
  ASSUME EInv, NEW a \in Addr, DisconnNormal(a) \/ DisconnLost(a)
  PROVE  StepShape
<1>1. (act.valid /\ act' = [act EXCEPT !.exit = TRUE]) \/ act' = act
  BY DEF DisconnNormal, DisconnLost, ExitNode, Current
<1>2. SameBudget(act', act)
  BY <1>1, ShapeFacts, NodeBudget
<1>3. Members(todo', todo)
  <2>1. BondPlan[a] \in SUBSET Prof
    BY EngineAssumption
  <2>2. \/ todo' = todo
        \/ todo' = InsertNormal(todo,
                     ANode(a, BondPlan[a], LossTimeout, FALSE, FALSE))
    BY DEF DisconnNormal, DisconnLost
  <2> QED
    BY <2>1, <2>2, ShapeFacts, LoneNode, InsertKeepsMembers
<1> QED
  BY <1>2, <1>3 DEF KeepsBudgets, StepShape

\* What the stack reports of searches and profiles.
LEMMA ProfilesShape ==
  ASSUME EInv, NEW a \in Addr, NEW p \in Prof,
         \/ SdpAttr(a) \/ SdpCmpl(a, p) \/ ProfConnected(a, p)
         \/ ProfFail(a, p) \/ ProfFailSecurity(a, p)
         \/ ProfFailNoResource(a, p) \/ ProfDisconnected(a, p)
  PROVE  StepShape
<1>1. CASE SdpAttr(a)
  <2>1. act.valid /\ act' = [act EXCEPT !.sdpOk = TRUE] /\ todo' = todo
    BY <1>1 DEF SdpAttr, Current
  <2> QED
    BY <2>1, ShapeFacts, NodeBudget DEF KeepsBudgets, StepShape
<1>2. CASE SdpCmpl(a, p) \/ ProfFail(a, p)
  <2>1. /\ todo' = todo
        /\ \/ act' = act
           \/ act.valid /\ act' \in {StepSuc(act), StepFail(act)}
    BY <1>2 DEF SdpCmpl, ProfFail, Current
  <2>2. SameBudget(act', act)
    BY <2>1, ShapeFacts, NodeBudget
  <2> QED
    BY <2>1, <2>2, ShapeFacts DEF KeepsBudgets, StepShape
<1>3. CASE \/ ProfFailSecurity(a, p) \/ ProfFailNoResource(a, p)
           \/ ProfDisconnected(a, p)
  BY <1>3, SameKeepsBudgets
     DEF ProfFailSecurity, ProfFailNoResource, DelayRetry, ProfDisconnected,
         engVars, nodeVars, StepShape
<1>4. CASE ProfConnected(a, p)
  <2> DEFINE act1 == ProfsAdd(act, {"DID"})
  <2>0. {"DID"} \in SUBSET Prof
    BY ProfAssumption
  <2>1. /\ \/ todo' = todo
           \/ todo' = InsertForce(todo, ForceNode(a, {"DID"}))
        /\ \/ act' = act
           \/ act.valid /\ act' \in {act1, StepSuc(act1), StepSuc(act)}
    BY <1>4 DEF ProfConnected, ProfSuc, Current
  <2>2. Members(todo', todo)
    BY <2>0, <2>1, ShapeFacts, LoneNode, InsertKeepsMembers
  <2>3. CASE act.valid
    <3>1. act \in ActiveNode
      BY <2>3, ShapeFacts
    <3>2. LinkbackTimeout \in Timeout
      BY TimeoutNat
    <3>3. act1 \in ActiveNode /\ SameBudget(act1, act)
      BY <2>0, <3>1, <3>2, NodeBudget DEF ProfsAdd, ActiveNode
    <3> HIDE DEF act1
    <3>4. SameBudget(StepSuc(act1), act1)
      BY <2>0, <3>3, NodeBudget
    <3>5. SameBudget(StepSuc(act), act) /\ SameBudget(act, act)
      BY <2>0, <3>1, NodeBudget
    <3>6. SameBudget(StepSuc(act1), act)
      BY <3>3, <3>4 DEF SameBudget
    <3>7. SameBudget(act', act)
      BY <2>1, <3>3, <3>5, <3>6
    <3> QED
      BY <2>2, <3>7 DEF KeepsBudgets, StepShape
  <2>4. CASE ~act.valid
    BY <2>1, <2>2, <2>4, ShapeFacts DEF KeepsBudgets, StepShape
  <2> QED
    BY <2>3, <2>4
<1> QED
  BY <1>1, <1>2, <1>3, <1>4

LEMMA NextShape ==
  ASSUME EInv, [Next]_vars
  PROVE  StepShape
<1>1. CASE Run \/ Command \/ TimerFires
  BY <1>1, RunShape, CommandShape, TimersShape
<1>2. ASSUME NEW a \in Addr, StackAnswer(a) \/ Incoming(a) \/ DisconnLost(a)
      PROVE  StepShape
  <2>1. "DID" \in Prof
    BY ProfAssumption
  <2>2. CASE SdpAttr(a)
    BY <2>1, <2>2, ProfilesShape
  <2>3. CASE ~SdpAttr(a)
    BY <1>2, <2>3, LinksShape, DisconnShape, ProfilesShape DEF StackAnswer
  <2> QED
    BY <2>2, <2>3
<1>3. CASE UNCHANGED vars
  BY <1>3, SameKeepsBudgets DEF vars, engVars, nodeVars, StepShape
<1> QED
  BY <1>1, <1>2, <1>3 DEF Next
-----------------------------------------------------------------------------
(* The group when the active node is put back, and when it is loaded.       *)

\* The members of the queue the active node was put back in: when the node is
\* none, those of before with their budget; else the node and those of before,
\* with what is left of its turn.
LEMMA PutsBackMembers ==
  ASSUME EInv, act.valid, NEW isNormal \in BOOLEAN,
         NEW r, r = UseLeftTime(isNormal), NEW i \in DOMAIN r, r[i].group
  PROVE  \/ /\ ~act.group
            /\ \E k \in DOMAIN todo :
                 /\ todo[k].group /\ todo[k].addr = r[i].addr
                 /\ todo[k].tmo = r[i].tmo
         \/ /\ act.group /\ used < act.tmo /\ r[i].tmo = act.tmo - used
            /\ \/ r[i].addr = act.addr
               \/ \E k \in DOMAIN todo :
                    todo[k].group /\ todo[k].addr = r[i].addr
<1> DEFINE left == act.tmo - used
           q == IF act.group THEN SetGroupTimeout(todo, left) ELSE todo
           n == ANode(act.addr, act.plan, left, ~isNormal, act.group)
<1>1. GoodTodo(todo)
  BY ShapeFacts
<1>2. CASE used < act.tmo
  <2>1. act.tmo \in Timeout /\ act.tmo \in Nat /\ used \in Nat
    BY NodeFacts, TimeoutNat DEF EInv, EngOK
  <2>2. left \in 0 .. act.tmo
    BY <1>2, <2>1
  <2>3. left \in Timeout
    BY <2>1, <2>2, EngineAssumption
  <2>4. r \in {InsertNormal(q, n), InsertForce(q, n)}
    BY <1>2 DEF UseLeftTime
  <2> HIDE DEF left
  <2>5. GoodTodo(q)
    BY <1>1, <2>3, SetGroupTimeoutGood
  <2>6. n \in Node
    BY <2>3, NodeFacts, ANodeType DEF EInv
  <2>7. n.addr = act.addr /\ n.tmo = left /\ n.group = act.group
    BY DEF ANode
  <2> HIDE DEF n
  <2>8. CASE act.group
    <3> HIDE DEF q
    <3>1. \/ r[i] = n
          \/ \E k \in DOMAIN q :
               q[k].group /\ q[k].addr = r[i].addr /\ q[k].tmo = r[i].tmo
      BY <2>4, <2>5, <2>6, InsertMembers
    <3>2. CASE r[i] = n
      BY <1>2, <2>7, <2>8, <3>2 DEF left
    <3>3. ASSUME NEW k \in DOMAIN q, q[k].group, q[k].addr = r[i].addr,
                 q[k].tmo = r[i].tmo
          PROVE  /\ r[i].tmo = left
                 /\ \E m \in DOMAIN todo :
                      todo[m].group /\ todo[m].addr = r[i].addr
      <4>1. q = SetGroupTimeout(todo, left)
        BY <2>8 DEF q
      <4>2. /\ k \in DOMAIN todo /\ todo[k].group
            /\ q[k].addr = todo[k].addr /\ q[k].tmo = left
        BY <1>1, <3>3, <4>1, SetGroupTimeoutMembers
      <4> QED
        BY <3>3, <4>2
    <3> QED
      BY <1>2, <2>8, <3>1, <3>2, <3>3 DEF left
  <2>9. CASE ~act.group
    <3>1. q = todo
      BY <2>9
    <3>2. ~n.group
      BY <2>7, <2>9
    <3>3. Members(r, todo)
      BY <2>4, <2>5, <2>6, <3>1, <3>2, InsertKeepsMembers
    <3> QED
      BY <2>9, <3>3 DEF Members
  <2> QED
    BY <2>8, <2>9
<1>3. CASE ~(used < act.tmo)
  <2>1. r = IF act.group THEN WithoutGroup(todo) ELSE todo
    BY <1>3 DEF UseLeftTime
  <2>2. ~act.group
    BY <1>1, <2>1, WithoutGroupGood
  <2> QED
    BY <2>1, <2>2
<1> QED
  BY <1>2, <1>3

\* A loaded group has one budget.
LEMMA LoadBondListUniform ==
  \A i, j \in DOMAIN LoadBondList : LoadBondList[i].tmo = LoadBondList[j].tmo
BY DEF LoadBondList, ANode

-----------------------------------------------------------------------------
(* The members of the group share one budget.                               *)

LEMMA UniformKept ==
  ASSUME EInv, GroupBudgetUniform, StepShape
  PROVE  GroupBudgetUniform'
<1>1. GoodTodo(todo)
  BY ShapeFacts
<1>2. CASE KeepsBudgets
  BY <1>2 DEF KeepsBudgets, Members, SameBudget, GroupBudgetUniform
<1>3. CASE TakesFirst
  <2>1. Members(todo', todo)
    BY <1>1, <1>3, LessKeepsMembers DEF TakesFirst
  <2>2. todo \in Seq(Node) /\ 1 \in DOMAIN todo /\ Head(todo) = todo[1]
    BY <1>1, <1>3, LenProperties, EmptySeq DEF TakesFirst, GoodTodo, IsTodo
  <2>3. act'.group = todo[1].group /\ act'.tmo = todo[1].tmo
    BY <1>3, <2>2 DEF TakesFirst, Load
  <2> QED
    BY <2>1, <2>2, <2>3 DEF Members, GroupBudgetUniform
<1>4. CASE PutsBack
  <2>1. PICK isNormal \in BOOLEAN : todo' = UseLeftTime(isNormal)
    BY <1>4 DEF PutsBack
  <2>2. act.valid /\ ~act'.valid
    BY <1>4, ActiveCases, ShapeFacts DEF PutsBack
  <2>3. CASE act.group
    <3>1. \A i \in DOMAIN todo' :
            todo'[i].group => todo'[i].tmo = act.tmo - used
      BY <2>1, <2>2, <2>3, PutsBackMembers
    <3> QED
      BY <2>2, <3>1 DEF GroupBudgetUniform
  <2>4. CASE ~act.group
    <3>1. Members(todo', todo)
      BY <2>1, <2>2, <2>4, PutsBackMembers DEF Members
    <3> QED
      BY <2>2, <3>1 DEF Members, GroupBudgetUniform
  <2> QED
    BY <2>3, <2>4
<1>5. CASE LoadsBonds
  <2>1. act'.valid = FALSE
    BY <1>5 DEF LoadsBonds, NoNode
  <2> QED
    BY <1>5, <2>1, LoadBondListUniform DEF LoadsBonds, GroupBudgetUniform
<1> QED
  BY <1>2, <1>3, <1>4, <1>5 DEF StepShape
\* The devices loaded at power on keep one common budget: no order of losses,
\* failed pages, stops, commands and timeouts makes two members of the group
\* differ in their retry_timeout.
THEOREM EngineGroupBudget == Spec => []GroupBudgetUniform
<1>1. Init => GroupBudgetUniform
  <2> SUFFICES ASSUME Init PROVE GroupBudgetUniform
    OBVIOUS
  <2>1. DOMAIN todo = {}
    BY EmptySeq, LenProperties DEF Init
  <2>2. act.valid = FALSE
    BY DEF Init, NoNode
  <2> QED
    BY <2>1, <2>2 DEF GroupBudgetUniform
<1>2. EInv /\ GroupBudgetUniform /\ [Next]_vars => GroupBudgetUniform'
  BY NextShape, UniformKept
<1> QED
  BY <1>1, <1>2, SpecEInv, PTL DEF Spec

-----------------------------------------------------------------------------
(* The budget only shrinks.                                                 *)

\* What GroupBudgetShrinks says of one step.
Shrinks ==
  \A i \in DOMAIN todo' :
    todo'[i].group /\ mode = "linkback" /\ mode' = "linkback" =>
      \/ \E k \in DOMAIN todo :
           todo[k].group /\ todo[k].addr = todo'[i].addr
                         /\ todo'[i].tmo <= todo[k].tmo
      \/ Current(todo'[i].addr) /\ act.group
                                /\ todo'[i].tmo + used <= act.tmo

LEMMA StepShrinks ==
  ASSUME EInv, GroupBudgetUniform, StepShape
  PROVE  Shrinks
<1>1. /\ GoodTodo(todo) /\ used \in Nat
      /\ \A k \in DOMAIN todo : todo[k].tmo \in Nat
  <2>1. GoodTodo(todo) /\ used \in Nat
    BY DEF EInv, EngOK
  <2>2. \A k \in DOMAIN todo : todo[k] \in Node
    BY <2>1 DEF GoodTodo, IsTodo
  <2>3. \A m \in Node : m.tmo \in Nat
    BY TimeoutNat DEF Node
  <2> QED
    BY <2>1, <2>2, <2>3
<1>2. ASSUME Members(todo', todo) PROVE Shrinks
  BY <1>1, <1>2 DEF Members, Shrinks
<1>3. CASE KeepsBudgets \/ TakesFirst
  BY <1>1, <1>2, <1>3, LessKeepsMembers DEF KeepsBudgets, TakesFirst
<1>4. CASE PutsBack
  <2>1. PICK isNormal \in BOOLEAN : todo' = UseLeftTime(isNormal)
    BY <1>4 DEF PutsBack
  <2>2. act.valid
    BY <1>4 DEF PutsBack
  <2>3. CASE act.group
    <3>1. act.tmo \in Nat
      BY <2>2, NodeFacts, TimeoutNat DEF EInv
    <3> SUFFICES ASSUME NEW i \in DOMAIN todo', todo'[i].group
                 PROVE  \/ \E k \in DOMAIN todo :
                             /\ todo[k].group /\ todo[k].addr = todo'[i].addr
                             /\ todo'[i].tmo <= todo[k].tmo
                        \/ /\ Current(todo'[i].addr) /\ act.group
                           /\ todo'[i].tmo + used <= act.tmo
      BY DEF Shrinks
    <3>2. /\ used < act.tmo /\ todo'[i].tmo = act.tmo - used
          /\ \/ todo'[i].addr = act.addr
             \/ \E k \in DOMAIN todo :
                  todo[k].group /\ todo[k].addr = todo'[i].addr
      BY <2>1, <2>2, <2>3, PutsBackMembers
    <3>3. CASE todo'[i].addr = act.addr
      <4>1. todo'[i].tmo + used <= act.tmo
        BY <1>1, <3>1, <3>2
      <4> QED
        BY <2>2, <2>3, <3>3, <4>1 DEF Current
    <3>4. ASSUME NEW k \in DOMAIN todo, todo[k].group,
                 todo[k].addr = todo'[i].addr
          PROVE  todo'[i].tmo <= todo[k].tmo
      <4>1. todo[k].tmo = act.tmo
        BY <2>2, <2>3, <3>4 DEF GroupBudgetUniform
      <4> QED
        BY <1>1, <3>1, <3>2, <4>1
    <3> QED
      BY <3>2, <3>3, <3>4
  <2>4. CASE ~act.group
    BY <1>2, <2>1, <2>2, <2>4, PutsBackMembers DEF Members
  <2> QED
    BY <2>3, <2>4
<1>5. CASE LoadsBonds
  BY <1>5 DEF LoadsBonds, Shrinks
<1> QED
  BY <1>3, <1>4, <1>5 DEF StepShape

\* While a session lasts no member of the group ever gains time: a queued one
\* has at most what it had, and one put back after its turn at most what the
\* turn left of its limit.
THEOREM EngineBudgetShrinks == Spec => GroupBudgetShrinks
<1>1. ASSUME EInv, GroupBudgetUniform, [Next]_vars
      PROVE  [\A i \in DOMAIN todo' :
       todo'[i].group /\ mode = "linkback" /\ mode' = "linkback" =>
         \/ \E k \in DOMAIN todo :
              todo[k].group /\ todo[k].addr = todo'[i].addr
                            /\ todo'[i].tmo <= todo[k].tmo
         \/ Current(todo'[i].addr) /\ act.group
                                   /\ todo'[i].tmo + used <= act.tmo]_vars
  <2>1. Shrinks
    BY <1>1, NextShape, StepShrinks
  <2> QED
    BY <2>1 DEF Shrinks
<1> QED
  BY <1>1, SpecEInv, EngineGroupBudget, PTL
     DEF Spec, GroupBudgetShrinks

-----------------------------------------------------------------------------
(* The queue holds only nodes with something to connect.                    *)

\* Every node of the queue has profiles to connect.
Planned(q) == \A i \in DOMAIN q : q[i].plan # {}

\* An insertion adds no node without profiles, and a merge takes none away.
LEMMA InsertPlanned ==
  ASSUME NEW q, GoodTodo(q), Planned(q), NEW n \in Node,
         NEW r, r \in {InsertNormal(q, n), InsertForce(q, n)}
  PROVE  Planned(r)
<1>0. q \in Seq(Node) /\ Len(q) \in Nat /\ DOMAIN q = 1 .. Len(q)
  BY LenProperties DEF GoodTodo, IsTodo
<1>1. CASE n.plan = {}
  <2>1. r = q
    BY <1>1 DEF InsertNormal, InsertForce, Insert
  <2> QED
    BY <2>1
<1>2. CASE n.plan # {} /\ Queued(q, n.addr)
  <2>1. r = Merge(q, n)
    BY <1>2 DEF InsertNormal, InsertForce, Insert
  <2>2. CASE n.group
    BY <2>1, <2>2 DEF Merge
  <2>3. CASE ~n.group
    <3>1. r = [i \in DOMAIN q |->
                 IF q[i].addr # n.addr THEN q[i]
                 ELSE [q[i] EXCEPT !.plan  = @ \cup n.plan,
                                   !.force = @ \/ n.force,
                                   !.tmo   = n.tmo,
                                   !.group = FALSE]]
      BY <2>1, <2>3 DEF Merge
    <3>2. \A i \in DOMAIN q : q[i] \in Node
      BY <1>0
    <3>3. \A i \in DOMAIN q : r[i].plan = q[i].plan \/ r[i].plan = q[i].plan \cup n.plan
      BY <3>1, <3>2 DEF Node
    <3> QED
      BY <3>1, <3>3 DEF Planned
  <2> QED
    BY <2>2, <2>3
<1>3. CASE n.plan # {} /\ ~Queued(q, n.addr)
  <2>1. r = q \/ r = Append(q, n) \/ r = <<n>> \o q
    BY <1>3 DEF InsertNormal, InsertForce, Insert
  <2>2. CASE r = Append(q, n)
    BY <1>0, <1>3, <2>2 DEF Planned
  <2>3. CASE r = <<n>> \o q
    <3>1. /\ Len(r) = Len(q) + 1 /\ DOMAIN r = 1 .. Len(q) + 1
          /\ r[1] = n /\ \A i \in 1 .. Len(q) : r[i + 1] = q[i]
      BY <1>0, <2>3
    <3>2. ASSUME NEW i \in DOMAIN r PROVE r[i].plan # {}
      <4>1. CASE i = 1
        BY <1>3, <3>1, <4>1
      <4>2. CASE i # 1
        <5>1. i - 1 \in 1 .. Len(q) /\ (i - 1) + 1 = i
          BY <1>0, <3>1, <4>2
        <5>2. r[i] = q[i - 1] /\ i - 1 \in DOMAIN q
          BY <1>0, <3>1, <5>1
        <5> QED
          BY <5>2 DEF Planned
      <4> QED
        BY <4>1, <4>2
    <3> QED
      BY <3>2 DEF Planned
  <2> QED
    BY <2>1, <2>2, <2>3
<1> QED
  BY <1>1, <1>2, <1>3

\* Neither does taking the first node, dropping the group, or giving the group
\* another time.
LEMMA LessPlanned ==
  ASSUME NEW q, GoodTodo(q), Planned(q)
  PROVE  /\ q # <<>> => Planned(Tail(q))
         /\ Planned(WithoutGroup(q))
         /\ \A t \in Timeout : Planned(SetGroupTimeout(q, t))
<1>0. q \in Seq(Node) /\ Len(q) \in Nat /\ DOMAIN q = 1 .. Len(q)
      /\ \A i \in DOMAIN q : q[i] \in Node
  BY LenProperties DEF GoodTodo, IsTodo
<1>1. q # <<>> => Planned(Tail(q))
  BY <1>0 DEF Planned
<1>2. Planned(WithoutGroup(q))
  <2> DEFINE r == WithoutGroup(q)
  <2>1. ASSUME NEW j \in DOMAIN r
        PROVE  r[j].plan # {}
    <3>1. PICK i \in DOMAIN q : r[j] = q[i]
      BY WithoutGroupNodes DEF Survivors
    <3> QED
      BY <3>1 DEF Planned
  <2> QED
    BY <2>1 DEF Planned
<1>3. ASSUME NEW t \in Timeout
      PROVE  Planned(SetGroupTimeout(q, t))
  BY <1>0 DEF SetGroupTimeout, Node, Planned
<1> QED
  BY <1>1, <1>2, <1>3

\* Every bonded device is loaded with the profiles its flags ask for.
LEMMA LoadBondListPlanned == Planned(LoadBondList)
<1>1. \A i \in DOMAIN BondList : BondPlan[BondList[i]] # {}
  BY EngineAssumption
<1> QED
  BY <1>1 DEF LoadBondList, ANode, Planned

\* A node that is put back is not queued without profiles.
LEMMA UseLeftTimePlanned ==
  ASSUME EngOK, NodeOK, act.valid, Planned(todo), NEW isNormal \in BOOLEAN
  PROVE  Planned(UseLeftTime(isNormal))
<1> DEFINE left == act.tmo - used
           q    == IF act.group THEN SetGroupTimeout(todo, left) ELSE todo
           n    == ANode(act.addr, act.plan, left, ~isNormal, act.group)
<1>0. GoodTodo(todo)
  BY DEF EngOK
<1>1. CASE used < act.tmo
  <2>1. act.tmo \in Timeout /\ act.tmo \in Nat /\ used \in Nat
    BY NodeFacts, TimeoutNat DEF EngOK
  <2>2. left \in 0 .. act.tmo
    BY <1>1, <2>1
  <2>3. left \in Timeout
    BY <2>1, <2>2, EngineAssumption
  <2> HIDE DEF left
  <2>4. GoodTodo(q) /\ Planned(q)
    BY <1>0, <2>3, SetGroupTimeoutGood, LessPlanned
  <2>5. n \in Node
    BY <2>3, NodeFacts, ANodeType
  <2>6. UseLeftTime(isNormal) \in {InsertNormal(q, n), InsertForce(q, n)}
    BY <1>1 DEF UseLeftTime, left
  <2> HIDE DEF q, n
  <2> QED
    BY <2>4, <2>5, <2>6, InsertPlanned
<1>2. CASE ~(used < act.tmo)
  BY <1>0, <1>2, LessPlanned DEF UseLeftTime
<1> QED
  BY <1>1, <1>2

\* What a step does with the queue, when no profiles are disconnected.
QueueShape ==
  \/ UNCHANGED todo
  \/ todo # <<>> /\ todo' = Tail(todo)
  \/ todo' = LoadBondList
  \/ todo' = WithoutGroup(todo)
  \/ \E n \in Node : todo' \in {InsertNormal(todo, n), InsertForce(todo, n)}
  \/ act.valid /\ \E isNormal \in BOOLEAN : todo' = UseLeftTime(isNormal)

\* The nodes of commands are nodes of the queue.
LEMMA ForceNodeType ==
  ASSUME NEW a \in Addr, NEW ps \in SUBSET Prof
  PROVE  ForceNode(a, ps) \in Node
BY ANodeType, TimeoutNat DEF ForceNode

LEMMA NextQueueShape ==
  ASSUME EInv, "disconnect" \notin Inputs, [Next]_vars
  PROVE  QueueShape
<1>1. CASE Run
  BY <1>1 DEF Run, RunTake, RunTakeEmptyPlan, RunFinish, RunDrop, RunWaitInd,
         RunAlreadyConnected, RunDropFull, RunSearch, RunSearchRefused,
         nodeVars, QueueShape
<1>2. CASE Startup \/ Restore \/ Stop
  BY <1>2 DEF Startup, Restore, LinkbackSched, Stop, QueueShape
<1>3. ASSUME NEW a \in Addr, NEW ps \in SUBSET (Prof \ {"DID"}),
             Connect(a, ps) \/ Disconnect(a, ps)
      PROVE  QueueShape
  <2>1. Connect(a, ps)
    BY <1>3 DEF Disconnect, Disturb
  <2>2. UNCHANGED todo \/ todo' = InsertForce(todo, ForceNode(a, ps))
    BY <2>1 DEF Connect, MoreProfs
  <2>3. ForceNode(a, ps) \in Node
    BY ForceNodeType
  <2> QED
    BY <2>2, <2>3 DEF QueueShape
<1>4. CASE Tick \/ LinkbackTimerFires \/ DelayTimerFires
  BY <1>4 DEF Tick, LinkbackTimerFires, ConnTimeout, DelayTimerFires, QueueShape
<1>5. ASSUME NEW a \in Addr, IndTimerFires(a) \/ LaterAvrcpFires(a)
      PROVE  QueueShape
  <2>1. \/ UNCHANGED todo
        \/ a \in later /\ todo' = InsertForce(todo, ForceNode(a, {"AVRCP"}))
    BY <1>5 DEF IndTimerFires, LaterAvrcpFires, MoreProfs, engVars, nodeVars
  <2>2. a \in later => ForceNode(a, {"AVRCP"}) \in Node
    BY ForceNodeType DEF EInv, RestOK
  <2> QED
    BY <2>1, <2>2 DEF QueueShape
<1>6. ASSUME NEW a \in Addr,
             \/ PageSuc(a) \/ PageFail(a) \/ PageFailExist(a) \/ PageFailBusy(a)
             \/ Incoming(a) \/ IncomingUp(a) \/ IncomingFails(a) \/ AuthSuc(a)
             \/ DisconnNormal(a) \/ SdpAttr(a)
      PROVE  QueueShape
  <2>1. CASE PageFail(a) \/ IncomingFails(a)
    <3>1. \/ UNCHANGED todo
          \/ Current(a) /\ todo' = UseLeftTime(TRUE)
      BY <2>1 DEF PageFail, IncomingFails, ConnFailHandler, DelayRetry
    <3> QED
      BY <3>1 DEF Current, QueueShape
  <2>2. CASE ~PageFail(a) /\ ~IncomingFails(a)
    BY <1>6, <2>2
       DEF PageSuc, LinkUp, PageFailExist, PageFailBusy, DelayRetry, Incoming,
           IncomingUp, AuthSuc, ConnTimeout, DisconnNormal,
           SdpAttr, engVars, nodeVars, QueueShape
  <2> QED
    BY <2>1, <2>2
<1>7. ASSUME NEW a \in Addr, DisconnLost(a)
      PROVE  QueueShape
  <2>1. ANode(a, BondPlan[a], LossTimeout, FALSE, FALSE) \in Node
    BY EngineAssumption, TimeoutNat, ANodeType
  <2> QED
    BY <1>7, <2>1 DEF DisconnLost, QueueShape
<1>8. ASSUME NEW a \in Addr, NEW p \in Prof,
             \/ SdpCmpl(a, p) \/ ProfConnected(a, p) \/ ProfFail(a, p)
             \/ ProfFailSecurity(a, p) \/ ProfFailNoResource(a, p)
             \/ ProfDisconnected(a, p)
      PROVE  QueueShape
  <2>1. UNCHANGED todo \/ todo' = InsertForce(todo, ForceNode(a, {"DID"}))
    BY <1>8 DEF SdpCmpl, ProfConnected, ProfSuc, ProfFail, ProfFailSecurity,
           ProfFailNoResource, DelayRetry, ProfDisconnected, engVars, nodeVars
  <2>2. ForceNode(a, {"DID"}) \in Node
    BY ForceNodeType, ProfAssumption
  <2> QED
    BY <2>1, <2>2 DEF QueueShape
<1>9. CASE UNCHANGED vars
  BY <1>9 DEF vars, engVars, nodeVars, QueueShape
<1> QED
  BY <1>1, <1>2, <1>3, <1>4, <1>5, <1>6, <1>7, <1>8, <1>9
     DEF Next, Command, TimerFires, StackAnswer

\* So the queue stays planned.
LEMMA NextPlanned ==
  ASSUME EInv, "disconnect" \notin Inputs, Planned(todo), [Next]_vars
  PROVE  Planned(todo')
<1>1. EngOK /\ NodeOK /\ GoodTodo(todo)
  BY DEF EInv, EngOK
<1>2. QueueShape
  BY NextQueueShape
<1>3. ASSUME NEW n \in Node, todo' \in {InsertNormal(todo, n), InsertForce(todo, n)}
      PROVE  Planned(todo')
  BY <1>1, <1>3, InsertPlanned
<1>4. ASSUME act.valid, NEW isNormal \in BOOLEAN, todo' = UseLeftTime(isNormal)
      PROVE  Planned(todo')
  <2>1. Planned(UseLeftTime(isNormal))
    BY <1>1, <1>4, UseLeftTimePlanned
  <2> QED
    BY <1>4, <2>1
<1>5. CASE \/ UNCHANGED todo
           \/ todo # <<>> /\ todo' = Tail(todo)
           \/ todo' = LoadBondList
           \/ todo' = WithoutGroup(todo)
  BY <1>1, <1>5, LessPlanned, LoadBondListPlanned
<1> QED
  BY <1>2, <1>3, <1>4, <1>5 DEF QueueShape

\* Only a run that has no node left leaves a session for the stable state.
LEMMA SessionEnd ==
  ASSUME EInv, Planned(todo), [Next]_vars, mode = "linkback", mode' = "stable"
  PROVE  todo' = <<>>
<1>1. CASE Run
  <2>1. ~RunTakeEmptyPlan
    <3>1. GoodTodo(todo)
      BY DEF EInv, EngOK
    <3>2. todo # <<>> => 1 \in DOMAIN todo /\ Head(todo) = todo[1]
      BY <3>1, LenProperties, EmptySeq DEF GoodTodo, IsTodo
    <3> QED
      BY <3>2 DEF RunTakeEmptyPlan, Planned
  <2> QED
    BY <1>1, <2>1
       DEF Run, RunTake, RunFinish, RunDrop, RunWaitInd, RunAlreadyConnected,
           RunDropFull, RunSearch, RunSearchRefused
<1>2. CASE Command
  BY <1>2 DEF Command, Startup, Restore, LinkbackSched, Stop, Connect, Disconnect
<1>3. CASE TimerFires
  BY <1>3 DEF TimerFires, Tick, LinkbackTimerFires, ConnTimeout,
         DelayTimerFires, IndTimerFires, LaterAvrcpFires, engVars
<1>4. ASSUME NEW a \in Addr,
             \/ PageSuc(a) \/ PageFail(a) \/ PageFailExist(a) \/ PageFailBusy(a)
             \/ Incoming(a) \/ IncomingUp(a) \/ IncomingFails(a) \/ AuthSuc(a)
             \/ DisconnNormal(a) \/ DisconnLost(a) \/ SdpAttr(a)
      PROVE  FALSE
  BY <1>4
     DEF PageSuc, LinkUp, PageFail, PageEnds, PageFailExist, PageFailBusy,
         Incoming, IncomingUp, IncomingFails, AuthSuc, ConnTimeout,
         DisconnNormal, DisconnLost, SdpAttr, engVars
<1>5. ASSUME NEW a \in Addr, NEW p \in Prof,
             \/ SdpCmpl(a, p) \/ ProfConnected(a, p) \/ ProfFail(a, p)
             \/ ProfFailSecurity(a, p) \/ ProfFailNoResource(a, p)
             \/ ProfDisconnected(a, p)
      PROVE  FALSE
  BY <1>5 DEF SdpCmpl, ProfConnected, ProfSuc, ProfFail, ProfFailSecurity,
         ProfFailNoResource, ProfDisconnected, engVars
<1>6. CASE UNCHANGED vars
  BY <1>6 DEF vars, engVars
<1> QED
  BY <1>1, <1>2, <1>3, <1>4, <1>5, <1>6 DEF Next, StackAnswer

\* Without commands to disconnect profiles a session goes to the stable state
\* only when its queue is empty: every queued node has something to connect,
\* whatever was merged into it or left of its time when it was put back.
THEOREM EngineEndsDrained ==
  ASSUME "disconnect" \notin Inputs
  PROVE  Spec => EndsOnlyWhenDrained
<1>1. Init => Planned(todo)
  <2>1. Init => DOMAIN todo = {}
    BY EmptySeq, LenProperties DEF Init
  <2> QED
    BY <2>1 DEF Planned
<1>2. EInv /\ Planned(todo) /\ [Next]_vars => Planned(todo')
  BY NextPlanned
<1>3. EInv /\ Planned(todo) /\ [Next]_vars =>
        [mode = "linkback" /\ mode' = "stable" => todo' = <<>>]_vars
  BY SessionEnd
<1>4. Planned(todo)' <=> Planned(todo')
  BY DEF Planned
<1> QED
  BY <1>1, <1>2, <1>3, <1>4, SpecEInv, PTL DEF Spec, EndsOnlyWhenDrained

-----------------------------------------------------------------------------
(* Between two messages something under way calls the engine back.          *)

\* A tracked device has a link, and a page that still looks for a device is
\* made for a search.
StackWaits ==
  /\ \A a \in tracked : link[a] # "down"
  /\ \A a \in Addr : page[a] = "yes" /\ link[a] = "down" => sdp[a] # {}

\* Between two messages a session has a node, and something is under way for
\* it: without a link its page or the delay timer, with a tracked link a search
\* or the connection of its current profile.
Pending ==
  mode = "linkback" /\ ~running =>
    /\ act.valid /\ ~act.exit
    /\ link[act.addr] = "down" => page[act.addr] # "no" \/ delay
    /\ link[act.addr] = "up" /\ act.addr \in tracked =>
         \/ delay \/ page[act.addr] # "no" \/ sdp[act.addr] # {}
         \/ act.sdpOk /\ act.doing \in pconn[act.addr]

Waits == StackWaits /\ Pending

\* A step during which the engine is busy, or outside a session.
LEMMA BusyPends ==
  ASSUME running' = TRUE \/ mode' # "linkback"
  PROVE  Pending'
BY DEF Pending

LEMMA StackSame ==
  ASSUME StackWaits, UNCHANGED <<tracked, link, page, sdp>>
  PROVE  StackWaits'
BY DEF StackWaits

\* Every action keeps it.
LEMMA RunWaits ==
  ASSUME EInv, Waits, Lea = {}, Run
  PROVE  Waits'
<1> USE DEF Waits
<1>0. running /\ (act.valid => act.addr \in Addr)
  BY NodeFacts DEF Run, RunTake, RunTakeEmptyPlan, RunFinish, RunDrop,
       RunWaitInd, RunAlreadyConnected, RunDropFull, RunSearch, ToSearch,
       RunSearchRefused, ToConnect, EInv
<1>1. CASE RunTake \/ RunDrop \/ RunAlreadyConnected \/ RunDropFull
           \/ RunSearchRefused
  <2>1. running' = TRUE /\ UNCHANGED <<tracked, link, page, sdp>>
    BY <1>0, <1>1 DEF RunTake, RunDrop, RunAlreadyConnected, RunDropFull,
         RunSearchRefused, tableVars, stackVars, EInv, EngOK
  <2> QED
    BY <2>1, BusyPends, StackSame
<1>2. CASE RunTakeEmptyPlan \/ RunFinish
  <2>1. mode' = "stable" /\ UNCHANGED <<tracked, link, page, sdp>>
    BY <1>2 DEF RunTakeEmptyPlan, RunFinish, Finish, tableVars, stackVars
  <2> QED
    BY <2>1, BusyPends, StackSame
<1>3. CASE RunWaitInd
  <2>1. /\ act.valid /\ ~act.exit /\ delay' = TRUE
        /\ UNCHANGED <<act, tracked, link, page, sdp>>
    BY <1>3 DEF RunWaitInd, ToConnect, tableVars, stackVars
  <2> QED
    BY <2>1, StackSame DEF Pending
<1>4. CASE RunSearch
  <2>1. /\ act.valid /\ ~act.exit /\ act.addr \in Addr
        /\ sdp' = [sdp EXCEPT ![act.addr] = @ \cup {act.doing}]
        /\ page' = [page EXCEPT ![act.addr] =
                      IF @ = "no" /\ link[act.addr] = "down" THEN "yes" ELSE @]
        /\ UNCHANGED <<act, tracked, link>>
    BY <1>0, <1>4 DEF RunSearch, ToSearch, ToConnect, nodeVars, tableVars
  <2>2. sdp \in [Addr -> SUBSET Prof] /\ page \in [Addr -> {"no", "yes", "cancel"}]
    BY DEF EInv, RestOK
  <2>3. StackWaits'
    BY <2>1, <2>2 DEF StackWaits
  <2>4. Pending'
    BY <2>1, <2>2 DEF Pending
  <2> QED
    BY <2>3, <2>4
<1> QED
  BY <1>1, <1>2, <1>3, <1>4 DEF Run

\* The commands.
LEMMA CommandWaits ==
  ASSUME EInv, Waits, Command
  PROVE  Waits'
<1> USE DEF Waits
<1>0. /\ sdp \in [Addr -> SUBSET Prof]
      /\ page \in [Addr -> {"no", "yes", "cancel"}]
      /\ link \in [Addr -> {"down", "up", "closing"}] /\ tracked \subseteq Addr
  BY DEF EInv, RestOK
<1>1. CASE Startup \/ Restore
  <2>1. LinkbackSched
    BY <1>1 DEF Startup, Restore
  <2>2. /\ running' = TRUE \/ mode' # "linkback"
        /\ UNCHANGED <<tracked, link, page, sdp>>
    BY <2>1 DEF LinkbackSched, tableVars, stackVars
  <2> QED
    BY <2>2, BusyPends, StackSame
<1>2. CASE Stop
  <2>1. mode' = "stop" /\ UNCHANGED tracked
    BY <1>2 DEF Stop, tableVars
  <2>2. CASE act.valid
    <3>1. act.addr \in Addr
      BY <2>2, NodeFacts DEF EInv
    <3>2. /\ sdp' = [sdp EXCEPT ![act.addr] = {}]
          /\ IF act.addr \in tracked THEN UNCHANGED <<page, link>>
             ELSE AclDisconnect(act.addr)
      BY <1>2, <2>2 DEF Stop, StopSearch
    <3>3. StackWaits'
      BY <1>0, <2>1, <3>1, <3>2 DEF StackWaits, AclDisconnect
    <3> QED
      BY <2>1, <3>3, BusyPends
  <2>3. CASE ~act.valid
    BY <1>2, <2>1, <2>3, BusyPends, StackSame DEF Stop
  <2> QED
    BY <2>2, <2>3
<1>3. ASSUME NEW a \in Addr, NEW ps \in SUBSET Prof, Connect(a, ps)
      PROVE  Waits'
  <2>1. /\ UNCHANGED <<delay, tracked, link, page, sdp, pconn>>
        /\ ~running
    BY <1>3 DEF Connect, tableVars, stackVars
  <2>2. CASE mode = "linkback" /\ Current(a)
    <3>1. /\ act' = ProfsAdd(act, ps) /\ act \in ActiveNode
          /\ UNCHANGED <<mode, running>>
      BY <1>3, <2>1, <2>2, NodeFacts DEF Connect, MoreProfs, Current, EInv
    <3>2. /\ act'.valid = act.valid /\ act'.exit = act.exit
          /\ act'.addr = act.addr /\ act'.sdpOk = act.sdpOk
          /\ act'.doing = act.doing
      BY <3>1 DEF ProfsAdd, ActiveNode
    <3> QED
      BY <2>1, <2>2, <3>1, <3>2, StackSame DEF Pending
  <2>3. CASE mode = "linkback" /\ ~Current(a)
    BY <1>3, <2>1, <2>3, StackSame DEF Connect, Pending
  <2>4. CASE mode = "stable"
    BY <1>3, <2>1, <2>4, StackSame, BusyPends DEF Connect
  <2> QED
    BY <1>3, <2>2, <2>3, <2>4 DEF Connect
<1>4. ASSUME NEW a \in Addr, NEW ps \in SUBSET Prof, Disconnect(a, ps)
      PROVE  Waits'
  <2>1. /\ UNCHANGED <<mode, running, delay, tracked, sdp, pconn>>
        /\ ~running /\ act' = IF Current(a) THEN ProfsSub(act, ps) ELSE act
        /\ AclDisconnect(a) \/ UNCHANGED <<page, link>>
    BY <1>4 DEF Disconnect
  <2>2. StackWaits'
    BY <1>0, <2>1 DEF StackWaits, AclDisconnect
  <2>3. act.valid => /\ act.addr \in Addr
                     /\ act'.valid /\ act'.exit = act.exit
                     /\ act'.addr = act.addr /\ act'.sdpOk = act.sdpOk
                     /\ act'.doing = act.doing
    BY <2>1, NodeFacts DEF ProfsSub, ActiveNode, EInv
  <2>4. Pending'
    BY <1>0, <2>1, <2>3 DEF Pending, AclDisconnect
  <2> QED
    BY <2>2, <2>4
<1> QED
  BY <1>1, <1>2, <1>3, <1>4 DEF Command

\* EVENT_SRC_CONN_TIMEOUT during a session: the run goes on, the page of the
\* node is cancelled with its search, or the node keeps what it waits for.
LEMMA ConnTimeoutWaits ==
  ASSUME EInv, Waits, ~running, mode = "linkback", ConnTimeout,
         UNCHANGED tracked
  PROVE  Waits'
<1> USE DEF Waits
<1>0. /\ sdp \in [Addr -> SUBSET Prof]
      /\ page \in [Addr -> {"no", "yes", "cancel"}]
      /\ link \in [Addr -> {"down", "up", "closing"}] /\ tracked \subseteq Addr
  BY DEF EInv, RestOK
<1>1. act.valid /\ act.addr \in Addr /\ act \in ActiveNode
  BY NodeFacts DEF Pending, EInv
<1>2. CASE delay
  <2>1. running' = TRUE /\ UNCHANGED <<sdp, page, link>>
    BY <1>2 DEF ConnTimeout
  <2> QED
    BY <2>1, BusyPends, StackSame
<1>3. CASE ~delay /\ act.addr \notin tracked
  <2>1. /\ sdp' = [sdp EXCEPT ![act.addr] = {}] /\ AclDisconnect(act.addr)
        /\ UNCHANGED <<mode, running, act, delay, pconn>>
    BY <1>1, <1>3 DEF ConnTimeout, StopSearch
  <2>2. StackWaits'
    BY <1>0, <1>1, <1>3, <2>1 DEF StackWaits, AclDisconnect
  <2>3. Pending'
    BY <1>0, <1>1, <1>3, <2>1 DEF Pending, AclDisconnect
  <2> QED
    BY <2>2, <2>3
<1>4. CASE ~delay /\ act.addr \in tracked
  <2>1. /\ act' = [act EXCEPT !.plan = {}]
        /\ UNCHANGED <<mode, running, delay, sdp, page, link, pconn>>
    BY <1>1, <1>4 DEF ConnTimeout
  <2>2. /\ act'.valid = act.valid /\ act'.exit = act.exit
        /\ act'.addr = act.addr /\ act'.sdpOk = act.sdpOk
        /\ act'.doing = act.doing
    BY <1>1, <2>1 DEF ActiveNode
  <2> QED
    BY <2>1, <2>2, StackSame DEF Pending
<1> QED
  BY <1>2, <1>3, <1>4

LEMMA TimersWait ==
  ASSUME EInv, Waits, TimerFires
  PROVE  Waits'
<1> USE DEF Waits
<1>1. CASE Tick
  BY <1>1, StackSame DEF Tick, Pending, tableVars, stackVars
<1>2. CASE LinkbackTimerFires
  BY <1>2, ConnTimeoutWaits
     DEF LinkbackTimerFires, tableVars, EInv, QuietOutsideSession
<1>3. CASE DelayTimerFires
  BY <1>3, StackSame, BusyPends
     DEF DelayTimerFires, tableVars, stackVars, EInv, QuietOutsideSession
<1>4. ASSUME NEW a \in Addr, IndTimerFires(a)
      PROVE  Waits'
  BY <1>4, StackSame DEF IndTimerFires, Pending, engVars, nodeVars, stackVars
<1>5. ASSUME NEW a \in Addr, LaterAvrcpFires(a)
      PROVE  Waits'
  <2>1. /\ UNCHANGED <<mode, running, delay, tracked, link, page, sdp>>
        /\ ~running
    BY <1>5 DEF LaterAvrcpFires
  <2>2. CASE mode = "linkback" /\ Current(a)
    <3>1. /\ act' = ProfsAdd(act, {"AVRCP"}) /\ act \in ActiveNode
          /\ UNCHANGED pconn
      BY <1>5, <2>2, NodeFacts DEF LaterAvrcpFires, MoreProfs, Current, EInv
    <3>2. /\ act'.valid = act.valid /\ act'.exit = act.exit
          /\ act'.addr = act.addr /\ act'.sdpOk = act.sdpOk
          /\ act'.doing = act.doing
      BY <3>1 DEF ProfsAdd, ActiveNode
    <3> QED
      BY <2>1, <3>1, <3>2, StackSame DEF Pending
  <2>3. CASE mode = "linkback" /\ ~Current(a)
    BY <1>5, <2>1, <2>3, StackSame DEF LaterAvrcpFires, Pending
  <2>4. CASE mode # "linkback"
    BY <2>1, <2>4, StackSame, BusyPends
  <2> QED
    BY <2>2, <2>3, <2>4
<1> QED
  BY <1>1, <1>2, <1>3, <1>4, <1>5 DEF TimerFires

-----------------------------------------------------------------------------
(* What the stack reports.                                                  *)

LEMMA PagesWait ==
  ASSUME EInv, Waits, NEW a \in Addr,
         PageSuc(a) \/ PageFail(a) \/ PageFailExist(a) \/ PageFailBusy(a)
  PROVE  Waits'
<1> USE DEF Waits
<1>0. /\ sdp \in [Addr -> SUBSET Prof]
      /\ page \in [Addr -> {"no", "yes", "cancel"}]
      /\ link \in [Addr -> {"down", "up", "closing"}] /\ tracked \subseteq Addr
      /\ act.valid => act.addr \in Addr
  BY NodeFacts DEF EInv, RestOK
<1>1. CASE PageSuc(a)
  <2>1. /\ link[a] = "down" /\ page[a] # "no" /\ page' = [page EXCEPT ![a] = "no"]
        /\ link' = [link EXCEPT ![a] =
             IF page[a] = "cancel" \/ mode = "stop" THEN "closing" ELSE "up"]
        /\ tracked' \in {tracked, tracked \cup {a}}
        /\ UNCHANGED <<mode, running, act, delay, sdp, pconn>>
    BY <1>1 DEF PageSuc, LinkUp, engVars, nodeVars
  <2>2. StackWaits'
    BY <1>0, <2>1 DEF StackWaits
  <2>3. Pending'
    BY <1>0, <2>1 DEF Pending, StackWaits
  <2> QED
    BY <2>2, <2>3
<1>2. CASE PageFail(a)
  <2>1. /\ link[a] = "down" /\ page' = [page EXCEPT ![a] = "no"]
        /\ sdp' = [sdp EXCEPT ![a] = {}]
        /\ UNCHANGED <<mode, delay, tracked, link, pconn>>
        /\ IF mode = "linkback" /\ Current(a) THEN running' = TRUE
           ELSE UNCHANGED <<running, act>>
    BY <1>2 DEF PageFail, PageEnds, StopSearch, ConnFailHandler, tableVars
  <2>2. StackWaits'
    BY <1>0, <2>1 DEF StackWaits
  <2>3. Pending'
    BY <1>0, <2>1 DEF Pending, Current
  <2> QED
    BY <2>2, <2>3
<1>3. CASE PageFailExist(a) \/ PageFailBusy(a)
  <2>1. /\ page' = [page EXCEPT ![a] = "no"]
        /\ sdp' = sdp \/ sdp' = [sdp EXCEPT ![a] = {}]
        /\ delay' = (delay \/ (mode = "linkback" /\ Current(a)))
        /\ UNCHANGED <<mode, running, act, tracked, link, pconn>>
    BY <1>3 DEF PageFailExist, PageFailBusy, PageEnds, DelayRetry, StopSearch,
                tableVars
  <2>2. StackWaits'
    BY <1>0, <2>1 DEF StackWaits
  <2>3. Pending'
    BY <1>0, <2>1 DEF Pending, Current
  <2> QED
    BY <2>2, <2>3
<1> QED
  BY <1>1, <1>2, <1>3

LEMMA IncomingWaits ==
  ASSUME EInv, Waits, NEW a \in Addr,
         Incoming(a) \/ IncomingUp(a) \/ IncomingFails(a) \/ AuthSuc(a)
  PROVE  Waits'
<1> USE DEF Waits
<1>0. /\ link \in [Addr -> {"down", "up", "closing"}] /\ tracked \subseteq Addr
      /\ act.valid => act.addr \in Addr
  BY NodeFacts DEF EInv, RestOK
<1>1. CASE Incoming(a) \/ IncomingFails(a)
  <2>1. UNCHANGED <<mode, tracked, link, page, sdp, pconn>>
    BY <1>1 DEF Incoming, IncomingFails, engVars, nodeVars, tableVars
  <2>2. \/ running' = TRUE
        \/ UNCHANGED <<running, act>> /\ (delay => delay')
    BY <1>1
       DEF Incoming, IncomingFails, ConnFailHandler, DelayRetry, engVars, nodeVars
  <2> QED
    BY <2>1, <2>2, StackSame DEF Pending
<1>2. CASE IncomingUp(a)
  <2>1. /\ link[a] = "down" /\ link'[a] # "down"
        /\ \A b \in Addr \ {a} : link'[b] = link[b]
        /\ tracked' \in {tracked, tracked \cup {a}}
        /\ UNCHANGED <<mode, running, act, delay, page, sdp, pconn>>
    BY <1>0, <1>2 DEF IncomingUp, LinkUp, engVars, nodeVars
  <2>2. StackWaits'
    BY <1>0, <2>1 DEF StackWaits
  <2>3. Pending'
    BY <1>0, <2>1 DEF Pending
  <2> QED
    BY <2>2, <2>3
<1>3. CASE AuthSuc(a)
  <2>1. ~running /\ UNCHANGED tracked
    BY <1>3 DEF AuthSuc, tableVars
  <2>2. \/ mode = "linkback" /\ ConnTimeout
        \/ UNCHANGED <<mode, running, act, delay, sdp, page, link, pconn>>
    BY <1>3 DEF AuthSuc, engVars, nodeVars
  <2> QED
    BY <2>1, <2>2, ConnTimeoutWaits, StackSame DEF Pending
<1> QED
  BY <1>1, <1>2, <1>3

LEMMA DisconnWaits ==
  ASSUME EInv, Waits, NEW a \in Addr, DisconnNormal(a) \/ DisconnLost(a)
  PROVE  Waits'
<1> USE DEF Waits
<1>0. /\ sdp \in [Addr -> SUBSET Prof] /\ pconn \in [Addr -> SUBSET Prof]
      /\ link \in [Addr -> {"down", "up", "closing"}] /\ tracked \subseteq Addr
      /\ act.valid => act.addr \in Addr
  BY NodeFacts DEF EInv, RestOK
<1>1. /\ page[a] = "no" /\ link' = [link EXCEPT ![a] = "down"]
      /\ sdp' = [sdp EXCEPT ![a] = {}] /\ pconn' = [pconn EXCEPT ![a] = {}]
      /\ tracked' = tracked \ {a} /\ UNCHANGED page
  BY DEF DisconnNormal, DisconnLost, LinkGone
<1>2. StackWaits'
  BY <1>0, <1>1 DEF StackWaits
<1>3. \/ running' = TRUE
      \/ /\ ~(mode = "linkback" /\ Current(a))
         /\ UNCHANGED <<mode, running, act, delay>>
  BY DEF DisconnNormal, DisconnLost, ExitNode
<1>4. Pending'
  BY <1>0, <1>1, <1>3 DEF Pending, Current
<1> QED
  BY <1>2, <1>4

LEMMA SearchWaits ==
  ASSUME EInv, Waits, NEW a \in Addr,
         SdpAttr(a) \/ \E p \in Prof : SdpCmpl(a, p)
  PROVE  Waits'
<1> USE DEF Waits
<1>0. /\ sdp \in [Addr -> SUBSET Prof] /\ pconn \in [Addr -> SUBSET Prof]
      /\ act.valid => act \in ActiveNode /\ act.addr \in Addr
  BY NodeFacts DEF EInv, RestOK
<1>1. CASE SdpAttr(a)
  <2>1. /\ act' = [act EXCEPT !.sdpOk = TRUE] /\ act \in ActiveNode
        /\ UNCHANGED <<mode, running, delay, tracked, link, page, sdp, pconn>>
    BY <1>0, <1>1 DEF SdpAttr, Current, tableVars, stackVars
  <2>2. /\ act'.valid = act.valid /\ act'.exit = act.exit
        /\ act'.addr = act.addr /\ act'.doing = act.doing
        /\ (act.sdpOk => act'.sdpOk)
    BY <2>1 DEF ActiveNode
  <2> QED
    BY <2>1, <2>2, StackSame DEF Pending
<1>2. ASSUME NEW p \in Prof, SdpCmpl(a, p)
      PROVE  Waits'
  <2>1. /\ link[a] = "up" /\ sdp' = [sdp EXCEPT ![a] = @ \ {p}]
        /\ UNCHANGED <<mode, delay, tracked, link, page>>
    BY <1>2 DEF SdpCmpl, tableVars
  <2>2. StackWaits'
    BY <1>0, <2>1 DEF StackWaits
  <2>3. \/ running' = TRUE
        \/ /\ ~(mode = "linkback" /\ Current(a) /\ a \in tracked)
           /\ UNCHANGED <<act, running, pconn>>
        \/ /\ Current(a) /\ act.sdpOk /\ UNCHANGED <<act, running>>
           /\ pconn' = [pconn EXCEPT ![a] = @ \cup {act.doing}]
    BY <1>2 DEF SdpCmpl
  <2>4. Pending'
    BY <1>0, <2>1, <2>3 DEF Pending, Current
  <2> QED
    BY <2>2, <2>4
<1> QED
  BY <1>1, <1>2

LEMMA ProfConnectedWaits ==
  ASSUME EInv, Waits, NEW a \in Addr, NEW p \in Prof, ProfConnected(a, p)
  PROVE  Waits'
<1> USE DEF Waits
<1> DEFINE first == profs[a] = {}
           cur   == mode = "linkback" /\ Current(a)
           act1  == IF first /\ cur THEN ProfsAdd(act, {"DID"}) ELSE act
           done  == cur /\ act.doing = p /\ act.sdpOk
<1>0. /\ sdp \in [Addr -> SUBSET Prof] /\ pconn \in [Addr -> SUBSET Prof]
      /\ running \in BOOLEAN
      /\ act.valid => act \in ActiveNode /\ act.addr \in Addr
  BY NodeFacts DEF EInv, RestOK, EngOK
<1>1. /\ ~running /\ pconn' = [pconn EXCEPT ![a] = @ \ {p}]
      /\ UNCHANGED <<mode, delay, tracked, link, page>>
  BY DEF ProfConnected, ProfSuc
<1>2. CASE a \notin tracked
  <2>1. UNCHANGED <<act, running, sdp>>
    BY <1>2 DEF ProfConnected, ProfSuc
  <2> QED
    BY <1>0, <1>1, <1>2, <2>1, StackSame DEF Pending
<1>3. CASE a \in tracked
  <2>1. /\ act' = IF done THEN StepSuc(act1) ELSE act1
        /\ running' = done
        /\ sdp' = sdp \/ sdp' = [sdp EXCEPT ![a] = @ \cup {"DID"}]
    BY <1>3 DEF ProfConnected, ProfSuc
  <2>2. StackWaits'
    BY <1>0, <1>1, <2>1 DEF StackWaits
  <2>3. act.valid => /\ act1.valid = act.valid /\ act1.exit = act.exit
                     /\ act1.addr = act.addr /\ act1.doing = act.doing
                     /\ act1.sdpOk = act.sdpOk
    BY <1>0 DEF ProfsAdd, ActiveNode
  <2> HIDE DEF act1
  <2>4. CASE done
    BY <2>1, <2>2, <2>4, BusyPends
  <2>5. CASE ~done
    <3>1. act' = act1 /\ ~running'
      BY <2>1, <2>5
    <3> QED
      BY <1>0, <1>1, <2>1, <2>2, <2>3, <2>5, <3>1 DEF Pending, Current
  <2> QED
    BY <2>4, <2>5
<1> QED
  BY <1>2, <1>3

LEMMA ProfEndsWait ==
  ASSUME EInv, Waits, NEW a \in Addr, NEW p \in Prof,
         \/ ProfFail(a, p) \/ ProfFailSecurity(a, p) \/ ProfFailNoResource(a, p)
         \/ ProfDisconnected(a, p)
  PROVE  Waits'
<1> USE DEF Waits
<1>0. /\ sdp \in [Addr -> SUBSET Prof] /\ pconn \in [Addr -> SUBSET Prof]
      /\ page \in [Addr -> {"no", "yes", "cancel"}]
      /\ link \in [Addr -> {"down", "up", "closing"}] /\ tracked \subseteq Addr
      /\ act.valid => act.addr \in Addr
  BY NodeFacts DEF EInv, RestOK
<1>1. CASE ProfFail(a, p)
  <2>1. /\ pconn' = [pconn EXCEPT ![a] = @ \ {p}]
        /\ UNCHANGED <<mode, delay, tracked, link, page, sdp>>
        /\ \/ running' = TRUE
           \/ /\ ~(mode = "linkback" /\ Current(a) /\ act.doing = p /\ act.sdpOk)
              /\ UNCHANGED <<act, running>>
    BY <1>1 DEF ProfFail, tableVars
  <2> QED
    BY <1>0, <2>1, StackSame DEF Pending, Current
<1>2. CASE ProfFailSecurity(a, p)
  <2>1. /\ pconn' = [pconn EXCEPT ![a] = @ \ {p}] /\ link[a] = "up"
        /\ UNCHANGED <<mode, running, act, delay, tracked, sdp>>
        /\ IF mode = "linkback" /\ Current(a) THEN AclDisconnect(a)
           ELSE UNCHANGED <<page, link>>
    BY <1>2 DEF ProfFailSecurity, engVars, nodeVars, tableVars
  <2>2. StackWaits'
    BY <1>0, <2>1 DEF StackWaits, AclDisconnect
  <2>3. Pending'
    BY <1>0, <2>1 DEF Pending, Current, AclDisconnect
  <2> QED
    BY <2>2, <2>3
<1>3. CASE ProfFailNoResource(a, p)
  <2>1. /\ pconn' = [pconn EXCEPT ![a] = @ \ {p}]
        /\ delay' = (delay \/ (mode = "linkback" /\ Current(a)))
        /\ UNCHANGED <<mode, running, act, tracked, link, page, sdp>>
    BY <1>3 DEF ProfFailNoResource, DelayRetry, tableVars
  <2> QED
    BY <1>0, <2>1, StackSame DEF Pending, Current
<1>4. CASE ProfDisconnected(a, p)
  <2>1. /\ UNCHANGED <<mode, running, act, delay, tracked, sdp, pconn>>
        /\ AclDisconnect(a) \/ UNCHANGED <<page, link>>
    BY <1>4 DEF ProfDisconnected, engVars, nodeVars
  <2>2. StackWaits'
    BY <1>0, <2>1 DEF StackWaits, AclDisconnect
  <2>3. Pending'
    BY <1>0, <2>1 DEF Pending, AclDisconnect
  <2> QED
    BY <2>2, <2>3
<1> QED
  BY <1>1, <1>2, <1>3, <1>4

LEMMA NextWaits ==
  ASSUME EInv, Waits, Lea = {}, [Next]_vars
  PROVE  Waits'
<1>1. ASSUME NEW a \in Addr, StackAnswer(a) \/ Incoming(a) \/ DisconnLost(a)
      PROVE  Waits'
  BY <1>1, PagesWait, IncomingWaits, DisconnWaits, SearchWaits,
     ProfConnectedWaits, ProfEndsWait DEF StackAnswer
<1>2. CASE UNCHANGED vars
  BY <1>2 DEF vars, engVars, nodeVars, tableVars, stackVars, Waits, StackWaits,
              Pending
<1> QED
  BY <1>1, <1>2, RunWaits, CommandWaits, TimersWait DEF Next

-----------------------------------------------------------------------------
(* A link table with room for every device the headset knows.              *)

\* The table has an entry for every device.
Room == IsFiniteSet(Addr) /\ Cardinality(Addr) <= MaxLink

\* Every link has its entry.
Fits == \A a \in Addr : link[a] # "down" => a \in tracked

\* A device without an entry finds the table with room for it.
LEMMA RoomLeft ==
  ASSUME Room, RestOK, NEW a \in Addr, a \notin tracked
  PROVE  ~Full
<1>1. tracked \cup {a} \subseteq Addr
  BY DEF RestOK
<1>2. /\ IsFiniteSet(tracked) /\ IsFiniteSet(tracked \cup {a})
      /\ Cardinality(tracked \cup {a}) <= Cardinality(Addr)
  BY <1>1, FS_Subset DEF Room
<1>3. Cardinality(tracked \cup {a}) = Cardinality(tracked) + 1
  BY <1>2, FS_AddElement
<1>4. /\ Cardinality(tracked) \in Nat /\ Cardinality(Addr) \in Nat
      /\ MaxLink \in Nat
  BY <1>2, FS_CardinalityType, EngineAssumption DEF Room
<1> QED
  BY <1>2, <1>3, <1>4 DEF Room, Full

\* What a step does with links and their entries: nothing, more than closing,
\* a link that comes up with its entry, if there is room for one, or one that
\* goes down with it.
LinkShape ==
  \/ /\ UNCHANGED tracked
     /\ \A a \in Addr : link'[a] = "down" <=> link[a] = "down"
  \/ \E a \in Addr :
       /\ link'[a] # "down" /\ \A b \in Addr \ {a} : link'[b] = link[b]
       /\ tracked' = IF Full THEN tracked ELSE tracked \cup {a}
  \/ \E a \in Addr :
       /\ link' = [link EXCEPT ![a] = "down"]
       /\ tracked' = tracked \ {a}

LEMMA NextLinkShape ==
  ASSUME EInv, [Next]_vars
  PROVE  LinkShape
<1>0. link \in [Addr -> {"down", "up", "closing"}]
  BY DEF EInv, RestOK
<1>1. CASE Run \/ TimerFires
  BY <1>0, <1>1
     DEF Run, RunTake, RunTakeEmptyPlan, RunFinish, RunDrop, RunWaitInd,
         RunAlreadyConnected, RunDropFull, RunSearch, RunSearchRefused,
         TimerFires, Tick, LinkbackTimerFires, ConnTimeout, DelayTimerFires,
         IndTimerFires, LaterAvrcpFires, AclDisconnect, tableVars, stackVars,
         LinkShape
<1>2. CASE Command
  BY <1>0, <1>2
     DEF Command, Startup, Restore, LinkbackSched, Stop, Connect, Disconnect,
         AclDisconnect, tableVars, stackVars, LinkShape
<1>3. ASSUME NEW a \in Addr, PageSuc(a) \/ IncomingUp(a)
      PROVE  LinkShape
  BY <1>0, <1>3 DEF PageSuc, IncomingUp, LinkUp, LinkShape
<1>4. ASSUME NEW a \in Addr, DisconnNormal(a) \/ DisconnLost(a)
      PROVE  LinkShape
  BY <1>0, <1>4 DEF DisconnNormal, DisconnLost, LinkGone, LinkShape
<1>5. ASSUME NEW a \in Addr,
             \/ PageFail(a) \/ PageFailExist(a) \/ PageFailBusy(a)
             \/ Incoming(a) \/ IncomingFails(a) \/ AuthSuc(a) \/ SdpAttr(a)
      PROVE  LinkShape
  BY <1>0, <1>5
     DEF PageFail, PageFailExist, PageFailBusy, PageEnds, Incoming,
         IncomingFails, AuthSuc, ConnTimeout, AclDisconnect, SdpAttr,
         tableVars, stackVars, LinkShape
<1>6. ASSUME NEW a \in Addr, NEW p \in Prof,
             \/ SdpCmpl(a, p) \/ ProfConnected(a, p) \/ ProfFail(a, p)
             \/ ProfFailSecurity(a, p) \/ ProfFailNoResource(a, p)
             \/ ProfDisconnected(a, p)
      PROVE  LinkShape
  BY <1>0, <1>6
     DEF SdpCmpl, ProfConnected, ProfSuc, ProfFail, ProfFailSecurity,
         ProfFailNoResource, ProfDisconnected, AclDisconnect, tableVars,
         LinkShape
<1>7. CASE UNCHANGED vars
  BY <1>7 DEF vars, tableVars, stackVars, LinkShape
<1> QED
  BY <1>1, <1>2, <1>3, <1>4, <1>5, <1>6, <1>7 DEF Next, StackAnswer

LEMMA NextFits ==
  ASSUME EInv, Room, Fits, [Next]_vars
  PROVE  Fits'
<1>0. RestOK /\ link \in [Addr -> {"down", "up", "closing"}]
  BY DEF EInv, RestOK
<1>1. LinkShape
  BY NextLinkShape
<1>2. CASE /\ UNCHANGED tracked
           /\ \A a \in Addr : link'[a] = "down" <=> link[a] = "down"
  BY <1>2 DEF Fits
<1>3. ASSUME NEW a \in Addr,
             link'[a] # "down", \A b \in Addr \ {a} : link'[b] = link[b],
             tracked' = IF Full THEN tracked ELSE tracked \cup {a}
      PROVE  Fits'
  <2>1. a \in tracked'
    BY <1>0, <1>3, RoomLeft
  <2>2. \A b \in tracked : b \in tracked'
    BY <1>3
  <2> QED
    BY <1>3, <2>1, <2>2 DEF Fits
<1>4. ASSUME NEW a \in Addr, link' = [link EXCEPT ![a] = "down"],
             tracked' = tracked \ {a}
      PROVE  Fits'
  BY <1>0, <1>4 DEF Fits
<1> QED
  BY <1>1, <1>2, <1>3, <1>4 DEF LinkShape

\* A tracked device has a link.
LEMMA NextTrackedUp ==
  ASSUME EInv, [Next]_vars, \A a \in tracked : link[a] # "down"
  PROVE  \A a \in tracked' : link'[a] # "down"
<1>0. /\ link \in [Addr -> {"down", "up", "closing"}] /\ tracked \subseteq Addr
      /\ LinkShape
  BY NextLinkShape DEF EInv, RestOK
<1>1. CASE /\ UNCHANGED tracked
           /\ \A a \in Addr : link'[a] = "down" <=> link[a] = "down"
  BY <1>0, <1>1
<1>2. ASSUME NEW a \in Addr,
             link'[a] # "down", \A b \in Addr \ {a} : link'[b] = link[b],
             tracked' = IF Full THEN tracked ELSE tracked \cup {a}
      PROVE  \A b \in tracked' : link'[b] # "down"
  BY <1>0, <1>2
<1>3. ASSUME NEW a \in Addr, link' = [link EXCEPT ![a] = "down"],
             tracked' = tracked \ {a}
      PROVE  \A b \in tracked' : link'[b] # "down"
  BY <1>0, <1>3
<1> QED
  BY <1>0, <1>1, <1>2, <1>3 DEF LinkShape

-----------------------------------------------------------------------------
(* Without a busy controller and without phones that page the headset, the  *)
(* engine alone decides when a link comes up.                               *)

\* The inputs of the theorems about pages.
Calm == "busy" \notin Inputs /\ "incoming" \notin Inputs

\* Nothing is put off, and no device connects by itself.
NoDelay == ~delay /\ ind = {} /\ inc = {}

\* A page looks for a device without a link; one that is not being cancelled is
\* for the active node, and the engine waits for it.
PagesWaited ==
  \A a \in Addr :
    /\ page[a] # "no" => link[a] = "down"
    /\ page[a] = "yes" => mode = "linkback" /\ ~running /\ Current(a) /\ ~act.exit

\* Once the time of a node is over, its page is being cancelled, or its link is
\* tracked or being closed; and a node that is over is not waited for.
OverTime ==
  act.valid =>
    /\ act.exit => running
    /\ ~act.exit /\ timer = 0 =>
         /\ link[act.addr] = "down" =>
              ~running /\ afterStop /\ page[act.addr] # "yes"
         /\ link[act.addr] = "up" => act.addr \in tracked

\* The invariant of a calm run.
CalmInv ==
  /\ \A a \in tracked : link[a] # "down"
  /\ NoDelay /\ PagesWaited /\ OverTime

\* Its first part needs no more than the absence of those inputs.
LEMMA NextNoDelay ==
  ASSUME EInv, Calm, NoDelay, PagesWaited, [Next]_vars
  PROVE  NoDelay'
<1>0. delay \in BOOLEAN
  BY DEF EInv, EngOK
<1>1. CASE Run
  BY <1>1
     DEF Run, RunTake, RunTakeEmptyPlan, RunFinish, RunDrop, RunWaitInd, ToConnect,
         RunAlreadyConnected, RunDropFull, RunSearch, RunSearchRefused, Finish,
         nodeVars, tableVars, stackVars, NoDelay
<1>2. CASE Command
  <2>1. CASE Startup \/ Restore \/ Stop
    BY <2>1
       DEF Startup, Restore, LinkbackSched, Stop, tableVars, stackVars, NoDelay
  <2>2. ASSUME NEW a, NEW ps, Connect(a, ps) \/ Disconnect(a, ps)
        PROVE  NoDelay'
    BY <2>2 DEF Connect, Disconnect, tableVars, stackVars, NoDelay
  <2> QED
    BY <1>2, <2>1, <2>2 DEF Command
<1>3. CASE TimerFires
  <2>1. CASE Tick \/ LinkbackTimerFires \/ DelayTimerFires
    BY <1>0, <2>1
       DEF Tick, LinkbackTimerFires, ConnTimeout, DelayTimerFires, tableVars,
           stackVars, NoDelay
  <2>2. ASSUME NEW a \in Addr, IndTimerFires(a) \/ LaterAvrcpFires(a)
        PROVE  NoDelay'
    BY <2>2
       DEF IndTimerFires, LaterAvrcpFires, engVars, nodeVars, stackVars, NoDelay
  <2> QED
    BY <1>3, <2>1, <2>2 DEF TimerFires
<1>4. ASSUME NEW a \in Addr,
             \/ PageSuc(a) \/ PageFail(a) \/ PageFailExist(a) \/ PageFailBusy(a)
             \/ IncomingUp(a) \/ IncomingFails(a) \/ AuthSuc(a)
             \/ Incoming(a) \/ DisconnNormal(a) \/ DisconnLost(a) \/ SdpAttr(a)
      PROVE  NoDelay'
  <2>1. ~PageFailExist(a) /\ ~PageFailBusy(a) /\ ~Incoming(a)
    BY DEF PageFailExist, PageFailBusy, Incoming, Disturb, Calm, PagesWaited
  <2>2. ~IncomingUp(a) /\ ~IncomingFails(a)
    BY DEF IncomingUp, IncomingFails, NoDelay
  <2>3. CASE PageSuc(a) \/ PageFail(a)
    BY <2>3
       DEF PageSuc, LinkUp, PageFail, PageEnds, engVars, nodeVars, tableVars,
           NoDelay
  <2>4. CASE AuthSuc(a) \/ SdpAttr(a)
    BY <2>4
       DEF AuthSuc, ConnTimeout, SdpAttr, engVars, nodeVars, tableVars,
           stackVars, NoDelay
  <2>5. CASE DisconnNormal(a) \/ DisconnLost(a)
    <3>1. UNCHANGED <<delay, ind, inc>>
      BY <2>5 DEF DisconnNormal, DisconnLost, LinkGone
    <3> QED
      BY <3>1 DEF NoDelay
  <2> QED
    BY <1>4, <2>1, <2>2, <2>3, <2>4, <2>5
<1>5. ASSUME NEW a \in Addr, NEW p \in Prof,
             \/ SdpCmpl(a, p) \/ ProfConnected(a, p) \/ ProfFail(a, p)
             \/ ProfFailSecurity(a, p) \/ ProfFailNoResource(a, p)
             \/ ProfDisconnected(a, p)
      PROVE  NoDelay'
  BY <1>5
     DEF SdpCmpl, ProfConnected, ProfSuc, ProfFail, ProfFailSecurity,
         ProfFailNoResource, ProfDisconnected, Disturb, Calm, engVars,
         nodeVars, tableVars, NoDelay
<1>6. CASE UNCHANGED vars
  BY <1>6 DEF vars, engVars, nodeVars, tableVars, stackVars, NoDelay
<1> QED
  BY <1>1, <1>2, <1>3, <1>4, <1>5, <1>6 DEF Next, StackAnswer

\* What the arguments below need of the types.
LEMMA CalmFacts ==
  ASSUME EInv
  PROVE  /\ page \in [Addr -> {"no", "yes", "cancel"}]
         /\ link \in [Addr -> {"down", "up", "closing"}] /\ tracked \subseteq Addr
         /\ timer \in Nat /\ running \in BOOLEAN /\ LinkbackTimeout + 1 > 0
         /\ act.valid => /\ act \in ActiveNode /\ act.addr \in Addr
                         /\ act.remain # {} => act.doing \in Prof
         /\ mode # "linkback" => ~act.valid /\ timer = 0 /\ ~running
         /\ ~NoNode.valid
BY NodeFacts, ActiveCases, TimeoutNat
   DEF EInv, RestOK, EngOK, QuietOutsideSession

\* A node about the same device, and as much over as before.
SameNode(b, a) ==
  b.valid = a.valid /\ (a.valid => b.addr = a.addr /\ b.exit = a.exit)

\* Nothing that is done to a node about its profiles changes that.
LEMMA SameNodes ==
  ASSUME NEW a \in ActiveNode, NEW ps
  PROVE  /\ SameNode(ProfsAdd(a, ps), a) /\ SameNode(ProfsSub(a, ps), a)
         /\ SameNode([a EXCEPT !.plan = {}], a)
         /\ SameNode([a EXCEPT !.sdpOk = TRUE], a)
BY DEF SameNode, ProfsAdd, ProfsSub, ActiveNode

LEMMA SameSteps ==
  ASSUME NEW a \in ActiveNode, a.remain # {} => a.doing \in Prof
  PROVE  /\ SameNode(StepSuc(a), a) /\ SameNode(StepFail(a), a)
         /\ SameNode(ConnFailAdjust(a), a)
<1>1. a.valid
  BY DEF ActiveNode
<1> QED
  BY <1>1, StepKept DEF Kept, SameNode

\* A message that changes neither pages nor links, while the engine waits on for
\* the same node.
LEMMA CalmSame ==
  ASSUME CalmInv, SameNode(act', act), timer' = timer \/ timer' > 0,
         UNCHANGED <<mode, running, afterStop, tracked, link, page>>
  PROVE  PagesWaited' /\ OverTime'
<1>1. PagesWaited'
  BY DEF CalmInv, PagesWaited, SameNode, Current
<1>2. OverTime'
  <2>1. timer' = 0 => timer = 0
    OBVIOUS
  <2> QED
    BY <2>1 DEF CalmInv, OverTime, SameNode
<1> QED
  BY <1>1, <1>2

\* Every action keeps the rest.
LEMMA RunCalm ==
  ASSUME EInv, CalmInv, Run
  PROVE  PagesWaited' /\ OverTime'
<1> USE CalmFacts
<1>0. running /\ \A a \in Addr : page[a] # "yes"
  BY DEF Run, RunTake, RunTakeEmptyPlan, RunFinish, RunDrop, RunWaitInd,
       RunAlreadyConnected, RunDropFull, RunSearch, ToSearch, RunSearchRefused,
       ToConnect, CalmInv, PagesWaited
<1>1. CASE RunTake
  <2>1. Head(todo) \in Node
    BY <1>1, TailGood DEF RunTake, EInv, EngOK
  <2>2. Load(Head(todo)).valid /\ ~Load(Head(todo)).exit
    BY DEF Load
  <2>3. Head(todo).tmo + 1 > 0
    <3>1. Head(todo).tmo \in Nat
      BY <2>1, TimeoutNat DEF Node
    <3> QED
      BY <3>1
  <2> QED
    BY <1>0, <1>1, <2>2, <2>3
       DEF RunTake, CalmInv, PagesWaited, OverTime, tableVars, stackVars
<1>2. CASE RunTakeEmptyPlan \/ RunFinish \/ RunDrop \/ RunDropFull
  <2>1. act' = NoNode /\ UNCHANGED <<page, link>>
    BY <1>2 DEF RunTakeEmptyPlan, RunFinish, Finish, RunDrop, RunDropFull,
                stackVars
  <2> QED
    BY <1>0, <2>1 DEF CalmInv, PagesWaited, OverTime
<1>3. CASE RunAlreadyConnected \/ RunSearchRefused
  <2>1. /\ act.valid /\ act' \in {StepSuc(act), StepFail(act)}
        /\ UNCHANGED <<mode, running, timer, afterStop, tracked, link, page>>
    BY <1>3 DEF RunAlreadyConnected, RunSearchRefused, ToSearch, ToConnect,
                tableVars, stackVars
  <2>2. SameNode(act', act)
    BY <2>1, SameSteps
  <2> QED
    BY <2>1, <2>2, CalmSame
<1>4. CASE RunWaitInd
  BY <1>4 DEF RunWaitInd, CalmInv, NoDelay
<1>5. CASE RunSearch
  <2>1. /\ act.valid /\ ~act.exit /\ act.addr \in Addr
        /\ page' = [page EXCEPT ![act.addr] =
                      IF @ = "no" /\ link[act.addr] = "down" THEN "yes" ELSE @]
        /\ running' = FALSE
        /\ UNCHANGED <<mode, act, timer, afterStop, tracked, link>>
    BY <1>5 DEF RunSearch, ToSearch, ToConnect, nodeVars, tableVars
  <2>2. mode = "linkback"
    BY <1>0
  <2>3. PagesWaited'
    BY <1>0, <2>1, <2>2 DEF CalmInv, PagesWaited, Current
  <2>4. OverTime'
    BY <1>0, <2>1 DEF CalmInv, OverTime
  <2> QED
    BY <2>3, <2>4
<1> QED
  BY <1>1, <1>2, <1>3, <1>4, <1>5 DEF Run

\* A disconnection is asked for a device: pages are cancelled and links closed.
LEMMA AclCalm ==
  ASSUME EInv, CalmInv, NEW a \in Addr, AclDisconnect(a), SameNode(act', act),
         UNCHANGED <<mode, running, timer, afterStop, tracked>>
  PROVE  PagesWaited' /\ OverTime'
<1> USE CalmFacts
<1>1. PagesWaited'
  BY DEF CalmInv, PagesWaited, SameNode, Current, AclDisconnect
<1>2. OverTime'
  BY DEF CalmInv, OverTime, SameNode, AclDisconnect
<1> QED
  BY <1>1, <1>2

LEMMA CommandCalm ==
  ASSUME EInv, CalmInv, Command
  PROVE  PagesWaited' /\ OverTime'
<1> USE CalmFacts
<1>1. CASE Startup \/ Restore
  <2>1. mode # "linkback" /\ act' = NoNode /\ UNCHANGED <<page, link>>
    BY <1>1 DEF Startup, Restore, LinkbackSched, stackVars
  <2> QED
    BY <2>1 DEF CalmInv, PagesWaited, OverTime
<1>2. CASE Stop
  <2>1. act' = NoNode
    BY <1>2 DEF Stop
  <2>2. CASE act.valid /\ act.addr \notin tracked
    <3>1. AclDisconnect(act.addr)
      BY <1>2, <2>2 DEF Stop
    <3> QED
      BY <2>1, <2>2, <3>1
         DEF CalmInv, PagesWaited, OverTime, Current, AclDisconnect
  <2>3. CASE ~(act.valid /\ act.addr \notin tracked)
    <3>1. UNCHANGED <<page, link>>
      BY <1>2, <2>3 DEF Stop
    <3>2. \A a \in Addr : page[a] # "yes"
      BY <2>3 DEF CalmInv, PagesWaited, Current
    <3> QED
      BY <2>1, <3>1, <3>2 DEF CalmInv, PagesWaited, OverTime
  <2> QED
    BY <2>2, <2>3
<1>3. ASSUME NEW a \in Addr, NEW ps \in SUBSET Prof, Connect(a, ps)
      PROVE  PagesWaited' /\ OverTime'
  <2>1. UNCHANGED <<afterStop, tracked, link, page>>
    BY <1>3 DEF Connect, tableVars, stackVars
  <2>2. CASE mode = "linkback"
    <3>1. /\ UNCHANGED <<mode, running>> /\ (timer' = timer \/ timer' > 0)
          /\ act' = act \/ (act.valid /\ act' = ProfsAdd(act, ps))
      BY <1>3, <2>2 DEF Connect, MoreProfs, Current
    <3>2. SameNode(act', act)
      BY <3>1, SameNodes DEF SameNode
    <3> QED
      BY <2>1, <3>1, <3>2, CalmSame
  <2>3. CASE mode # "linkback"
    <3>1. act' = act
      BY <1>3, <2>3 DEF Connect
    <3> QED
      BY <2>1, <2>3, <3>1 DEF CalmInv, PagesWaited, OverTime
  <2> QED
    BY <2>2, <2>3
<1>4. ASSUME NEW a \in Addr, NEW ps \in SUBSET Prof, Disconnect(a, ps)
      PROVE  PagesWaited' /\ OverTime'
  <2>1. /\ UNCHANGED <<mode, running, timer, afterStop, tracked>>
        /\ act' = act \/ (act.valid /\ act' = ProfsSub(act, ps))
        /\ AclDisconnect(a) \/ UNCHANGED <<page, link>>
    BY <1>4 DEF Disconnect, Current
  <2>2. SameNode(act', act)
    BY <2>1, SameNodes DEF SameNode
  <2> QED
    BY <2>1, <2>2, CalmSame, AclCalm
<1> QED
  BY <1>1, <1>2, <1>3, <1>4 DEF Command

LEMMA ConnTimeoutCalm ==
  ASSUME EInv, CalmInv, ~running, mode = "linkback", ConnTimeout,
         UNCHANGED tracked
  PROVE  PagesWaited' /\ OverTime'
<1> USE CalmFacts
<1>0. ~delay /\ UNCHANGED mode
  BY DEF ConnTimeout, CalmInv, NoDelay
<1>1. CASE ~act.valid
  <2>1. UNCHANGED <<act, page, link>>
    BY <1>1 DEF ConnTimeout
  <2> QED
    BY <1>1, <2>1 DEF CalmInv, PagesWaited, OverTime, Current
<1>2. CASE act.valid /\ act.addr \notin tracked
  <2>1. /\ afterStop' = TRUE /\ AclDisconnect(act.addr)
        /\ UNCHANGED <<act, running>>
    BY <1>0, <1>2 DEF ConnTimeout
  <2>2. PagesWaited'
    BY <1>2, <2>1 DEF CalmInv, PagesWaited, Current, AclDisconnect
  <2>3. OverTime'
    BY <1>2, <2>1 DEF CalmInv, OverTime, AclDisconnect
  <2> QED
    BY <2>2, <2>3
<1>3. CASE act.valid /\ act.addr \in tracked
  <2>1. /\ act' = [act EXCEPT !.plan = {}] /\ UNCHANGED <<running, page, link>>
    BY <1>0, <1>3 DEF ConnTimeout
  <2>2. SameNode(act', act)
    BY <1>3, <2>1, SameNodes
  <2>3. link[act.addr] # "down"
    BY <1>3 DEF CalmInv
  <2>4. PagesWaited'
    BY <1>0, <2>1, <2>2 DEF CalmInv, PagesWaited, Current, SameNode
  <2>5. OverTime'
    BY <1>3, <2>1, <2>2, <2>3 DEF CalmInv, OverTime, SameNode
  <2> QED
    BY <2>4, <2>5
<1> QED
  BY <1>1, <1>2, <1>3

LEMMA TimersCalm ==
  ASSUME EInv, CalmInv, TimerFires
  PROVE  PagesWaited' /\ OverTime'
<1> USE CalmFacts
<1>1. CASE Tick
  <2>1. timer' = timer \/ timer' > 0
    BY <1>1 DEF Tick
  <2>2. UNCHANGED <<mode, running, act, afterStop, tracked, link, page>>
    BY <1>1 DEF Tick, tableVars, stackVars
  <2> QED
    BY <2>1, <2>2, CalmSame DEF SameNode
<1>2. CASE LinkbackTimerFires
  BY <1>2, ConnTimeoutCalm DEF LinkbackTimerFires, tableVars
<1>3. CASE DelayTimerFires
  BY <1>3 DEF DelayTimerFires, CalmInv, NoDelay
<1>4. ASSUME NEW a \in Addr, IndTimerFires(a)
      PROVE  PagesWaited' /\ OverTime'
  BY <1>4 DEF IndTimerFires, CalmInv, NoDelay
<1>5. ASSUME NEW a \in Addr, LaterAvrcpFires(a)
      PROVE  PagesWaited' /\ OverTime'
  <2>1. /\ UNCHANGED <<mode, running, afterStop, tracked, link, page>>
        /\ timer' = timer \/ timer' > 0
        /\ act' = act \/ (act.valid /\ act' = ProfsAdd(act, {"AVRCP"}))
    BY <1>5 DEF LaterAvrcpFires, MoreProfs, Current
  <2>2. SameNode(act', act)
    BY <2>1, SameNodes DEF SameNode
  <2> QED
    BY <2>1, <2>2, CalmSame
<1> QED
  BY <1>1, <1>2, <1>3, <1>4, <1>5 DEF TimerFires

LEMMA PagesCalm ==
  ASSUME EInv, CalmInv, Calm, NEW a \in Addr,
         PageSuc(a) \/ PageFail(a) \/ PageFailExist(a) \/ PageFailBusy(a)
  PROVE  PagesWaited' /\ OverTime'
<1> USE CalmFacts
<1>1. CASE PageSuc(a)
  <2>1. /\ page[a] # "no" /\ page' = [page EXCEPT ![a] = "no"]
        /\ link' = [link EXCEPT ![a] =
             IF page[a] = "cancel" \/ mode = "stop" THEN "closing" ELSE "up"]
        /\ tracked \subseteq tracked'
        /\ UNCHANGED <<mode, running, act, timer, afterStop>>
    BY <1>1 DEF PageSuc, LinkUp, engVars, nodeVars
  <2>2. PagesWaited'
    BY <2>1 DEF CalmInv, PagesWaited, Current
  <2>3. OverTime'
    <3>1. ASSUME act.valid, ~act.exit, timer = 0, act.addr = a
          PROVE  link'[a] = "closing"
      <4>1. link[a] = "down"
        BY <2>1 DEF CalmInv, PagesWaited
      <4>2. page[a] # "yes"
        BY <3>1, <4>1 DEF CalmInv, OverTime
      <4> QED
        BY <2>1, <4>2
    <3> QED
      BY <2>1, <3>1 DEF CalmInv, OverTime
  <2> QED
    BY <2>2, <2>3
<1>2. CASE PageFail(a)
  <2>1. /\ ~running /\ link[a] = "down" /\ page' = [page EXCEPT ![a] = "no"]
        /\ ConnFailHandler(a) /\ UNCHANGED <<mode, tracked, link>>
    BY <1>2 DEF PageFail, PageEnds, tableVars
  <2>2. CASE mode = "linkback" /\ Current(a)
    <3>1. \A b \in Addr : page'[b] # "yes"
      BY <2>1, <2>2 DEF CalmInv, PagesWaited, Current
    <3>2. PagesWaited'
      BY <2>1, <3>1 DEF CalmInv, PagesWaited
    <3>3. CASE act' = NoNode
      BY <3>2, <3>3 DEF OverTime
    <3>4. CASE act' # NoNode
      <4>1. /\ ~afterStop /\ act' = ConnFailAdjust(act) /\ running' = TRUE
            /\ UNCHANGED timer
        BY <2>1, <2>2, <3>4 DEF ConnFailHandler
      <4>2. SameNode(act', act) /\ act.valid /\ act.addr = a
        BY <2>2, <4>1, SameSteps DEF Current
      <4>3. act.exit \/ timer # 0
        BY <2>1, <4>1, <4>2 DEF CalmInv, OverTime
      <4>4. OverTime'
        BY <2>1, <4>1, <4>2, <4>3 DEF CalmInv, OverTime, SameNode
      <4> QED
        BY <3>2, <4>4
    <3> QED
      BY <3>3, <3>4
  <2>3. CASE ~(mode = "linkback" /\ Current(a))
    <3>1. UNCHANGED <<afterStop, running, act, timer>>
      BY <2>1, <2>3 DEF ConnFailHandler
    <3>2. PagesWaited'
      BY <2>1, <3>1 DEF CalmInv, PagesWaited, Current
    <3>3. OverTime'
      BY <2>1, <3>1 DEF CalmInv, OverTime
    <3> QED
      BY <3>2, <3>3
  <2> QED
    BY <2>2, <2>3
<1>3. ~PageFailExist(a) /\ ~PageFailBusy(a)
  BY DEF PageFailExist, PageFailBusy, Disturb, Calm, CalmInv, PagesWaited
<1> QED
  BY <1>1, <1>2, <1>3

LEMMA LinksCalm ==
  ASSUME EInv, CalmInv, Calm, NEW a \in Addr,
         \/ Incoming(a) \/ IncomingUp(a) \/ IncomingFails(a) \/ AuthSuc(a)
         \/ DisconnNormal(a) \/ DisconnLost(a)
  PROVE  PagesWaited' /\ OverTime'
<1> USE CalmFacts
<1>1. ~Incoming(a) /\ ~IncomingUp(a) /\ ~IncomingFails(a)
  BY DEF Incoming, IncomingUp, IncomingFails, Disturb, Calm, CalmInv, NoDelay
<1>2. CASE AuthSuc(a)
  <2>1. ~running /\ UNCHANGED tracked
    BY <1>2 DEF AuthSuc, tableVars
  <2>2. \/ mode = "linkback" /\ ConnTimeout
        \/ UNCHANGED <<mode, running, act, timer, afterStop, page, link>>
    BY <1>2 DEF AuthSuc, engVars, nodeVars
  <2> QED
    BY <2>1, <2>2, ConnTimeoutCalm, CalmSame DEF SameNode
<1>3. CASE DisconnNormal(a) \/ DisconnLost(a)
  <2>1. /\ page[a] = "no" /\ link' = [link EXCEPT ![a] = "down"]
        /\ tracked' = tracked \ {a} /\ UNCHANGED <<page, timer>>
    BY <1>3 DEF DisconnNormal, DisconnLost, LinkGone
  <2>2. \/ mode = "stable" /\ UNCHANGED <<act, afterStop>>
        \/ ExitNode(a) /\ UNCHANGED mode
    BY <1>3 DEF DisconnNormal, DisconnLost
  <2>3. CASE mode = "linkback" /\ Current(a)
    <3>1. act' = [act EXCEPT !.exit = TRUE] /\ running' = TRUE
      BY <2>2, <2>3 DEF ExitNode
    <3>2. act'.exit
      BY <2>3, <3>1 DEF Current, ActiveNode
    <3>3. \A b \in Addr : page[b] # "yes"
      BY <2>1, <2>3 DEF CalmInv, PagesWaited, Current
    <3> QED
      BY <2>1, <3>1, <3>2, <3>3 DEF CalmInv, PagesWaited, OverTime
  <2>4. CASE mode = "linkback" /\ ~Current(a)
    <3>1. UNCHANGED <<mode, act, afterStop, running>>
      BY <2>2, <2>4 DEF ExitNode
    <3>2. PagesWaited'
      BY <2>1, <3>1 DEF CalmInv, PagesWaited, Current
    <3>3. OverTime'
      BY <2>1, <2>4, <3>1 DEF CalmInv, OverTime, Current
    <3> QED
      BY <3>2, <3>3
  <2>5. CASE mode # "linkback"
    <3>1. act' = act
      BY <2>2, <2>5 DEF ExitNode
    <3> QED
      BY <2>1, <2>5, <3>1 DEF CalmInv, PagesWaited, OverTime
  <2> QED
    BY <2>3, <2>4, <2>5
<1> QED
  BY <1>1, <1>2, <1>3

\* The active node makes a step on its link and the run goes on.
LEMMA StepCalm ==
  ASSUME EInv, CalmInv, NEW a \in Addr, link[a] = "up", mode = "linkback",
         Current(a), SameNode(act', act), running' = TRUE,
         timer' = timer \/ timer' > 0,
         UNCHANGED <<mode, afterStop, tracked, link, page>>
  PROVE  PagesWaited' /\ OverTime'
<1> USE CalmFacts
<1>1. \A b \in Addr : page[b] # "yes"
  BY DEF CalmInv, PagesWaited, Current
<1>2. PagesWaited'
  BY <1>1 DEF CalmInv, PagesWaited
<1>3. timer' = 0 => timer = 0
  OBVIOUS
<1>4. OverTime'
  BY <1>3 DEF CalmInv, OverTime, SameNode, Current
<1> QED
  BY <1>2, <1>4

LEMMA SearchCalm ==
  ASSUME EInv, CalmInv, NEW a \in Addr,
         SdpAttr(a) \/ \E p \in Prof : SdpCmpl(a, p)
  PROVE  PagesWaited' /\ OverTime'
<1> USE CalmFacts
<1>1. CASE SdpAttr(a)
  <2>1. /\ act.valid /\ act' = [act EXCEPT !.sdpOk = TRUE]
        /\ UNCHANGED <<mode, running, timer, afterStop, tracked, link, page>>
    BY <1>1 DEF SdpAttr, Current, tableVars, stackVars
  <2> QED
    BY <2>1, SameNodes, CalmSame
<1>2. ASSUME NEW p \in Prof, SdpCmpl(a, p)
      PROVE  PagesWaited' /\ OverTime'
  <2>1. /\ link[a] = "up"
        /\ UNCHANGED <<mode, timer, afterStop, tracked, link, page>>
    BY <1>2 DEF SdpCmpl, tableVars
  <2>2. \/ UNCHANGED <<act, running>>
        \/ /\ mode = "linkback" /\ Current(a) /\ running' = TRUE
           /\ act' \in {StepSuc(act), StepFail(act)}
    BY <1>2 DEF SdpCmpl
  <2>3. CASE UNCHANGED <<act, running>>
    BY <2>1, <2>3, CalmSame DEF SameNode
  <2>4. CASE ~UNCHANGED <<act, running>>
    <3>1. SameNode(act', act)
      BY <2>2, <2>4, SameSteps DEF Current
    <3> QED
      BY <2>1, <2>2, <2>4, <3>1, StepCalm
  <2> QED
    BY <2>3, <2>4
<1> QED
  BY <1>1, <1>2

LEMMA ProfConnectedCalm ==
  ASSUME EInv, CalmInv, NEW a \in Addr, NEW p \in Prof, ProfConnected(a, p)
  PROVE  PagesWaited' /\ OverTime'
<1> USE CalmFacts
<1> DEFINE first == profs[a] = {}
           cur   == mode = "linkback" /\ Current(a)
           act1  == IF first /\ cur THEN ProfsAdd(act, {"DID"}) ELSE act
           done  == cur /\ act.doing = p /\ act.sdpOk
<1>1. /\ ~running /\ link[a] = "up"
      /\ UNCHANGED <<mode, afterStop, tracked, link, page>>
  BY DEF ProfConnected, ProfSuc
<1>2. CASE a \notin tracked
  <2>1. UNCHANGED <<act, running, timer>>
    BY <1>2 DEF ProfConnected, ProfSuc
  <2> QED
    BY <1>1, <2>1, CalmSame DEF SameNode
<1>3. CASE a \in tracked
  <2>1. /\ act' = IF done THEN StepSuc(act1) ELSE act1
        /\ running' = done
        /\ timer' = IF first /\ cur THEN LinkbackTimeout + 1 ELSE timer
    BY <1>3 DEF ProfConnected, ProfSuc
  <2>2. timer' = timer \/ timer' > 0
    BY <2>1
  <2>3. SameNode(act1, act)
    BY SameNodes DEF SameNode, Current
  <2>4. CASE done
    <3>1. act1 \in ActiveNode /\ (act1.remain # {} => act1.doing \in Prof)
      <4>1. act \in ActiveNode /\ act.doing \in Prof
        BY <2>4 DEF Current
      <4>2. {"DID"} \in SUBSET Prof
        BY ProfAssumption
      <4> QED
        BY <4>1, <4>2, ProfsKept DEF Kept
    <3> HIDE DEF act1
    <3>2. SameNode(StepSuc(act1), act1)
      BY <3>1, SameSteps
    <3>3. SameNode(act', act) /\ running' = TRUE
      BY <2>1, <2>3, <2>4, <3>2 DEF SameNode
    <3> QED
      BY <1>1, <2>2, <2>4, <3>3, StepCalm
  <2>5. CASE ~done
    <3>1. act' = act1 /\ running' = running
      BY <1>1, <2>1, <2>5
    <3> QED
      BY <1>1, <2>2, <2>3, <3>1, CalmSame
  <2> QED
    BY <2>4, <2>5
<1> QED
  BY <1>2, <1>3

LEMMA ProfEndsCalm ==
  ASSUME EInv, CalmInv, Calm, NEW a \in Addr, NEW p \in Prof,
         \/ ProfFail(a, p) \/ ProfFailSecurity(a, p) \/ ProfFailNoResource(a, p)
         \/ ProfDisconnected(a, p)
  PROVE  PagesWaited' /\ OverTime'
<1> USE CalmFacts
<1>1. CASE ProfFail(a, p)
  <2>1. /\ link[a] = "up"
        /\ UNCHANGED <<mode, timer, afterStop, tracked, link, page>>
        /\ \/ UNCHANGED <<act, running>>
           \/ /\ mode = "linkback" /\ Current(a) /\ running' = TRUE
              /\ act' = StepFail(act)
    BY <1>1 DEF ProfFail, tableVars
  <2>2. CASE UNCHANGED <<act, running>>
    BY <2>1, <2>2, CalmSame DEF SameNode
  <2>3. CASE ~UNCHANGED <<act, running>>
    <3>1. SameNode(act', act)
      BY <2>1, <2>3, SameSteps DEF Current
    <3> QED
      BY <2>1, <2>3, <3>1, StepCalm
  <2> QED
    BY <2>2, <2>3
<1>2. CASE ProfFailSecurity(a, p) \/ ProfDisconnected(a, p)
  <2>1. /\ UNCHANGED <<mode, running, act, timer, afterStop, tracked>>
        /\ AclDisconnect(a) \/ UNCHANGED <<page, link>>
    BY <1>2 DEF ProfFailSecurity, ProfDisconnected, engVars, nodeVars, tableVars
  <2> QED
    BY <2>1, CalmSame, AclCalm DEF SameNode
<1>3. ~ProfFailNoResource(a, p)
  BY DEF ProfFailNoResource, Disturb, Calm
<1> QED
  BY <1>1, <1>2, <1>3

LEMMA NextCalm ==
  ASSUME EInv, Calm, CalmInv, [Next]_vars
  PROVE  CalmInv'
<1>1. ASSUME NEW a \in Addr, StackAnswer(a) \/ Incoming(a) \/ DisconnLost(a)
      PROVE  PagesWaited' /\ OverTime'
  BY <1>1, PagesCalm, LinksCalm, SearchCalm, ProfConnectedCalm, ProfEndsCalm
     DEF StackAnswer
<1>2. ASSUME UNCHANGED vars
      PROVE  PagesWaited' /\ OverTime'
  BY <1>2, CalmSame
     DEF vars, engVars, nodeVars, tableVars, stackVars, SameNode
<1>3. PagesWaited' /\ OverTime'
  BY <1>1, <1>2, RunCalm, CommandCalm, TimersCalm DEF Next
<1>4. NoDelay' /\ \A a \in tracked' : link'[a] # "down"
  BY NextNoDelay, NextTrackedUp DEF CalmInv
<1> QED
  BY <1>3, <1>4 DEF CalmInv

-----------------------------------------------------------------------------
(* The theorems.                                                            *)

\* The headset pages no device but the one whose turn it is: when a node is
\* left, stopped, lost or out of time, its page has ended or is being cancelled.
\* For a controller that is never busy and phones that never page the headset;
\* otherwise a failed incoming connection of the active phone puts it back while
\* its page is out, and a delay timer that outlives its node restarts the run
\* during the page of the next one, and drops it there.
THEOREM EnginePagesOnlyActive ==
  ASSUME Calm
  PROVE  Spec => []PagesOnlyActive
<1>1. Init => EInv /\ CalmInv
  <2>1. Init => CalmInv
    BY DEF Init, CalmInv, NoDelay, PagesWaited, OverTime, NoNode
  <2> QED
    BY <2>1, InitEInv
<1>2. EInv /\ CalmInv /\ [Next]_vars => EInv' /\ CalmInv'
  BY NextEInv, NextCalm
<1>3. CalmInv => PagesOnlyActive
  BY DEF CalmInv, PagesWaited, PagesOnlyActive
<1> QED
  BY <1>1, <1>2, <1>3, PTL DEF Spec

\* A node whose device has no link is under its time limit, or its page is
\* being stopped because the limit has passed: no retry of a failed page, no
\* change of profiles and no other device's link leaves it without a timer.
\* For the same inputs: the timer of a node that waits for a busy controller
\* only cuts the wait short, and the node is paged again without one.
THEOREM EnginePagingIsTimed ==
  ASSUME Calm
  PROVE  Spec => []PagingIsTimed
<1>1. Init => EInv /\ CalmInv
  <2>1. Init => CalmInv
    BY DEF Init, CalmInv, NoDelay, PagesWaited, OverTime, NoNode
  <2> QED
    BY <2>1, InitEInv
<1>2. EInv /\ CalmInv /\ [Next]_vars => EInv' /\ CalmInv'
  BY NextEInv, NextCalm
<1>3. EInv /\ CalmInv => PagingIsTimed
  <2>1. EInv => timer \in Nat
    BY DEF EInv, EngOK
  <2> QED
    BY <2>1 DEF CalmInv, OverTime, PagingIsTimed
<1> QED
  BY <1>1, <1>2, <1>3, PTL DEF Spec

\* Something under way calls the engine back.  For devices that were not last
\* used over LE audio, and where every device has room in the link table or
\* only the engine's own pages bring links up: an untracked link outlives the
\* limit of its node.
THEOREM EngineNeverStalls ==
  ASSUME Lea = {}, Room \/ Calm
  PROVE  Spec => []NeverStalls
<1> DEFINE Inv == EInv /\ Waits /\ ((Room /\ Fits) \/ (Calm /\ CalmInv))
<1>1. Init => Inv
  <2>1. Init => CalmInv /\ Fits /\ Waits
    BY DEF Init, CalmInv, NoDelay, PagesWaited, OverTime, NoNode, Fits, Waits,
           StackWaits, Pending
  <2> QED
    BY <2>1, InitEInv
<1>2. Inv /\ [Next]_vars => Inv'
  <2> SUFFICES ASSUME Inv, [Next]_vars PROVE Inv'
    OBVIOUS
  <2>1. EInv' /\ Waits'
    BY NextEInv, NextWaits
  <2>2. CASE Room /\ Fits
    BY <2>1, <2>2, NextFits DEF Room
  <2>3. CASE Calm /\ CalmInv
    BY <2>1, <2>3, NextCalm DEF Calm
  <2> QED
    BY <2>2, <2>3
<1>3. Inv => NeverStalls
  <2> SUFFICES ASSUME Inv, mode = "linkback", ~running
               PROVE  /\ act.valid /\ ~act.exit
                      /\ \/ timer > 0 \/ delay
                         \/ page[act.addr] # "no" \/ link[act.addr] = "closing"
                         \/ /\ link[act.addr] = "up" /\ act.addr \in tracked
                            /\ \/ sdp[act.addr] # {}
                               \/ act.sdpOk /\ act.doing \in pconn[act.addr]
    BY DEF NeverStalls
  <2>1. act.valid /\ ~act.exit /\ act.addr \in Addr /\ timer \in Nat
    BY NodeFacts DEF Waits, Pending, EInv, EngOK
  <2>2. link[act.addr] \in {"down", "up", "closing"}
    BY <2>1 DEF EInv, RestOK
  <2>3. CASE link[act.addr] = "down"
    BY <2>1, <2>3 DEF Waits, Pending
  <2>4. CASE link[act.addr] = "up" /\ act.addr \in tracked
    BY <2>1, <2>4 DEF Waits, Pending
  <2>5. CASE link[act.addr] = "up" /\ act.addr \notin tracked
    BY <2>1, <2>5 DEF Fits, CalmInv, OverTime
  <2> QED
    BY <2>1, <2>2, <2>3, <2>4, <2>5
<1> QED
  BY <1>1, <1>2, <1>3, PTL DEF Spec

-----------------------------------------------------------------------------
(* The timer and the clock of the active node.                              *)

\* The active node b is the node a with its limit.
SameLimit(b, a) == b.valid => a.valid /\ b.tmo = a.tmo

LEMMA NodeLimit ==
  ASSUME NEW a \in ActiveNode, NEW ps
  PROVE  /\ SameLimit(StepSuc(a), a) /\ SameLimit(StepFail(a), a)
         /\ SameLimit(ConnFailAdjust(a), a) /\ SameLimit(ProfsSub(a, ps), a)
         /\ SameLimit([a EXCEPT !.exit = TRUE], a)
         /\ SameLimit([a EXCEPT !.plan = {}], a)
         /\ SameLimit([a EXCEPT !.sdpOk = TRUE], a)
<1>1. \A rs : SameLimit(Reload(a, rs), a)
  BY DEF Reload, SameLimit, ActiveNode
<1>2. SameLimit(StepSuc(a), a) /\ SameLimit(ConnFailAdjust(a), a)
  BY <1>1 DEF StepSuc, ConnFailAdjust
<1>3. SameLimit(StepFail(a), a)
  <2>1. CASE a.retry < 2
    <3>1. StepFail(a) = [a EXCEPT !.retry = a.retry + 1, !.sdpOk = FALSE]
      BY <2>1 DEF StepFail
    <3> QED
      BY <3>1 DEF SameLimit, ActiveNode
  <2>2. CASE ~(a.retry < 2)
    BY <1>1, <2>2 DEF StepFail
  <2> QED
    BY <2>1, <2>2
<1>4. /\ SameLimit(ProfsSub(a, ps), a)
      /\ SameLimit([a EXCEPT !.exit = TRUE], a)
      /\ SameLimit([a EXCEPT !.plan = {}], a)
      /\ SameLimit([a EXCEPT !.sdpOk = TRUE], a)
  BY DEF ProfsSub, SameLimit, ActiveNode
<1> QED
  BY <1>2, <1>3, <1>4

\* More profiles give the node the standard limit, and a step keeps it.
LEMMA ProfsAddLimit ==
  ASSUME NEW a \in ActiveNode, NEW ps \in SUBSET Prof
  PROVE  /\ ProfsAdd(a, ps) \in ActiveNode
         /\ ProfsAdd(a, ps).tmo = LinkbackTimeout
         /\ StepSuc(ProfsAdd(a, ps)).tmo = LinkbackTimeout
<1> DEFINE b == ProfsAdd(a, ps)
<1>1. LinkbackTimeout \in Timeout
  BY TimeoutNat
<1>2. b \in ActiveNode /\ b.tmo = LinkbackTimeout
  BY <1>1 DEF ProfsAdd, ActiveNode
<1> HIDE DEF b
<1>3. b.remain \ {b.doing} \in SUBSET Prof
  BY <1>2 DEF ActiveNode
<1>4. StepSuc(b).valid
  BY <1>2, <1>3, ReloadType DEF StepSuc
<1>5. StepSuc(b).tmo = LinkbackTimeout
  BY <1>2, <1>4, NodeLimit DEF SameLimit
<1> QED
  BY <1>2, <1>5 DEF b

\* What a step does with the two: nothing, it ends the node or the timer, starts
\* the timer with the limit of the node, or both go on.
LimitShape ==
  \/ ~act'.valid
  \/ timer' = 0
  \/ SameLimit(act', act) /\ UNCHANGED <<timer, used>>
  \/ timer' = act'.tmo + 1
  \/ Tick

LEMMA SameLimits ==
  ASSUME UNCHANGED <<act, timer, used>>
  PROVE  LimitShape
BY DEF LimitShape, SameLimit

LEMMA RunLimit ==
  ASSUME EInv, Run
  PROVE  LimitShape
<1>1. CASE RunTake
  <2>1. timer' = act'.tmo + 1
    BY <1>1 DEF RunTake, Load
  <2> QED
    BY <2>1 DEF LimitShape
<1>2. CASE RunTakeEmptyPlan \/ RunFinish \/ RunDrop \/ RunDropFull
  <2>1. act' = NoNode
    BY <1>2 DEF RunTakeEmptyPlan, RunFinish, Finish, RunDrop, RunDropFull
  <2> QED
    BY <2>1, ActiveCases, ShapeFacts DEF LimitShape
<1>3. CASE RunWaitInd \/ RunSearch
  BY <1>3, SameLimits DEF RunWaitInd, RunSearch, nodeVars
<1>4. CASE RunAlreadyConnected \/ RunSearchRefused
  <2>1. /\ act.valid /\ act' \in {StepSuc(act), StepFail(act)}
        /\ UNCHANGED <<timer, used>>
    BY <1>4 DEF RunAlreadyConnected, RunSearchRefused, ToSearch, ToConnect
  <2> QED
    BY <2>1, ShapeFacts, NodeLimit DEF LimitShape
<1> QED
  BY <1>1, <1>2, <1>3, <1>4 DEF Run

\* More profiles for the active node.
LEMMA MoreProfsLimit ==
  ASSUME EInv, act.valid, NEW ps \in SUBSET Prof, MoreProfs(act, ps)
  PROVE  LimitShape
BY ShapeFacts, ProfsAddLimit DEF MoreProfs, LimitShape

LEMMA CommandLimit ==
  ASSUME EInv, Command
  PROVE  LimitShape
<1>1. CASE Startup \/ Restore \/ Stop
  <2>1. act' = NoNode
    BY <1>1 DEF Startup, Restore, LinkbackSched, Stop
  <2> QED
    BY <2>1, ActiveCases, ShapeFacts DEF LimitShape
<1>2. ASSUME NEW a \in Addr, NEW ps \in SUBSET Prof, Connect(a, ps)
      PROVE  LimitShape
  <2>1. \/ act.valid /\ MoreProfs(act, ps)
        \/ UNCHANGED <<act, timer, used>>
    BY <1>2 DEF Connect, Current
  <2> QED
    BY <2>1, MoreProfsLimit, SameLimits
<1>3. ASSUME NEW a \in Addr, NEW ps \in SUBSET Prof, Disconnect(a, ps)
      PROVE  LimitShape
  <2>1. /\ (act.valid /\ act' = ProfsSub(act, ps)) \/ act' = act
        /\ UNCHANGED <<timer, used>>
    BY <1>3 DEF Disconnect, Current
  <2> QED
    BY <2>1, ShapeFacts, NodeLimit, SameLimits DEF LimitShape
<1> QED
  BY <1>1, <1>2, <1>3 DEF Command

LEMMA TimersLimit ==
  ASSUME EInv, TimerFires
  PROVE  LimitShape
<1>1. CASE Tick
  BY <1>1 DEF LimitShape
<1>2. CASE LinkbackTimerFires
  BY <1>2 DEF LinkbackTimerFires, ConnTimeout, LimitShape
<1>3. CASE DelayTimerFires
  <2>1. /\ (act.valid /\ act' = ConnFailAdjust(act)) \/ act' = act
        /\ UNCHANGED <<timer, used>>
    BY <1>3 DEF DelayTimerFires
  <2> QED
    BY <2>1, ShapeFacts, NodeLimit, SameLimits DEF LimitShape
<1>4. ASSUME NEW a \in Addr, IndTimerFires(a)
      PROVE  LimitShape
  BY <1>4, SameLimits DEF IndTimerFires, engVars, nodeVars
<1>5. ASSUME NEW a \in Addr, LaterAvrcpFires(a)
      PROVE  LimitShape
  <2>1. {"AVRCP"} \in SUBSET Prof
    BY <1>5 DEF LaterAvrcpFires, EInv, RestOK
  <2>2. \/ act.valid /\ MoreProfs(act, {"AVRCP"})
        \/ UNCHANGED <<act, timer, used>>
    BY <1>5 DEF LaterAvrcpFires, Current
  <2> QED
    BY <2>1, <2>2, MoreProfsLimit, SameLimits
<1> QED
  BY <1>1, <1>2, <1>3, <1>4, <1>5 DEF TimerFires

LEMMA LinksLimit ==
  ASSUME EInv, NEW a \in Addr,
         \/ PageSuc(a) \/ PageFail(a) \/ PageFailExist(a) \/ PageFailBusy(a)
         \/ Incoming(a) \/ IncomingUp(a) \/ IncomingFails(a) \/ AuthSuc(a)
         \/ DisconnNormal(a) \/ DisconnLost(a)
  PROVE  LimitShape
<1>1. CASE PageSuc(a) \/ Incoming(a) \/ IncomingUp(a)
  BY <1>1, SameLimits
     DEF PageSuc, Incoming, IncomingUp, LinkUp, engVars, nodeVars
<1>2. CASE PageFailExist(a) \/ PageFailBusy(a)
  BY <1>2, SameLimits DEF PageFailExist, PageFailBusy, PageEnds, DelayRetry
<1>3. CASE PageFail(a) \/ IncomingFails(a)
  <2>1. \/ UNCHANGED <<act, timer, used>>
        \/ act' = NoNode
        \/ act.valid /\ act' = ConnFailAdjust(act) /\ UNCHANGED <<timer, used>>
    BY <1>3
       DEF PageFail, PageEnds, IncomingFails, ConnFailHandler, DelayRetry, Current
  <2> QED
    BY <2>1, ShapeFacts, ActiveCases, NodeLimit, SameLimits DEF LimitShape
<1>4. CASE AuthSuc(a)
  BY <1>4, SameLimits DEF AuthSuc, ConnTimeout, engVars, nodeVars, LimitShape
<1>5. CASE DisconnNormal(a) \/ DisconnLost(a)
  <2>1. /\ (act.valid /\ act' = [act EXCEPT !.exit = TRUE]) \/ act' = act
        /\ UNCHANGED <<timer, used>>
    BY <1>5 DEF DisconnNormal, DisconnLost, ExitNode, Current
  <2> QED
    BY <2>1, ShapeFacts, NodeLimit, SameLimits DEF LimitShape
<1> QED
  BY <1>1, <1>2, <1>3, <1>4, <1>5

LEMMA ProfilesLimit ==
  ASSUME EInv, NEW a \in Addr, NEW p \in Prof,
         \/ SdpAttr(a) \/ SdpCmpl(a, p) \/ ProfConnected(a, p)
         \/ ProfFail(a, p) \/ ProfFailSecurity(a, p)
         \/ ProfFailNoResource(a, p) \/ ProfDisconnected(a, p)
  PROVE  LimitShape
<1>1. CASE SdpAttr(a) \/ SdpCmpl(a, p) \/ ProfFail(a, p)
  <2>1. /\ \/ act' = act
           \/ act.valid /\ act' \in {[act EXCEPT !.sdpOk = TRUE],
                                     StepSuc(act), StepFail(act)}
        /\ UNCHANGED <<timer, used>>
    BY <1>1 DEF SdpAttr, SdpCmpl, ProfFail, Current
  <2> QED
    BY <2>1, ShapeFacts, NodeLimit, SameLimits DEF LimitShape
<1>2. CASE \/ ProfFailSecurity(a, p) \/ ProfFailNoResource(a, p)
           \/ ProfDisconnected(a, p)
  BY <1>2, SameLimits
     DEF ProfFailSecurity, ProfFailNoResource, DelayRetry, ProfDisconnected,
         engVars, nodeVars
<1>3. CASE ProfConnected(a, p)
  <2> DEFINE first == profs[a] = {}
             cur   == mode = "linkback" /\ Current(a)
             add   == ProfsAdd(act, {"DID"})
  <2>0. {"DID"} \in SUBSET Prof
    BY ProfAssumption
  <2>1. \/ UNCHANGED <<act, timer, used>>
        \/ act.valid /\ act' = StepSuc(act) /\ UNCHANGED <<timer, used>>
        \/ /\ act.valid /\ act' \in {add, StepSuc(add)}
           /\ timer' = LinkbackTimeout + 1
    BY <1>3 DEF ProfConnected, ProfSuc, Current
  <2>2. CASE /\ act.valid /\ act' \in {add, StepSuc(add)}
             /\ timer' = LinkbackTimeout + 1
    BY <2>0, <2>2, ShapeFacts, ProfsAddLimit DEF LimitShape
  <2> QED
    BY <2>1, <2>2, ShapeFacts, NodeLimit, SameLimits DEF LimitShape
<1> QED
  BY <1>1, <1>2, <1>3

LEMMA NextLimit ==
  ASSUME EInv, [Next]_vars
  PROVE  LimitShape
<1>1. CASE Run \/ Command \/ TimerFires
  BY <1>1, RunLimit, CommandLimit, TimersLimit
<1>2. ASSUME NEW a \in Addr, StackAnswer(a) \/ Incoming(a) \/ DisconnLost(a)
      PROVE  LimitShape
  <2>1. "DID" \in Prof
    BY ProfAssumption
  <2>2. CASE SdpAttr(a)
    BY <2>1, <2>2, ProfilesLimit
  <2>3. CASE ~SdpAttr(a)
    BY <1>2, <2>3, LinksLimit, ProfilesLimit DEF StackAnswer
  <2> QED
    BY <2>2, <2>3
<1>3. CASE UNCHANGED vars
  BY <1>3, SameLimits DEF vars, engVars, nodeVars
<1> QED
  BY <1>1, <1>2, <1>3 DEF Next

LEMMA NextLimitNotEarly ==
  ASSUME EInv, LimitNotEarly, [Next]_vars
  PROVE  LimitNotEarly'
<1>1. /\ used \in Nat /\ timer \in Nat /\ used' \in Nat
      /\ act'.valid => act'.tmo \in Nat
      /\ act.valid => act.tmo \in Timeout
  <2>1. EInv'
    BY NextEInv
  <2>2. act' \in Active /\ used' \in Nat
    BY <2>1 DEF EInv, EngOK
  <2>3. act'.valid => act'.tmo \in Timeout
    BY <2>2, ActiveCases DEF ActiveNode
  <2> QED
    BY <2>2, <2>3, NodeFacts, TimeoutNat DEF EInv, EngOK
<1>2. CASE Tick
  <2>1. /\ act.valid /\ act.tmo \in Nat /\ act' = act /\ timer # 1
        /\ used' = IF used \in Timeout THEN used + 1 ELSE used
        /\ timer' = IF timer > 1 THEN timer - 1 ELSE timer
    BY <1>1, <1>2, TimeoutNat DEF Tick
  <2>2. CASE used \in Timeout
    BY <1>1, <2>1, <2>2 DEF LimitNotEarly
  <2>3. CASE used \notin Timeout
    <3>1. 0 .. act.tmo \subseteq Timeout
      BY <1>1, <2>1, EngineAssumption
    <3>2. act.tmo < used
      BY <1>1, <2>1, <2>3, <3>1
    <3> QED
      BY <1>1, <2>1, <2>3, <3>2 DEF LimitNotEarly
  <2> QED
    BY <2>2, <2>3
<1>3. CASE SameLimit(act', act) /\ UNCHANGED <<timer, used>>
  BY <1>3 DEF SameLimit, LimitNotEarly
<1>4. CASE timer' = act'.tmo + 1
  BY <1>1, <1>4 DEF LimitNotEarly
<1>5. CASE ~act'.valid \/ timer' = 0
  BY <1>5 DEF LimitNotEarly
<1> QED
  BY <1>2, <1>3, <1>4, <1>5, NextLimit DEF LimitShape

\* No order of starts, restarts with more profiles, puts-back and ticks lets
\* the timer of a node fire while the node has time left by its own clock.
THEOREM EngineLimitNotEarly == Spec => []LimitNotEarly
<1>1. Init => LimitNotEarly
  BY DEF Init, LimitNotEarly
<1>2. EInv /\ LimitNotEarly /\ [Next]_vars => LimitNotEarly'
  BY NextLimitNotEarly
<1> QED
  BY <1>1, <1>2, SpecEInv, PTL DEF Spec

-----------------------------------------------------------------------------
(* Nobody is forgotten.                                                     *)

\* Each device queued in q is queued in r.
AllQueued(r, q) == \A i \in DOMAIN q : Queued(r, q[i].addr)

LEMMA AllQueuedSame ==
  ASSUME NEW q PROVE AllQueued(q, q)
BY DEF AllQueued, Queued

\* An insertion keeps every device.
LEMMA InsertAllQueued ==
  ASSUME NEW q, GoodTodo(q), NEW n \in Node,
         NEW r, r \in {InsertNormal(q, n), InsertForce(q, n)}
  PROVE  AllQueued(r, q)
<1>1. q \in Seq(Node) /\ Len(q) \in Nat /\ DOMAIN q = 1 .. Len(q)
      /\ \A i \in DOMAIN q : q[i] \in Node
  BY LenProperties DEF GoodTodo, IsTodo
<1>2. r \in {q, Merge(q, n), Append(q, n), <<n>> \o q}
  BY DEF InsertNormal, InsertForce, Insert
<1>3. CASE r = q
  BY <1>3, AllQueuedSame
<1>4. CASE r = Merge(q, n)
  <2>1. DOMAIN r = DOMAIN q
    BY <1>4 DEF Merge
  <2>2. \A i \in DOMAIN q : r[i].addr = q[i].addr
    BY <1>1, <1>4 DEF Merge, Node
  <2> QED
    BY <2>1, <2>2 DEF AllQueued, Queued
<1>5. CASE r = Append(q, n)
  <2>1. /\ r \in Seq(Node) /\ Len(r) = Len(q) + 1
        /\ \A k \in 1 .. Len(q) : r[k] = q[k]
    BY <1>1, <1>5, AppendProperties
  <2>2. DOMAIN r = 1 .. Len(q) + 1
    BY <2>1, LenProperties
  <2> QED
    BY <1>1, <2>1, <2>2 DEF AllQueued, Queued
<1>6. CASE r = <<n>> \o q
  <2>1. <<n>> \in Seq(Node) /\ Len(<<n>>) = 1
    OBVIOUS
  <2>2. /\ r \in Seq(Node) /\ Len(r) = 1 + Len(q)
        /\ \A k \in 1 .. 1 + Len(q) :
             r[k] = IF k <= 1 THEN <<n>>[k] ELSE q[k - 1]
    BY <1>1, <1>6, <2>1, ConcatProperties
  <2>3. DOMAIN r = 1 .. 1 + Len(q)
    BY <2>2, LenProperties
  <2>4. \A i \in DOMAIN q : i + 1 \in DOMAIN r /\ r[i + 1] = q[i]
    BY <1>1, <2>2, <2>3
  <2> QED
    BY <2>4 DEF AllQueued, Queued
<1> QED
  BY <1>2, <1>3, <1>4, <1>5, <1>6

\* So do a removal of profiles and a new budget.
LEMMA MapAllQueued ==
  ASSUME NEW q, GoodTodo(q), NEW a, NEW ps, NEW t
  PROVE  AllQueued(RemovePlan(q, a, ps), q) /\ AllQueued(SetGroupTimeout(q, t), q)
<1>1. \A i \in DOMAIN q : q[i] \in Node
  BY DEF GoodTodo, IsTodo
<1>2. AllQueued(RemovePlan(q, a, ps), q)
  BY <1>1 DEF RemovePlan, AllQueued, Queued, Node
<1>3. AllQueued(SetGroupTimeout(q, t), q)
  BY <1>1 DEF SetGroupTimeout, AllQueued, Queued, Node
<1> QED
  BY <1>2, <1>3

\* The end of a group keeps who is not in it.
LEMMA WithoutGroupQueued ==
  ASSUME NEW q, GoodTodo(q), NEW i \in DOMAIN q, ~q[i].group
  PROVE  Queued(WithoutGroup(q), q[i].addr)
<1> DEFINE S == Survivors(q)
           B == {k \in S : k <= i}
<1>1. q \in Seq(Node) /\ Len(q) \in Nat /\ DOMAIN q = 1 .. Len(q)
  BY LenProperties DEF GoodTodo, IsTodo
<1>2. S \in SUBSET (1 .. Len(q)) /\ i \in S /\ i \in Nat
  BY <1>1 DEF Survivors
<1>3. /\ IsFiniteSet(S) /\ Cardinality(S) \in Nat
      /\ \A k, m \in S : Rank(S, k) = Rank(S, m) => k = m
  <2> HIDE DEF S
  <2> QED
    BY <1>1, <1>2, RankOnto
<1>4. B \subseteq S /\ i \in B
  BY <1>2
<1>5. /\ IsFiniteSet(B) /\ Cardinality(B) \in Nat
      /\ Cardinality(B) <= Cardinality(S) /\ Cardinality(B) # 0
  <2>1. IsFiniteSet(B) /\ Cardinality(B) <= Cardinality(S)
    BY <1>3, <1>4, FS_Subset
  <2>2. Cardinality(B) \in Nat
    BY <2>1, FS_CardinalityType
  <2>3. Cardinality(B) # 0
    BY <1>4, <2>1, FS_EmptySet
  <2> QED
    BY <2>1, <2>2, <2>3
<1> DEFINE j == Cardinality(B)
<1>6. j = Rank(S, i) /\ j \in 1 .. Cardinality(S)
  BY <1>3, <1>5 DEF Rank
<1>7. j \in DOMAIN WithoutGroup(q)
  BY <1>6, WithoutGroupNodes
<1>8. PICK k \in S : WithoutGroup(q)[j] = q[k] /\ Rank(S, k) = j
  BY <1>7, WithoutGroupNodes
<1>9. k = i
  BY <1>2, <1>3, <1>6, <1>8
<1> QED
  BY <1>7, <1>8, <1>9 DEF Queued

\* A node that is put back, or whose time is used up, disturbs no other; when
\* its time is used up and it is of the group, the group ends.
LEMMA UseLeftTimeQueued ==
  ASSUME EInv, act.valid, NEW isNormal \in BOOLEAN, NEW i \in DOMAIN todo
  PROVE  \/ Queued(UseLeftTime(isNormal), todo[i].addr)
         \/ todo[i].group /\ act.group /\ used >= act.tmo
<1> DEFINE left == act.tmo - used
           q == IF act.group THEN SetGroupTimeout(todo, left) ELSE todo
           n == ANode(act.addr, act.plan, left, ~isNormal, act.group)
<1>0. GoodTodo(todo) /\ act.tmo \in Timeout /\ act.tmo \in Nat /\ used \in Nat
  BY ShapeFacts, NodeFacts, TimeoutNat DEF EInv, EngOK
<1>1. CASE used < act.tmo
  <2>1. left \in Timeout
    <3>1. left \in 0 .. act.tmo
      BY <1>0, <1>1
    <3> QED
      BY <1>0, <3>1, EngineAssumption
  <2>2. UseLeftTime(isNormal) \in {InsertNormal(q, n), InsertForce(q, n)}
    BY <1>1 DEF UseLeftTime
  <2> HIDE DEF left
  <2>3. GoodTodo(q) /\ AllQueued(q, todo)
    BY <1>0, <2>1, SetGroupTimeoutGood, MapAllQueued, AllQueuedSame
  <2>4. n \in Node
    BY <2>1, NodeFacts, ANodeType DEF EInv
  <2> HIDE DEF n, q
  <2>5. AllQueued(UseLeftTime(isNormal), q)
    BY <2>2, <2>3, <2>4, InsertAllQueued
  <2>6. PICK k \in DOMAIN q : q[k].addr = todo[i].addr
    BY <2>3 DEF AllQueued, Queued
  <2> QED
    BY <2>5, <2>6 DEF AllQueued
<1>2. CASE ~(used < act.tmo)
  <2>1. /\ UseLeftTime(isNormal) = IF act.group THEN WithoutGroup(todo) ELSE todo
        /\ used >= act.tmo
    BY <1>0, <1>2 DEF UseLeftTime
  <2>2. CASE act.group
    <3>1. todo[i].group \/ ~todo[i].group
      OBVIOUS
    <3> QED
      BY <1>0, <2>1, <2>2, <3>1, WithoutGroupQueued
  <2>3. CASE ~act.group
    BY <2>1, <2>3 DEF Queued
  <2> QED
    BY <2>2, <2>3
<1> QED
  BY <1>1, <1>2

\* What NobodyForgotten says of one step.
Remembered(i) ==
  \/ Queued(todo', todo[i].addr)
  \/ act'.valid /\ act'.addr = todo[i].addr
  \/ /\ todo[i].group /\ act.valid /\ act.group
     /\ used >= act.tmo \/ (Full /\ auth' # auth)

\* What a step of a session does with the queue: it keeps every device, takes
\* the first one, ends the group of a node whose time is over, or is the last.
LeaveShape ==
  \/ AllQueued(todo', todo)
  \/ todo # <<>> /\ todo' = Tail(todo) /\ act' = Load(Head(todo))
  \/ act.valid /\ \E isNormal \in BOOLEAN : todo' = UseLeftTime(isNormal)
  \/ /\ act.valid /\ act.group /\ todo' = WithoutGroup(todo)
     /\ timer = 1 \/ (Full /\ auth' # auth)
  \/ mode # "linkback" \/ mode' = "stable"

LEMMA RunLeaves ==
  ASSUME EInv, Run
  PROVE  LeaveShape
<1>1. CASE RunTake
  BY <1>1 DEF RunTake, LeaveShape
<1>2. CASE RunTakeEmptyPlan \/ RunFinish
  BY <1>2 DEF RunTakeEmptyPlan, RunFinish, Finish, LeaveShape
<1>3. CASE \/ RunDrop \/ RunWaitInd \/ RunAlreadyConnected \/ RunDropFull
           \/ RunSearch \/ RunSearchRefused
  <2>1. todo' = todo
    BY <1>3 DEF RunDrop, RunWaitInd, RunAlreadyConnected, RunDropFull,
                RunSearch, RunSearchRefused, nodeVars
  <2> QED
    BY <2>1, AllQueuedSame DEF LeaveShape
<1> QED
  BY <1>1, <1>2, <1>3 DEF Run

LEMMA CommandLeaves ==
  ASSUME EInv, Command
  PROVE  LeaveShape
<1>1. CASE Startup \/ Restore
  BY <1>1 DEF Startup, Restore, LeaveShape
<1>2. CASE Stop
  <2>1. (act.valid /\ todo' = UseLeftTime(FALSE)) \/ todo' = todo
    BY <1>2 DEF Stop
  <2> QED
    BY <2>1, AllQueuedSame DEF LeaveShape
<1>3. ASSUME NEW a \in Addr, NEW ps \in SUBSET Prof, Connect(a, ps)
      PROVE  LeaveShape
  <2>1. todo' \in {todo, InsertForce(todo, ForceNode(a, ps))}
    BY <1>3 DEF Connect, MoreProfs
  <2> QED
    BY <2>1, ShapeFacts, AllQueuedSame, ForceNodeType, InsertAllQueued
       DEF LeaveShape
<1>4. ASSUME NEW a \in Addr, NEW ps \in SUBSET Prof, Disconnect(a, ps)
      PROVE  LeaveShape
  <2>1. todo' = RemovePlan(todo, a, ps)
    BY <1>4 DEF Disconnect
  <2> QED
    BY <2>1, ShapeFacts, MapAllQueued DEF LeaveShape
<1> QED
  BY <1>1, <1>2, <1>3, <1>4 DEF Command

LEMMA TimersLeave ==
  ASSUME EInv, TimerFires
  PROVE  LeaveShape
<1>1. CASE LinkbackTimerFires
  <2>1. \/ /\ act.valid /\ act.group /\ todo' = WithoutGroup(todo)
           /\ timer = 1
        \/ todo' = todo
    BY <1>1 DEF LinkbackTimerFires, ConnTimeout
  <2> QED
    BY <2>1, AllQueuedSame DEF LeaveShape
<1>2. CASE Tick \/ DelayTimerFires
  <2>1. todo' = todo
    BY <1>2 DEF Tick, DelayTimerFires
  <2> QED
    BY <2>1, AllQueuedSame DEF LeaveShape
<1>3. ASSUME NEW a \in Addr, IndTimerFires(a)
      PROVE  LeaveShape
  BY <1>3, AllQueuedSame DEF IndTimerFires, engVars, nodeVars, LeaveShape
<1>4. ASSUME NEW a \in Addr, LaterAvrcpFires(a)
      PROVE  LeaveShape
  <2>1. {"AVRCP"} \in SUBSET Prof
    BY <1>4 DEF LaterAvrcpFires, EInv, RestOK
  <2>2. todo' \in {todo, InsertForce(todo, ForceNode(a, {"AVRCP"}))}
    BY <1>4 DEF LaterAvrcpFires, MoreProfs
  <2> QED
    BY <2>1, <2>2, ShapeFacts, AllQueuedSame, ForceNodeType, InsertAllQueued
       DEF LeaveShape
<1> QED
  BY <1>1, <1>2, <1>3, <1>4 DEF TimerFires

LEMMA AnswersLeave ==
  ASSUME EInv, NEW a \in Addr, StackAnswer(a) \/ Incoming(a) \/ DisconnLost(a)
  PROVE  LeaveShape
<1>1. CASE \/ PageSuc(a) \/ PageFailExist(a) \/ PageFailBusy(a)
           \/ Incoming(a) \/ IncomingUp(a)
           \/ DisconnNormal(a) \/ SdpAttr(a)
  <2>1. todo' = todo
    BY <1>1 DEF PageSuc, PageFailExist, PageFailBusy, DelayRetry, Incoming,
                IncomingUp, LinkUp, DisconnNormal, SdpAttr,
                engVars, nodeVars
  <2> QED
    BY <2>1, AllQueuedSame DEF LeaveShape
<1>2. CASE PageFail(a) \/ IncomingFails(a)
  <2>1. (act.valid /\ todo' = UseLeftTime(TRUE)) \/ todo' = todo
    BY <1>2 DEF PageFail, IncomingFails, ConnFailHandler, DelayRetry, Current
  <2> QED
    BY <2>1, AllQueuedSame DEF LeaveShape
<1>3. CASE AuthSuc(a)
  <2>1. \/ /\ act.valid /\ act.group /\ todo' = WithoutGroup(todo)
           /\ Full /\ auth' # auth
        \/ todo' = todo
    BY <1>3 DEF AuthSuc, ConnTimeout, engVars, nodeVars
  <2> QED
    BY <2>1, AllQueuedSame DEF LeaveShape
<1>4. CASE DisconnLost(a)
  <2>1. ANode(a, BondPlan[a], LossTimeout, FALSE, FALSE) \in Node
    BY EngineAssumption, LoneNode
  <2>2. \/ todo' = todo
        \/ todo' = InsertNormal(todo,
                     ANode(a, BondPlan[a], LossTimeout, FALSE, FALSE))
    BY <1>4 DEF DisconnLost
  <2> QED
    BY <2>1, <2>2, ShapeFacts, AllQueuedSame, InsertAllQueued DEF LeaveShape
<1>5. ASSUME NEW p \in Prof,
             \/ SdpCmpl(a, p) \/ ProfFail(a, p) \/ ProfFailSecurity(a, p)
             \/ ProfFailNoResource(a, p) \/ ProfDisconnected(a, p)
      PROVE  LeaveShape
  <2>1. todo' = todo
    BY <1>5 DEF SdpCmpl, ProfFail, ProfFailSecurity, ProfFailNoResource,
                DelayRetry, ProfDisconnected, engVars, nodeVars
  <2> QED
    BY <2>1, AllQueuedSame DEF LeaveShape
<1>6. ASSUME NEW p \in Prof, ProfConnected(a, p)
      PROVE  LeaveShape
  <2>1. {"DID"} \in SUBSET Prof
    BY ProfAssumption
  <2>2. todo' \in {todo, InsertForce(todo, ForceNode(a, {"DID"}))}
    BY <1>6 DEF ProfConnected, ProfSuc
  <2> QED
    BY <2>1, <2>2, ShapeFacts, AllQueuedSame, ForceNodeType, InsertAllQueued
       DEF LeaveShape
<1> QED
  BY <1>1, <1>2, <1>3, <1>4, <1>5, <1>6 DEF StackAnswer

LEMMA NextLeaves ==
  ASSUME EInv, [Next]_vars
  PROVE  LeaveShape
<1>1. CASE UNCHANGED vars
  BY <1>1, AllQueuedSame DEF vars, engVars, nodeVars, LeaveShape
<1> QED
  BY <1>1, RunLeaves, CommandLeaves, TimersLeave, AnswersLeave DEF Next

LEMMA StepRemembers ==
  ASSUME EInv, LimitNotEarly, [Next]_vars,
         mode = "linkback", mode' \in {"linkback", "stop"},
         NEW i \in DOMAIN todo
  PROVE  Remembered(i)
<1>0. GoodTodo(todo) /\ used \in Nat
  BY ShapeFacts DEF EInv, EngOK
<1>1. CASE AllQueued(todo', todo)
  BY <1>1 DEF AllQueued, Remembered
<1>2. CASE todo # <<>> /\ todo' = Tail(todo) /\ act' = Load(Head(todo))
  <2>1. /\ todo \in Seq(Node) /\ Len(todo) \in Nat \ {0}
        /\ DOMAIN todo = 1 .. Len(todo)
    BY <1>0, <1>2, LenProperties, EmptySeq DEF GoodTodo, IsTodo
  <2>2. /\ Head(todo) = todo[1] /\ Tail(todo) \in Seq(Node)
        /\ Len(Tail(todo)) = Len(todo) - 1
        /\ \A k \in 1 .. Len(Tail(todo)) : Tail(todo)[k] = todo[k + 1]
    BY <1>2, <2>1, HeadTailProperties
  <2>3. CASE i = 1
    BY <1>2, <2>2, <2>3 DEF Load, Remembered
  <2>4. CASE i # 1
    <3>1. DOMAIN Tail(todo) = 1 .. Len(todo) - 1
      BY <2>2, LenProperties
    <3>2. i - 1 \in DOMAIN Tail(todo) /\ Tail(todo)[i - 1] = todo[i]
      BY <2>1, <2>2, <2>4, <3>1
    <3> QED
      BY <1>2, <3>2 DEF Queued, Remembered
  <2> QED
    BY <2>3, <2>4
<1>3. CASE act.valid /\ \E isNormal \in BOOLEAN : todo' = UseLeftTime(isNormal)
  BY <1>3, UseLeftTimeQueued DEF Remembered
<1>4. CASE /\ act.valid /\ act.group /\ todo' = WithoutGroup(todo)
           /\ timer = 1 \/ (Full /\ auth' # auth)
  <2>1. CASE ~todo[i].group
    BY <1>0, <1>4, <2>1, WithoutGroupQueued DEF Remembered
  <2>2. CASE todo[i].group
    <3>1. act.tmo \in Nat
      BY <1>4, NodeFacts, TimeoutNat DEF EInv
    <3>2. timer = 1 => used >= act.tmo
      BY <1>0, <1>4, <3>1 DEF LimitNotEarly
    <3> QED
      BY <1>4, <2>2, <3>2 DEF Remembered
  <2> QED
    BY <2>1, <2>2
<1> QED
  BY <1>1, <1>2, <1>3, <1>4, NextLeaves DEF LeaveShape

\* A device leaves the queue of a session only for its turn, or with its group
\* when the time of the active member is used up or another phone took the last
\* link: no merge, put-back, loss, command or end of a group drops another one.
THEOREM EngineNobodyForgotten == Spec => NobodyForgotten
<1>1. ASSUME EInv, LimitNotEarly, [Next]_vars
      PROVE  [mode = "linkback" /\ mode' \in {"linkback", "stop"} =>
       \A i \in DOMAIN todo :
         \/ Queued(todo', todo[i].addr)
         \/ act'.valid /\ act'.addr = todo[i].addr
         \/ /\ todo[i].group /\ act.valid /\ act.group
            /\ used >= act.tmo \/ (Full /\ auth' # auth)]_vars
  BY <1>1, StepRemembers DEF Remembered
<1>2. Init => LimitNotEarly
  BY DEF Init, LimitNotEarly
<1>3. EInv /\ LimitNotEarly /\ [Next]_vars => LimitNotEarly'
  BY NextLimitNotEarly
<1> QED
  BY <1>1, <1>2, <1>3, SpecEInv, PTL DEF Spec, NobodyForgotten

-----------------------------------------------------------------------------
(* Each turn of the run comes closer to its end.                            *)

\* A set of profiles is finite.
LEMMA ProfsFinite ==
  ASSUME NEW ps \in SUBSET Prof
  PROVE  IsFiniteSet(ps) /\ Cardinality(ps) \in Nat
<1> DEFINE All == {ProfOrder[i] : i \in DOMAIN ProfOrder}
<1>1. DOMAIN ProfOrder = 1 .. 9
  BY DEF ProfOrder
<1>2. IsFiniteSet(1 .. 9)
  BY FS_Interval, 1 \in Int, 9 \in Int
<1>3. [i \in 1 .. 9 |-> ProfOrder[i]] \in Surjection(1 .. 9, All)
  BY <1>1 DEF Surjection
<1>4. ps \subseteq All
  BY ProfAssumption
<1> HIDE DEF All
<1>5. IsFiniteSet(All)
  BY <1>2, <1>3, FS_Surjection
<1> QED
  BY <1>4, <1>5, FS_Subset, FS_CardinalityType

\* The steps restarted with fewer profiles, or with another current one, leave
\* less work.
LEMMA ReloadWork ==
  ASSUME NEW a \in ActiveNode, a.remain # {}, NEW rs \in SUBSET a.remain,
         a.doing \notin rs
  PROVE  Work(Reload(a, rs)) < Work(a)
<1> DEFINE b == Reload(a, rs)
           c == Cardinality(a.remain)
           d == Cardinality(rs)
<1>1. a.remain \in SUBSET Prof /\ rs \in SUBSET Prof /\ a.retry \in 0 .. 2
  BY DEF ActiveNode
<1>2. /\ IsFiniteSet(a.remain) /\ c \in Nat /\ d \in Nat /\ d <= c
      /\ c = d => a.remain = rs
  BY <1>1, ProfsFinite, FS_Subset
<1>3. b.remain = rs /\ b.doing = FirstProf(rs) /\ b.retry = 0
  BY DEF Reload, ActiveNode
<1>4. rs # {} => FirstProf(rs) \in rs
  BY <1>1, FirstProfType
<1> HIDE DEF b, c, d
<1>5. Work(b) = 6 * d + (IF b.doing \in rs THEN 0 ELSE 3) + 2
  BY <1>2, <1>3 DEF Work, d
<1>6. Work(a) = 6 * c + (IF a.doing \in a.remain THEN 0 ELSE 3) + (2 - a.retry)
  BY DEF Work, c
<1>7. CASE a.remain = rs
  <2>1. b.doing \in rs /\ a.doing \notin a.remain
    BY <1>3, <1>4, <1>7
  <2>2. c = d
    BY <1>7 DEF c, d
  <2> QED
    BY <1>1, <1>2, <1>5, <1>6, <2>1, <2>2 DEF b
<1>8. CASE a.remain # rs
  <2>1. d + 1 <= c
    BY <1>2, <1>8
  <2>2. Work(b) <= 6 * d + 5 /\ Work(b) \in Nat
    BY <1>2, <1>5
  <2>3. Work(a) >= 6 * c /\ Work(a) \in Nat
    BY <1>1, <1>2, <1>6
  <2> QED
    BY <1>2, <2>1, <2>2, <2>3 DEF b
<1> QED
  BY <1>7, <1>8

\* A step of the node leaves less work.
LEMMA StepWork ==
  ASSUME NEW a \in ActiveNode, a.remain # {}
  PROVE  Work(StepSuc(a)) < Work(a) /\ Work(StepFail(a)) < Work(a)
<1>1. Work(StepSuc(a)) < Work(a)
  BY ReloadWork DEF StepSuc
<1>2. CASE a.retry < 2
  <2>1. /\ a.remain \in SUBSET Prof /\ a.retry \in 0 .. 2
        /\ Cardinality(a.remain) \in Nat
    BY ProfsFinite DEF ActiveNode
  <2>2. StepFail(a) = [a EXCEPT !.retry = a.retry + 1, !.sdpOk = FALSE]
    BY <1>2 DEF StepFail
  <2>3. /\ StepFail(a).remain = a.remain /\ StepFail(a).doing = a.doing
        /\ StepFail(a).retry = a.retry + 1
    BY <2>2 DEF ActiveNode
  <2>4. Work(StepFail(a)) < Work(a)
    BY <2>1, <2>3 DEF Work
  <2> QED
    BY <1>1, <2>4
<1>3. CASE ~(a.retry < 2)
  <2> DEFINE gone == {a.doing} \cup
                     {r[2] : r \in {x \in ProfRelation : x[1] = a.doing}}
  <2>1. StepFail(a) = Reload(a, a.remain \ gone)
    BY <1>3 DEF StepFail
  <2>2. a.doing \in gone
    OBVIOUS
  <2> HIDE DEF gone
  <2>3. Work(StepFail(a)) < Work(a)
    BY <2>1, <2>2, ReloadWork
  <2> QED
    BY <1>1, <2>3
<1> QED
  BY <1>2, <1>3

\* What RunAdvances says of one turn.
Advances ==
  \/ Len(todo') < Len(todo)
  \/ /\ Len(todo') = Len(todo) /\ act.valid
     /\ act'.valid => Work(act') < Work(act)

LEMMA RunTurn ==
  ASSUME EInv, Run, running'
  PROVE  Advances
<1>1. CASE RunTake
  <2>1. todo \in Seq(Node) /\ todo # <<>> /\ todo' = Tail(todo)
    BY <1>1, ShapeFacts DEF RunTake, GoodTodo, IsTodo
  <2>2. Len(todo) \in Nat /\ Len(todo') = Len(todo) - 1
    BY <2>1, LenProperties, HeadTailProperties
  <2> QED
    BY <2>2 DEF Advances
<1>2. CASE RunDrop \/ RunDropFull
  <2>1. act.valid /\ ~act'.valid /\ todo' = todo
    BY <1>2, ActiveCases, ShapeFacts DEF RunDrop, RunDropFull, ToConnect
  <2> QED
    BY <2>1 DEF Advances
<1>3. CASE RunAlreadyConnected \/ RunSearchRefused
  <2>1. /\ act.valid /\ act.remain # {} /\ todo' = todo
        /\ act' \in {StepSuc(act), StepFail(act)}
    BY <1>3 DEF RunAlreadyConnected, RunSearchRefused, ToSearch, ToConnect
  <2> QED
    BY <2>1, ShapeFacts, StepWork DEF Advances
<1>4. CASE RunTakeEmptyPlan \/ RunFinish \/ RunWaitInd \/ RunSearch
  <2>1. running' = FALSE
    BY <1>4 DEF RunTakeEmptyPlan, RunFinish, Finish, RunWaitInd, RunSearch
  <2> QED
    BY <2>1
<1> QED
  BY <1>1, <1>2, <1>3, <1>4 DEF Run

\* While the run goes on no other message is handled.
LEMMA OnlyRuns ==
  ASSUME EInv, running, Next
  PROVE  Run
<1>1. ~Command
  BY DEF EInv, QuietOutsideSession, Command, Startup, Restore, Stop, Connect,
         Disconnect
<1>2. ~TimerFires
  BY DEF TimerFires, Tick, LinkbackTimerFires, DelayTimerFires, IndTimerFires,
         LaterAvrcpFires
<1>3. \A a \in Addr : ~Incoming(a) /\ ~DisconnLost(a)
  BY DEF Incoming, DisconnLost
<1>4. ASSUME NEW a \in Addr PROVE ~StackAnswer(a)
  <2>1. /\ ~PageSuc(a) /\ ~PageFail(a) /\ ~PageFailExist(a) /\ ~PageFailBusy(a)
        /\ ~IncomingUp(a) /\ ~IncomingFails(a) /\ ~AuthSuc(a)
    BY DEF PageSuc, PageFail, PageFailExist, PageFailBusy, IncomingUp,
           IncomingFails, AuthSuc
  <2>2. ~DisconnNormal(a) /\ ~SdpAttr(a)
    BY DEF DisconnNormal, SdpAttr
  <2>3. ASSUME NEW p \in Prof
        PROVE  /\ ~SdpCmpl(a, p) /\ ~ProfConnected(a, p) /\ ~ProfFail(a, p)
               /\ ~ProfFailSecurity(a, p) /\ ~ProfFailNoResource(a, p)
               /\ ~ProfDisconnected(a, p)
    BY DEF SdpCmpl, ProfConnected, ProfFail, ProfFailSecurity,
           ProfFailNoResource, ProfDisconnected
  <2> QED
    BY <2>1, <2>2, <2>3 DEF StackAnswer
<1> QED
  BY <1>1, <1>2, <1>3, <1>4 DEF Next

\* The RETRY loop ends: for any queue, node and profiles each of its turns
\* shortens the queue, drops the node or leaves less to do for it.
THEOREM EngineRunAdvances == Spec => RunAdvances
<1>1. ASSUME EInv, [Next]_vars
      PROVE  [running /\ running' =>
       \/ Len(todo') < Len(todo)
       \/ /\ Len(todo') = Len(todo) /\ act.valid
          /\ act'.valid => Work(act') < Work(act)]_vars
  BY <1>1, OnlyRuns, RunTurn DEF Advances
<1> QED
  BY <1>1, SpecEInv, PTL DEF Spec, RunAdvances

-----------------------------------------------------------------------------
(* Which profiles are wanted of a device, connected, and to be disconnected. *)
(* Under calm, and with neither a phone nor the user connecting, what the    *)
(* headset disconnects stays disconnected.                                   *)

\* The queue q plans the profile x of the device b.
Plans(q, b, x) == \E i \in DOMAIN q : q[i].addr = b /\ x \in q[i].plan

LEMMA InsertPlans ==
  ASSUME NEW q, GoodTodo(q), NEW n \in Node,
         NEW r, r \in {InsertNormal(q, n), InsertForce(q, n)},
         NEW b, NEW x, Plans(r, b, x)
  PROVE  Plans(q, b, x) \/ (b = n.addr /\ x \in n.plan)
<1>0. q \in Seq(Node) /\ Len(q) \in Nat /\ DOMAIN q = 1 .. Len(q)
      /\ \A i \in DOMAIN q : q[i] \in Node
  BY LenProperties DEF GoodTodo, IsTodo
<1>1. r \in {q, Merge(q, n), Append(q, n), <<n>> \o q}
  BY DEF InsertNormal, InsertForce, Insert
<1>2. PICK i \in DOMAIN r : r[i].addr = b /\ x \in r[i].plan
  BY DEF Plans
<1>3. CASE r = q
  BY <1>3
<1>4. CASE r = Merge(q, n)
  <2>1. i \in DOMAIN q
    BY <1>2, <1>4 DEF Merge
  <2>2. CASE n.group \/ q[i].addr # n.addr
    <3>1. r[i] = q[i]
      BY <1>4, <2>1, <2>2 DEF Merge
    <3> QED
      BY <1>2, <2>1, <3>1 DEF Plans
  <2>3. CASE ~n.group /\ q[i].addr = n.addr
    <3>1. r[i] = [q[i] EXCEPT !.plan  = q[i].plan \cup n.plan,
                              !.force = q[i].force \/ n.force,
                              !.tmo   = n.tmo,
                              !.group = FALSE]
      BY <1>4, <2>1, <2>3 DEF Merge
    <3>2. r[i].addr = n.addr /\ r[i].plan = q[i].plan \cup n.plan
      BY <1>0, <2>1, <2>3, <3>1 DEF Node
    <3> QED
      BY <1>2, <2>1, <2>3, <3>2 DEF Plans
  <2> QED
    BY <2>2, <2>3
<1>5. CASE r = Append(q, n)
  <2>1. /\ r \in Seq(Node) /\ Len(r) = Len(q) + 1 /\ r[Len(q) + 1] = n
        /\ \A k \in 1 .. Len(q) : r[k] = q[k]
    BY <1>0, <1>5, AppendProperties
  <2>2. DOMAIN r = 1 .. Len(q) + 1
    BY <2>1, LenProperties
  <2>3. r[i] = n \/ (i \in DOMAIN q /\ r[i] = q[i])
    BY <1>0, <1>2, <2>1, <2>2
  <2> QED
    BY <1>2, <2>3 DEF Plans
<1>6. CASE r = <<n>> \o q
  <2>1. <<n>> \in Seq(Node) /\ Len(<<n>>) = 1 /\ <<n>>[1] = n
    OBVIOUS
  <2>2. /\ r \in Seq(Node) /\ Len(r) = 1 + Len(q)
        /\ \A k \in 1 .. 1 + Len(q) :
             r[k] = IF k <= 1 THEN <<n>>[k] ELSE q[k - 1]
    BY <1>0, <1>6, <2>1, ConcatProperties
  <2>3. DOMAIN r = 1 .. 1 + Len(q)
    BY <2>2, LenProperties
  <2>4. r[i] = n \/ (i - 1 \in DOMAIN q /\ r[i] = q[i - 1])
    BY <1>0, <1>2, <2>1, <2>2, <2>3
  <2> QED
    BY <1>2, <2>4 DEF Plans
<1> QED
  BY <1>1, <1>3, <1>4, <1>5, <1>6

LEMMA LessPlans ==
  ASSUME NEW q, GoodTodo(q), NEW a, NEW ps, NEW t, NEW b, NEW x
  PROVE  /\ q # <<>> /\ Plans(Tail(q), b, x) => Plans(q, b, x)
         /\ Plans(WithoutGroup(q), b, x) => Plans(q, b, x)
         /\ Plans(SetGroupTimeout(q, t), b, x) => Plans(q, b, x)
         /\ Plans(RemovePlan(q, a, ps), b, x) =>
              Plans(q, b, x) /\ ~(b = a /\ x \in ps)
<1>0. q \in Seq(Node) /\ Len(q) \in Nat /\ DOMAIN q = 1 .. Len(q)
      /\ \A i \in DOMAIN q : q[i] \in Node
  BY LenProperties DEF GoodTodo, IsTodo
<1>1. ASSUME q # <<>> PROVE Plans(Tail(q), b, x) => Plans(q, b, x)
  <2>1. /\ Tail(q) \in Seq(Node) /\ Len(Tail(q)) = Len(q) - 1
        /\ \A i \in 1 .. Len(Tail(q)) : Tail(q)[i] = q[i + 1]
    BY <1>0, <1>1, HeadTailProperties
  <2>2. DOMAIN Tail(q) = 1 .. Len(q) - 1
    BY <2>1, LenProperties
  <2>3. \A i \in DOMAIN Tail(q) : i + 1 \in DOMAIN q /\ Tail(q)[i] = q[i + 1]
    BY <1>0, <2>1, <2>2
  <2> QED
    BY <2>3 DEF Plans
<1>2. Plans(WithoutGroup(q), b, x) => Plans(q, b, x)
  <2>1. Survivors(q) \subseteq DOMAIN q
    BY DEF Survivors
  <2> QED
    BY <2>1, WithoutGroupNodes DEF Plans
<1>3. Plans(SetGroupTimeout(q, t), b, x) => Plans(q, b, x)
  <2>1. \A i \in DOMAIN q : /\ SetGroupTimeout(q, t)[i].addr = q[i].addr
                            /\ SetGroupTimeout(q, t)[i].plan = q[i].plan
    BY <1>0 DEF SetGroupTimeout, Node
  <2>2. DOMAIN SetGroupTimeout(q, t) = DOMAIN q
    BY DEF SetGroupTimeout
  <2> QED
    BY <2>1, <2>2 DEF Plans
<1>4. Plans(RemovePlan(q, a, ps), b, x) =>
        Plans(q, b, x) /\ ~(b = a /\ x \in ps)
  <2> DEFINE r == RemovePlan(q, a, ps)
  <2>1. \A i \in DOMAIN q :
          /\ r[i].addr = q[i].addr
          /\ r[i].plan = IF q[i].addr = a THEN q[i].plan \ ps ELSE q[i].plan
    BY <1>0 DEF RemovePlan, Node
  <2>2. DOMAIN r = DOMAIN q
    BY DEF RemovePlan
  <2> HIDE DEF r
  <2>3. Plans(r, b, x) => Plans(q, b, x) /\ ~(b = a /\ x \in ps)
    BY <2>1, <2>2 DEF Plans
  <2> QED
    BY <2>3 DEF r
<1> QED
  BY <1>1, <1>2, <1>3, <1>4

LEMMA UseLeftTimePlans ==
  ASSUME EInv, act.valid, NEW isNormal \in BOOLEAN, NEW b, NEW x,
         Plans(UseLeftTime(isNormal), b, x)
  PROVE  Plans(todo, b, x) \/ b = act.addr
<1> DEFINE left == act.tmo - used
           q == IF act.group THEN SetGroupTimeout(todo, left) ELSE todo
           n == ANode(act.addr, act.plan, left, ~isNormal, act.group)
<1>0. GoodTodo(todo) /\ act.tmo \in Timeout /\ act.tmo \in Nat /\ used \in Nat
  BY ShapeFacts, NodeFacts, TimeoutNat DEF EInv, EngOK
<1>1. CASE used < act.tmo
  <2>1. left \in Timeout
    <3>1. left \in 0 .. act.tmo
      BY <1>0, <1>1
    <3> QED
      BY <1>0, <3>1, EngineAssumption
  <2>2. UseLeftTime(isNormal) \in {InsertNormal(q, n), InsertForce(q, n)}
    BY <1>1 DEF UseLeftTime
  <2> HIDE DEF left
  <2>3. GoodTodo(q) /\ (Plans(q, b, x) => Plans(todo, b, x))
    BY <1>0, <2>1, SetGroupTimeoutGood, LessPlans
  <2>4. n \in Node /\ n.addr = act.addr
    <3>1. n \in Node
      BY <2>1, NodeFacts, ANodeType DEF EInv
    <3>2. n.addr = act.addr
      BY DEF ANode
    <3> QED
      BY <3>1, <3>2
  <2> HIDE DEF n, q
  <2>5. Plans(q, b, x) \/ b = n.addr
    BY <2>2, <2>3, <2>4, InsertPlans
  <2> QED
    BY <2>3, <2>4, <2>5
<1>2. CASE ~(used < act.tmo)
  <2>1. UseLeftTime(isNormal) \in {WithoutGroup(todo), todo}
    BY <1>2 DEF UseLeftTime
  <2> QED
    BY <1>0, <2>1, LessPlans
<1> QED
  BY <1>1, <1>2

\* The node a is at, or still has, the profile x.
Wants(a, x) == x \in a.remain \/ x = a.doing

\* A success takes the current profile away; a failure adds none.
LEMMA StepWants ==
  ASSUME NEW a \in ActiveNode, NEW x \in Prof
  PROVE  /\ Wants(StepSuc(a), x) => x \in a.remain /\ x # a.doing
         /\ Wants(StepFail(a), x) => Wants(a, x)
         /\ ~StepSuc(a).sdpOk /\ ~StepFail(a).sdpOk
         /\ StepSuc(a).addr = a.addr /\ StepFail(a).addr = a.addr
         /\ StepSuc(a).valid /\ StepFail(a).valid
<1>0. NoProf \notin Prof
  <2>1. DOMAIN ProfOrder = 1 .. 9
    BY DEF ProfOrder
  <2> QED
    BY <2>1, ProfAssumption DEF ProfOrder, NoProf
<1>1. ASSUME NEW rs \in SUBSET a.remain
      PROVE  /\ Reload(a, rs).remain = rs /\ Reload(a, rs).sdpOk = FALSE
             /\ Reload(a, rs).addr = a.addr /\ Reload(a, rs).valid
             /\ Wants(Reload(a, rs), x) => x \in rs
  <2>1. rs \in SUBSET Prof
    BY DEF ActiveNode
  <2>2. FirstProf(rs) \in rs \/ FirstProf(rs) = NoProf
    BY <2>1, FirstProfType DEF FirstProf
  <2>3. /\ Reload(a, rs).remain = rs /\ Reload(a, rs).doing = FirstProf(rs)
        /\ Reload(a, rs).sdpOk = FALSE
        /\ Reload(a, rs).addr = a.addr /\ Reload(a, rs).valid
    BY DEF Reload, ActiveNode
  <2> QED
    BY <1>0, <2>2, <2>3 DEF Wants
<1>2. /\ Wants(StepSuc(a), x) => x \in a.remain /\ x # a.doing
      /\ ~StepSuc(a).sdpOk /\ StepSuc(a).addr = a.addr /\ StepSuc(a).valid
  BY <1>1 DEF StepSuc
<1>3. /\ Wants(StepFail(a), x) => Wants(a, x)
      /\ ~StepFail(a).sdpOk /\ StepFail(a).addr = a.addr /\ StepFail(a).valid
  <2>1. CASE a.retry < 2
    <3>1. StepFail(a) = [a EXCEPT !.retry = a.retry + 1, !.sdpOk = FALSE]
      BY <2>1 DEF StepFail
    <3> QED
      BY <3>1 DEF Wants, ActiveNode
  <2>2. CASE ~(a.retry < 2)
    BY <1>1, <2>2 DEF StepFail, Wants
  <2> QED
    BY <2>1, <2>2
<1> QED
  BY <1>2, <1>3

\* Calm, and neither a phone nor the user starts anything.
Alone == Calm /\ Inputs \cap {"phone", "connect", "stop"} = {}

\* AVRCP is being connected though it is not the turn of it.
LeftOver(b) ==
  "AVRCP" \in pconn[b] /\ ~(Current(b) /\ act.doing = "AVRCP")

\* What is planned for a device later is neither connected nor on its way, and
\* was not asked to go; while there is a link, no more than what was added.
QueueFits(b) ==
  \A x \in Prof : Plans(todo, b, x) =>
    /\ x \notin pconn[b] \cup profs[b] \cup closeAfter[b]
    /\ link[b] # "down" => x \in {"DID", "AVRCP"}
    /\ b \in later => x # "AVRCP"

\* What the active node wants of its device is not connected, is on its way only
\* if it is the current profile, and was not asked to go.
NodeFits(b) ==
  Current(b) =>
    /\ ~running => act.doing \notin profs[b]
    /\ \A x \in Prof : Wants(act, x) =>
         /\ x \in pconn[b] => ~running /\ x = act.doing /\ act.sdpOk
         /\ x \notin closeAfter[b]
         /\ b \in later \/ LeftOver(b) => x # "A2DP"

\* A device without an entry has nothing; what is on its way is not connected
\* yet and was not asked to go; what is left of that has been asked to go.
TableFits(b) ==
  /\ pconn[b] \cup profs[b] # {} \/ b \in later => b \in tracked
  /\ pconn[b] \cap profs[b] = {}
  /\ "DID" \notin pconn[b] \cup profs[b] \cup closeAfter[b]
  /\ \A x \in pconn[b] :
       x \in {"PBAP", "AVRCP"} \/ (Current(b) /\ act.doing = x)
  /\ b \in later => "AVRCP" \notin profs[b] \cup closeAfter[b] /\ ~LeftOver(b)
  /\ closeAfter[b] \cap pconn[b] = {}
  /\ closeAfter[b] \cap profs[b] \subseteq pdisc[b]
  /\ page[b] # "no" => Current(b) /\ ~running

DeviceFits(b) == QueueFits(b) /\ NodeFits(b) /\ TableFits(b)

ModeFits ==
  /\ mode # "stop"
  /\ mode = "startup" => tracked = {} /\ \A a \in Addr : link[a] = "down"

AloneInv ==
  /\ EInv /\ CalmInv /\ CloseAwaitsProfile
  /\ ModeFits /\ \A b \in Addr : DeviceFits(b)

\* What follows for one device, mostly for one without a link.
LEMMA AloneFacts ==
  ASSUME AloneInv, NEW b \in Addr
  PROVE  /\ QueueFits(b) /\ NodeFits(b) /\ TableFits(b)
         /\ pconn[b] \subseteq Prof /\ profs[b] \subseteq Prof
         /\ closeAfter[b] \subseteq Prof /\ pdisc[b] \subseteq Prof
         /\ closeAfter[b] # {} => b \in tracked
         /\ b \in tracked => link[b] # "down"
         /\ link[b] = "down" => /\ b \notin tracked /\ b \notin later
                                /\ pconn[b] = {} /\ profs[b] = {}
                                /\ closeAfter[b] = {}
         /\ page[b] # "no" => link[b] = "down" /\ Current(b) /\ ~running
         /\ ~delay /\ ind = {} /\ inc = {}
         /\ running \in BOOLEAN
         /\ Current(b) => mode = "linkback" /\ act \in ActiveNode
<1>1. QueueFits(b) /\ NodeFits(b) /\ TableFits(b)
  BY DEF AloneInv, DeviceFits
<1>2. /\ pconn[b] \subseteq Prof /\ profs[b] \subseteq Prof
      /\ closeAfter[b] \subseteq Prof /\ pdisc[b] \subseteq Prof
  BY DEF AloneInv, EInv, RestOK
<1>3. b \in tracked => link[b] # "down"
  BY DEF AloneInv, CalmInv
<1>4. closeAfter[b] # {} => b \in tracked
  BY <1>1 DEF AloneInv, CloseAwaitsProfile, TableFits
<1>5. ~delay /\ ind = {} /\ inc = {} /\ (page[b] # "no" => link[b] = "down")
  BY DEF AloneInv, CalmInv, NoDelay, PagesWaited
<1>6. /\ running \in BOOLEAN
      /\ Current(b) => mode = "linkback" /\ act \in ActiveNode
  BY CalmFacts DEF AloneInv, Current
<1>7. page[b] # "no" => Current(b) /\ ~running
  BY <1>1 DEF TableFits
<1>8. link[b] = "down" => /\ b \notin tracked /\ b \notin later
                          /\ pconn[b] = {} /\ profs[b] = {}
                          /\ closeAfter[b] = {}
  BY <1>1, <1>3, <1>4 DEF TableFits
<1> QED
  BY <1>1, <1>2, <1>3, <1>4, <1>5, <1>6, <1>7, <1>8

LEMMA AloneTypes ==
  ASSUME AloneInv
  PROVE  /\ EInv /\ GoodTodo(todo)
         /\ profs \in [Addr -> SUBSET Prof] /\ closeAfter \in [Addr -> SUBSET Prof]
         /\ link \in [Addr -> {"down", "up", "closing"}]
         /\ page \in [Addr -> {"no", "yes", "cancel"}]
         /\ pconn \in [Addr -> SUBSET Prof] /\ pdisc \in [Addr -> SUBSET Prof]
         /\ running \in BOOLEAN
         /\ act.valid => /\ act \in ActiveNode /\ act.addr \in Addr
                         /\ mode = "linkback"
                         /\ ~running => act.doing \in Prof
BY CalmFacts, ShapeFacts, NodeFacts DEF AloneInv, EInv, RestOK

\* The step asks nothing of the device b and starts nothing on its link.
OnlyLess(b) ==
  /\ pconn'[b] \subseteq pconn[b] /\ profs'[b] \subseteq profs[b]
  /\ closeAfter'[b] \subseteq closeAfter[b]
  /\ closeAfter'[b] \cap profs'[b] \subseteq pdisc'[b]
  /\ link'[b] # "down" => link[b] # "down"
  /\ page'[b] # "no" => page[b] # "no"
  /\ b \in later' => b \in later
  /\ b \in tracked => b \in tracked'
  /\ \A x \in Prof : Plans(todo', b, x) => Plans(todo, b, x)
  /\ Current(b)' <=> Current(b)
  /\ Current(b) => /\ act'.remain = act.remain /\ act'.doing = act.doing
                   /\ act.sdpOk => act'.sdpOk
                   /\ running' = running

LEMMA LessFits ==
  ASSUME NEW b \in Addr, DeviceFits(b), OnlyLess(b)
  PROVE  DeviceFits(b)'
<1>1. QueueFits(b)'
  BY DEF DeviceFits, QueueFits, Plans, OnlyLess
<1>2. LeftOver(b)' => LeftOver(b)
  BY DEF LeftOver, OnlyLess
<1>3. NodeFits(b)'
  BY <1>2 DEF DeviceFits, NodeFits, OnlyLess, Wants
<1>4. TableFits(b)'
  BY <1>2 DEF DeviceFits, TableFits, OnlyLess
<1> QED
  BY <1>1, <1>3, <1>4 DEF DeviceFits

\* A device without a link, or whose link has just gone.
LEMMA EmptyFits ==
  ASSUME NEW b \in Addr, link'[b] = "down", page'[b] = "no",
         pconn'[b] = {}, profs'[b] = {}, closeAfter'[b] = {}, b \notin later'
  PROVE  DeviceFits(b)'
<1>1. QueueFits(b)'
  BY DEF QueueFits
<1>2. ~LeftOver(b)'
  BY DEF LeftOver
<1>3. NodeFits(b)'
  BY <1>2 DEF NodeFits
<1>4. TableFits(b)'
  BY <1>2 DEF TableFits
<1> QED
  BY <1>1, <1>3, <1>4 DEF DeviceFits

\* The device the engine waits for is not queued.
LEMMA WaitedNotPlanned ==
  ASSUME AloneInv, NEW b \in Addr, Current(b), ~running, NEW x
  PROVE  ~Plans(todo, b, x) /\ ~act.exit
<1>1. ~act.exit
  BY DEF AloneInv, CalmInv, OverTime, Current
<1>2. ~Queued(todo, b)
  BY <1>1 DEF AloneInv, EInv, NodeOK, Current
<1> QED
  BY <1>1, <1>2 DEF Plans, Queued

\* The turns of app_bt_policy_linkback_run.
LEMMA RunFits ==
  ASSUME AloneInv, Run
  PROVE  ModeFits' /\ \A b \in Addr : DeviceFits(b)'
<1>0. /\ running /\ mode = "linkback" /\ EInv /\ GoodTodo(todo)
      /\ mode' \in {"linkback", "stable"}
      /\ UNCHANGED <<tableVars, link, pconn, pdisc, inc>>
      /\ \A b \in Addr : page[b] = "no"
  <2>1. running /\ EInv
    BY AloneFacts DEF AloneInv, Run, RunTake, RunTakeEmptyPlan, RunFinish,
         RunDrop, RunWaitInd, RunAlreadyConnected, RunDropFull, RunSearch,
         ToSearch, RunSearchRefused, ToConnect
  <2>2. mode = "linkback" /\ GoodTodo(todo)
    BY <2>1, ShapeFacts DEF EInv, QuietOutsideSession
  <2>3. \A b \in Addr : page[b] = "no"
    BY <2>1, AloneFacts
  <2>4. /\ mode' \in {"linkback", "stable"}
        /\ UNCHANGED <<tableVars, link, pconn, pdisc, inc>>
    BY <2>2 DEF Run, RunTake, RunTakeEmptyPlan, RunFinish, Finish, RunDrop,
         RunWaitInd, RunAlreadyConnected, RunDropFull, RunSearch,
         RunSearchRefused, tableVars, stackVars
  <2> QED
    BY <2>1, <2>2, <2>3, <2>4
<1>1. ModeFits'
  BY <1>0 DEF ModeFits
<1>2. ASSUME NEW b \in Addr PROVE DeviceFits(b)'
  <2> USE <1>0
  <2>0. /\ QueueFits(b) /\ NodeFits(b) /\ TableFits(b)
        /\ (b \in later \/ pconn[b] # {} => link[b] # "down")
        /\ pconn[b] \subseteq Prof
        /\ (b \notin tracked => profs[b] = {})
        /\ (LeftOver(b) => b \in tracked)
    BY AloneFacts DEF TableFits, LeftOver
  \* Whatever is on its way is no business of the running node.
  <2>1. /\ \A x \in pconn[b] : x \in {"PBAP", "AVRCP"}
        /\ "AVRCP" \in pconn[b] => LeftOver(b)
        /\ Current(b) => \A x \in Prof : Wants(act, x) => x \notin pconn[b]
    BY <2>0 DEF NodeFits, TableFits, LeftOver, Wants
  <2>2. UNCHANGED <<tracked, profs, later, closeAfter>>
    BY DEF tableVars
  <2>3. LeftOver(b)' => LeftOver(b)
    BY <2>1 DEF LeftOver
  <2>4. ASSUME page'[b] = "no" \/ (Current(b)' /\ ~running')
        PROVE  TableFits(b)'
    BY <2>0, <2>1, <2>2, <2>3, <2>4 DEF TableFits
  <2>5. ASSUME todo' = todo \/ (todo # <<>> /\ todo' = Tail(todo))
        PROVE  QueueFits(b)'
    <3>1. \A x \in Prof : Plans(todo', b, x) => Plans(todo, b, x)
      BY <2>5, LessPlans
    <3> QED
      BY <2>0, <2>2, <3>1 DEF QueueFits, Plans
  <2>6. CASE RunTake
    <3> DEFINE n == Head(todo)
    <3>1. /\ todo # <<>> /\ n.plan # {} /\ todo' = Tail(todo) /\ act' = Load(n)
          /\ UNCHANGED page
      BY <2>6 DEF RunTake, stackVars
    <3>2. n \in Node /\ n = todo[1] /\ 1 \in DOMAIN todo
      <4>1. todo \in Seq(Node) /\ Len(todo) \in Nat \ {0}
            /\ DOMAIN todo = 1 .. Len(todo)
        BY <3>1, LenProperties, EmptySeq DEF GoodTodo, IsTodo
      <4> QED
        BY <3>1, <4>1, TailGood, HeadTailProperties
    <3>3. FirstProf(n.plan) \in n.plan
      BY <3>1, <3>2, FirstProfType DEF Node
    <3>4. \A x : Wants(act', x) => x \in n.plan
      BY <3>1, <3>3 DEF Wants, Load
    <3>5. Current(b)' => \A x \in Prof : Wants(act', x) => Plans(todo, b, x)
      BY <3>1, <3>2, <3>4 DEF Current, Plans, Load
    <3>6. act'.doing \in Prof /\ Wants(act', act'.doing)
      BY <3>1, <3>2, <3>3 DEF Load, Node, Wants
    <3>7. NodeFits(b)'
      <4>1. ASSUME Current(b)', NEW x \in Prof, Wants(act', x)
            PROVE  /\ x \notin pconn[b] \cup profs[b] \cup closeAfter[b]
                   /\ b \in later \/ LeftOver(b) => x # "A2DP"
        <5>1. Plans(todo, b, x)
          BY <3>5, <4>1
        <5>2. /\ x \notin pconn[b] \cup profs[b] \cup closeAfter[b]
              /\ link[b] # "down" => x \in {"DID", "AVRCP"}
          BY <2>0, <5>1 DEF QueueFits
        <5>3. LeftOver(b) => pconn[b] # {}
          BY DEF LeftOver
        <5> QED
          BY <2>0, <5>2, <5>3
      <4>2. UNCHANGED <<pconn, profs, closeAfter, later>>
        BY <2>2
      <4>3. ASSUME Current(b)', NEW x \in Prof, Wants(act', x)
            PROVE  /\ x \notin pconn'[b] \cup profs'[b] \cup closeAfter'[b]
                   /\ b \in later' \/ LeftOver(b)' => x # "A2DP"
        BY <2>3, <4>1, <4>2, <4>3
      <4> QED
        BY <3>6, <4>3 DEF NodeFits, Wants
    <3> QED
      BY <2>4, <2>5, <3>1, <3>7 DEF DeviceFits
  <2>7. CASE RunTakeEmptyPlan \/ RunFinish \/ RunDrop \/ RunDropFull
    <3>1. /\ act' = NoNode /\ UNCHANGED page
          /\ todo' = todo \/ (todo # <<>> /\ todo' = Tail(todo))
      BY <2>7 DEF RunTakeEmptyPlan, RunFinish, Finish, RunDrop, RunDropFull,
                  stackVars
    <3>2. ~Current(b)'
      BY <3>1, ActiveCases, ShapeFacts DEF Current
    <3>3. NodeFits(b)'
      BY <3>2 DEF NodeFits
    <3> QED
      BY <2>4, <2>5, <3>1, <3>3 DEF DeviceFits
  <2>8. CASE RunWaitInd
    BY <2>8, AloneFacts DEF RunWaitInd
  <2>9. CASE RunAlreadyConnected \/ RunSearchRefused
    <3>1. /\ act.valid /\ act' \in {StepSuc(act), StepFail(act)}
          /\ todo' = todo /\ running' = running /\ UNCHANGED page
      BY <2>9 DEF RunAlreadyConnected, RunSearchRefused, ToSearch, ToConnect,
                  stackVars
    <3>2. /\ act \in ActiveNode /\ act'.addr = act.addr
          /\ \A x \in Prof : Wants(act', x) => Wants(act, x)
      BY <3>1, ShapeFacts, StepWants, ProfAssumption DEF Wants
    <3>3. NodeFits(b)'
      <4>1. Current(b)' => Current(b)
        BY <3>1, <3>2 DEF Current
      <4> QED
        BY <2>0, <2>1, <2>2, <2>3, <3>1, <3>2, <4>1 DEF NodeFits
    <3> QED
      BY <2>4, <2>5, <3>1, <3>3 DEF DeviceFits
  <2>10. CASE RunSearch
    <3>1. /\ UNCHANGED <<act, todo>> /\ running' = FALSE
          /\ act.valid
          /\ act.doing \notin profs[act.addr] \/ act.addr \notin tracked
          /\ page' = [page EXCEPT ![act.addr] =
               IF @ = "no" /\ link[act.addr] = "down" THEN "yes" ELSE @]
      BY <2>10 DEF RunSearch, ToSearch, ToConnect, nodeVars
    <3>2. page'[b] = "no" \/ Current(b)'
      <4>1. page \in [Addr -> {"no", "yes", "cancel"}]
        BY CalmFacts
      <4> QED
        BY <3>1, <4>1 DEF Current
    <3>3. NodeFits(b)'
      BY <2>0, <2>1, <2>2, <2>3, <3>1 DEF NodeFits, Current, Wants
    <3> QED
      BY <2>4, <2>5, <3>1, <3>2, <3>3 DEF DeviceFits
  <2> QED
    BY <2>6, <2>7, <2>8, <2>9, <2>10 DEF Run
<1> QED
  BY <1>1, <1>2

\* No step stops the engine, and none but power on finds it starting up.
LEMMA NextModeFits ==
  ASSUME AloneInv, Alone, [Next]_vars
  PROVE  ModeFits'
<1>0. mode # "stop" /\ (mode = "startup" => /\ tracked = {} /\ later = {} /\ ind = {}
                                            /\ ~act.valid /\ timer = 0 /\ ~running
                                            /\ \A b \in Addr : /\ link[b] = "down"
                                                               /\ page[b] = "no")
  <2>1. mode # "stop" /\ (mode = "startup" => tracked = {} /\ \A b \in Addr : link[b] = "down")
    BY DEF AloneInv, ModeFits
  <2>2. mode = "startup" => ~act.valid /\ timer = 0 /\ ~running
    BY DEF AloneInv, EInv, QuietOutsideSession
  <2>3. later \subseteq Addr
    BY DEF AloneInv, EInv, RestOK
  <2>4. \A b \in Addr : b \in later => b \in tracked
    BY AloneFacts DEF TableFits
  <2>5. ind = {} /\ \A b \in Addr : page[b] # "no" => Current(b)
    BY AloneFacts DEF AloneInv, CalmInv, NoDelay
  <2> QED
    BY <2>1, <2>2, <2>3, <2>4, <2>5 DEF Current
<1>1. CASE Run \/ UNCHANGED vars
  <2>1. CASE UNCHANGED vars
    BY <2>1 DEF AloneInv, ModeFits, vars, engVars, tableVars, stackVars
  <2>2. CASE Run
    BY <2>2, RunFits
  <2> QED
    BY <1>1, <2>1, <2>2
<1>2. CASE Command
  <2>1. CASE Startup
    BY <2>1 DEF Startup, LinkbackSched, ModeFits
  <2>2. ~Restore /\ ~Stop /\ \A a, ps : ~Connect(a, ps)
    BY <1>0 DEF Restore, Stop, Connect, Disturb, Alone
  <2>3. ASSUME NEW a \in Addr, NEW ps, Disconnect(a, ps)
        PROVE  ModeFits'
    <3>1. /\ mode' = mode /\ tracked' = tracked
          /\ UNCHANGED link \/ AclDisconnect(a)
      BY <2>3 DEF Disconnect
    <3>2. ASSUME mode = "startup"
          PROVE  \A b \in Addr : link'[b] = "down"
      BY <1>0, <3>1, <3>2, AloneTypes DEF AclDisconnect
    <3> QED
      BY <1>0, <3>1, <3>2 DEF ModeFits
  <2> QED
    BY <1>2, <2>1, <2>2, <2>3 DEF Command
<1>3. CASE TimerFires
  <2>1. mode # "startup" /\ mode' = mode
    BY <1>0, <1>3 DEF TimerFires, Tick, LinkbackTimerFires, ConnTimeout,
         DelayTimerFires, IndTimerFires, LaterAvrcpFires, engVars,
         AloneInv, CalmInv, NoDelay
  <2> QED
    BY <1>0, <2>1 DEF ModeFits
<1>4. ASSUME NEW a \in Addr, StackAnswer(a) \/ Incoming(a) \/ DisconnLost(a)
      PROVE  ModeFits'
  <2>1. ~Incoming(a) /\ a \notin inc
    BY DEF Incoming, Disturb, Alone, Calm, AloneInv, CalmInv, NoDelay
  <2>2. link[a] # "down" \/ page[a] # "no"
    BY <1>4, <2>1
       DEF StackAnswer, PageSuc, PageFail, PageFailExist, PageFailBusy,
           IncomingUp, IncomingFails, AuthSuc, DisconnNormal, DisconnLost,
           SdpAttr, SdpCmpl, ProfConnected, ProfFail, ProfFailSecurity,
           ProfFailNoResource, ProfDisconnected
  <2>3. mode' \in {mode, "linkback"}
    BY <1>4, <2>1
       DEF StackAnswer, PageSuc, LinkUp, PageFail, PageFailExist, PageFailBusy,
           PageEnds,
           IncomingUp, IncomingFails, AuthSuc, ConnTimeout, DisconnNormal,
           DisconnLost, SdpAttr, SdpCmpl, ProfConnected, ProfSuc, ProfFail,
           ProfFailSecurity, ProfFailNoResource, ProfDisconnected, engVars
  <2> QED
    BY <1>0, <2>2, <2>3 DEF ModeFits
<1> QED
  BY <1>1, <1>2, <1>3, <1>4 DEF Next

\* Power on, and a command to disconnect.
LEMMA CommandFits ==
  ASSUME AloneInv, Alone, Command, NEW b \in Addr
  PROVE  DeviceFits(b)'
<1>1. CASE Startup
  <2>1. /\ act' = NoNode /\ UNCHANGED <<link, page, pconn, profs, closeAfter, later>>
        /\ link[b] = "down" /\ ~act.valid
    BY <1>1 DEF Startup, LinkbackSched, tableVars, stackVars, AloneInv, ModeFits,
         EInv, QuietOutsideSession
  <2>2. /\ pconn[b] = {} /\ profs[b] = {} /\ closeAfter[b] = {} /\ b \notin later
        /\ page[b] = "no"
    <3>1. page[b] \in {"no", "yes", "cancel"}
      BY AloneTypes
    <3> QED
      BY <2>1, <3>1, AloneFacts DEF Current
  <2> QED
    BY <2>1, <2>2, EmptyFits
<1>2. ~Restore /\ ~Stop /\ \A a, ps : ~Connect(a, ps)
  BY DEF Restore, Stop, Connect, Disturb, Alone, AloneInv, ModeFits
<1>3. ASSUME NEW a \in Addr, NEW ps \in SUBSET (Prof \ {"DID"}) \ {{}},
             Disconnect(a, ps)
      PROVE  DeviceFits(b)'
  <2>0. /\ ~running /\ todo' = RemovePlan(todo, a, ps)
        /\ act' = IF Current(a) THEN ProfsSub(act, ps) ELSE act
        /\ UNCHANGED <<mode, running, tracked, profs, pconn>>
        /\ \/ a \notin tracked /\ UNCHANGED <<later, closeAfter, pdisc, page, link>>
           \/ /\ a \in tracked
              /\ later' = IF "AVRCP" \in ps THEN later \ {a} ELSE later
              /\ closeAfter' = [closeAfter EXCEPT ![a] = ToClose(a, ps)]
              /\ pdisc' = [pdisc EXCEPT ![a] = @ \cup (ps \cap profs[a])]
              /\ AclDisconnect(a) \/ UNCHANGED <<page, link>>
    BY <1>3 DEF Disconnect
  <2>1. /\ Current(b)' <=> Current(b)
        /\ Current(b) =>
             /\ act'.doing = act.doing /\ act'.sdpOk = act.sdpOk
             /\ act'.remain \subseteq act.remain
             /\ a = b => act'.remain = act.remain \ ps
             /\ a # b => act'.remain = act.remain
    <3>1. CASE Current(a)
      <4>1. act \in ActiveNode /\ act' = ProfsSub(act, ps)
        BY <2>0, <3>1, AloneTypes DEF Current
      <4> QED
        BY <3>1, <4>1 DEF Current, ProfsSub, ActiveNode
    <3>2. CASE ~Current(a)
      BY <2>0, <3>2 DEF Current
    <3> QED
      BY <3>1, <3>2
  <2>2. \A x \in Prof : Plans(todo', b, x) => Plans(todo, b, x) /\ ~(b = a /\ x \in ps)
    BY <2>0, LessPlans, AloneTypes
  <2>3. /\ page'[b] # "no" => page[b] # "no"
        /\ link'[b] # "down" => link[b] # "down"
    BY <2>0, AloneTypes DEF AclDisconnect
  <2>4. CASE b # a
    <3>1. /\ closeAfter'[b] = closeAfter[b] /\ pdisc'[b] = pdisc[b]
          /\ b \in later' => b \in later
      BY <2>0, <2>4, AloneTypes
    <3>2. closeAfter[b] \cap profs[b] \subseteq pdisc[b] /\ DeviceFits(b)
      BY AloneFacts DEF TableFits, DeviceFits
    <3>3. OnlyLess(b)
      BY <2>0, <2>1, <2>2, <2>3, <2>4, <3>1, <3>2 DEF OnlyLess
    <3> QED
      BY <3>2, <3>3, LessFits
  <2>5. CASE b = a
    <3>0. QueueFits(b) /\ NodeFits(b) /\ TableFits(b)
      BY AloneFacts
    <3>1. /\ b \in later' => b \in later /\ (b \in tracked => "AVRCP" \notin ps)
          /\ closeAfter'[b] = closeAfter[b] \/ closeAfter'[b] \subseteq profs[b] \cap ps
          /\ closeAfter'[b] \cap profs[b] \subseteq pdisc'[b]
          /\ pconn'[b] = pconn[b] /\ profs'[b] = profs[b] /\ tracked' = tracked
          /\ b \in tracked => closeAfter'[b] \subseteq profs[b] \cap ps
      <4>1. CASE b \notin tracked
        BY <2>0, <2>5, <3>0, <4>1 DEF TableFits
      <4>2. CASE b \in tracked
        <5>1. ToClose(a, ps) \subseteq profs[a] \cap ps
          BY DEF ToClose
        <5>2. closeAfter'[b] = ToClose(a, ps) /\ pdisc'[b] = pdisc[b] \cup (ps \cap profs[b])
          BY <2>0, <2>5, <4>2, AloneTypes
        <5> QED
          BY <2>0, <2>5, <4>2, <5>1, <5>2
      <4> QED
        BY <4>1, <4>2
    <3>2. LeftOver(b)' <=> LeftOver(b)
      BY <2>1, <3>1 DEF LeftOver
    <3>3. b \in later => b \in tracked
      BY <3>0 DEF TableFits
    <3>4. QueueFits(b)'
      <4>1. ASSUME NEW x \in Prof, Plans(todo', b, x)
            PROVE  /\ x \notin pconn'[b] \cup profs'[b] \cup closeAfter'[b]
                   /\ link'[b] # "down" => x \in {"DID", "AVRCP"}
                   /\ b \in later' => x # "AVRCP"
        BY <2>2, <2>3, <2>5, <3>0, <3>1, <4>1 DEF QueueFits
      <4> QED
        BY <4>1 DEF QueueFits, Plans
    <3>5. NodeFits(b)'
      <4>1. ASSUME Current(b)', NEW x \in Prof, Wants(act', x)
            PROVE  /\ Wants(act, x)
                   /\ x \notin closeAfter'[b]
        <5>1. Wants(act, x) /\ (x \in ps => x = act.doing)
          BY <2>1, <2>5, <4>1 DEF Wants
        <5>2. x \notin closeAfter[b] /\ act.doing \notin profs[b]
          BY <2>0, <2>1, <3>0, <4>1, <5>1 DEF NodeFits
        <5> QED
          BY <3>1, <5>1, <5>2
      <4> QED
        BY <2>0, <2>1, <3>0, <3>1, <3>2, <4>1 DEF NodeFits, Wants
    <3>6. TableFits(b)'
      BY <2>0, <2>1, <2>3, <3>0, <3>1, <3>2, <3>3 DEF TableFits
    <3> QED
      BY <3>4, <3>5, <3>6 DEF DeviceFits
  <2> QED
    BY <2>4, <2>5
<1> QED
  BY <1>1, <1>2, <1>3 DEF Command

\* The end of a node's time.
LEMMA ConnTimeoutFits ==
  ASSUME AloneInv, mode = "linkback", ~running, ConnTimeout,
         UNCHANGED tableVars, NEW b \in Addr
  PROVE  DeviceFits(b)'
<1>0. ~delay /\ DeviceFits(b) /\ QueueFits(b) /\ NodeFits(b) /\ TableFits(b)
  BY AloneFacts DEF DeviceFits
<1>1. \A x \in Prof : Plans(todo', b, x) => Plans(todo, b, x)
  BY LessPlans, AloneTypes DEF ConnTimeout
<1>2. UNCHANGED <<tracked, profs, later, closeAfter, pconn, pdisc>>
  BY DEF ConnTimeout, tableVars
<1>3. /\ page'[b] # "no" => page[b] # "no"
      /\ link'[b] # "down" => link[b] # "down"
  <2>1. UNCHANGED <<page, link>> \/ \E a : AclDisconnect(a)
    BY DEF ConnTimeout
  <2> QED
    BY <2>1, AloneTypes DEF AclDisconnect
<1>4. CASE ~act.valid
  <2>1. ~Current(b) /\ ~Current(b)'
    BY <1>4 DEF ConnTimeout, Current
  <2> QED
    BY <1>0, <1>1, <1>2, <1>3, <2>1, LessFits DEF OnlyLess, TableFits
<1>5. CASE act.valid
  <2>1. running' = running /\ (act' = act \/ act' = [act EXCEPT !.plan = {}])
    BY <1>0, <1>5 DEF ConnTimeout
  <2>2. /\ act'.valid = act.valid /\ act'.addr = act.addr
        /\ act'.remain = act.remain /\ act'.doing = act.doing
        /\ act'.sdpOk = act.sdpOk
    BY <1>5, <2>1, AloneTypes DEF ActiveNode
  <2>3. OnlyLess(b)
    BY <1>0, <1>1, <1>2, <1>3, <2>1, <2>2 DEF OnlyLess, TableFits, Current
  <2> QED
    BY <1>0, <2>3, LessFits
<1> QED
  BY <1>4, <1>5

LEMMA TimersFit ==
  ASSUME AloneInv, Alone, TimerFires, NEW b \in Addr
  PROVE  DeviceFits(b)'
<1>0. /\ DeviceFits(b) /\ QueueFits(b) /\ NodeFits(b) /\ TableFits(b)
      /\ ~delay /\ ind = {}
  BY AloneFacts DEF DeviceFits
<1>1. CASE Tick
  <2>1. OnlyLess(b)
    BY <1>0, <1>1 DEF Tick, OnlyLess, TableFits, Current, tableVars, stackVars
  <2> QED
    BY <1>0, <2>1, LessFits
<1>2. CASE LinkbackTimerFires
  <2>1. mode = "linkback"
    BY <1>2 DEF LinkbackTimerFires, AloneInv, EInv, QuietOutsideSession
  <2> QED
    BY <1>2, <2>1, ConnTimeoutFits DEF LinkbackTimerFires
<1>3. ~DelayTimerFires /\ \A a : ~IndTimerFires(a)
  BY <1>0 DEF DelayTimerFires, IndTimerFires
<1>4. ASSUME NEW a \in Addr, LaterAvrcpFires(a)
      PROVE  DeviceFits(b)'
  <2>0. /\ ~running /\ a \in later /\ later' = later \ {a}
        /\ UNCHANGED <<mode, running, tracked, profs, closeAfter, link, page, pdisc>>
    BY <1>4 DEF LaterAvrcpFires
  <2>1. "AVRCP" \in Prof
    BY <2>0 DEF AloneInv, EInv, RestOK
  <2>2. CASE Current(a)
    <3>1. /\ act' = ProfsAdd(act, {"AVRCP"}) /\ UNCHANGED <<todo, pconn>>
          /\ act \in ActiveNode
      BY <1>4, <2>2, AloneTypes DEF LaterAvrcpFires, MoreProfs, Current
    <3>2. /\ act'.valid /\ act'.addr = act.addr /\ act'.doing = act.doing
          /\ act'.sdpOk = act.sdpOk /\ act'.remain = act.remain \cup {"AVRCP"}
      BY <3>1 DEF ProfsAdd, ActiveNode
    <3>3. Current(b)' <=> Current(b)
      BY <2>2, <3>2 DEF Current
    <3>4. CASE b # a
      <4>1. ~Current(b)
        BY <2>2, <3>4 DEF Current
      <4>2. OnlyLess(b)
        BY <1>0, <2>0, <3>1, <3>3, <4>1 DEF OnlyLess, TableFits
      <4> QED
        BY <1>0, <4>2, LessFits
    <3>5. CASE b = a
      <4>1. /\ "AVRCP" \notin profs[b] \cup closeAfter[b] /\ ~LeftOver(b)
            /\ b \notin later'
        BY <1>0, <2>0, <3>5 DEF TableFits
      <4>2. LeftOver(b)' <=> LeftOver(b)
        BY <3>1, <3>2, <3>3 DEF LeftOver
      <4>3. QueueFits(b)'
        BY <1>0, <2>0, <3>1, <4>1 DEF QueueFits, Plans
      <4>4. \A x \in Prof : Wants(act', x) =>
              Wants(act, x) \/ (x = "AVRCP" /\ x \notin pconn[b] \cup closeAfter[b])
        BY <3>2, <4>1 DEF Wants, LeftOver
      <4>5. NodeFits(b)'
        BY <1>0, <2>0, <3>1, <3>2, <3>3, <4>1, <4>2, <4>4 DEF NodeFits, Wants
      <4>6. TableFits(b)'
        BY <1>0, <2>0, <3>1, <3>2, <3>3, <4>1, <4>2 DEF TableFits
      <4> QED
        BY <4>3, <4>5, <4>6 DEF DeviceFits
    <3> QED
      BY <3>4, <3>5
  <2>3. CASE ~Current(a) /\ mode = "linkback"
    <3> DEFINE n == ForceNode(a, {"AVRCP"})
    <3>1. /\ todo' = InsertForce(todo, n) /\ UNCHANGED <<act, pconn>>
      BY <1>4, <2>3 DEF LaterAvrcpFires
    <3>2. n \in Node /\ n.addr = a /\ n.plan = {"AVRCP"}
      <4>1. n \in Node
        BY <2>1, TimeoutNat, ANodeType DEF ForceNode
      <4> QED
        BY <4>1 DEF ForceNode, ANode
    <3> HIDE DEF n
    <3>3. \A x \in Prof : Plans(todo', b, x) =>
            Plans(todo, b, x) \/ (b = a /\ x = "AVRCP")
      BY <3>1, <3>2, InsertPlans, AloneTypes
    <3>4. CASE b # a
      <4>1. OnlyLess(b)
        BY <1>0, <2>0, <3>1, <3>3, <3>4 DEF OnlyLess, TableFits, Current
      <4> QED
        BY <1>0, <4>1, LessFits
    <3>5. CASE b = a
      <4>1. /\ "AVRCP" \notin profs[b] \cup closeAfter[b] \cup pconn[b]
            /\ b \notin later'
        BY <1>0, <2>0, <2>3, <3>5 DEF TableFits, LeftOver
      <4>2. QueueFits(b)'
        BY <1>0, <2>0, <3>1, <3>3, <4>1 DEF QueueFits, Plans
      <4>3. NodeFits(b)' /\ TableFits(b)'
        BY <1>0, <2>0, <2>3, <3>1, <3>5, <4>1
           DEF TableFits, NodeFits, LeftOver, Current
      <4> QED
        BY <4>2, <4>3 DEF DeviceFits
    <3> QED
      BY <3>4, <3>5
  <2>4. CASE mode # "linkback"
    <3>1. /\ UNCHANGED <<todo, act>>
          /\ pconn' = IF mode = "stable" /\ a \in tracked
                         /\ "AVRCP" \notin profs[a]
                      THEN [pconn EXCEPT ![a] = @ \cup {"AVRCP"}] ELSE pconn
          /\ ~act.valid
      BY <1>4, <2>4, AloneTypes DEF LaterAvrcpFires
    <3>2. CASE b # a \/ UNCHANGED pconn
      <4>1. pconn'[b] = pconn[b]
        BY <3>1, <3>2, AloneTypes
      <4>2. OnlyLess(b)
        BY <1>0, <2>0, <3>1, <4>1 DEF OnlyLess, TableFits, Current
      <4> QED
        BY <1>0, <4>2, LessFits
    <3>3. CASE b = a /\ a \in tracked
               /\ pconn' = [pconn EXCEPT ![a] = @ \cup {"AVRCP"}]
      <4>1. /\ "AVRCP" \notin profs[b] \cup closeAfter[b] /\ b \notin later'
            /\ pconn'[b] = pconn[b] \cup {"AVRCP"}
        BY <1>0, <2>0, <3>3, AloneTypes DEF TableFits
      <4>2. QueueFits(b)'
        BY <1>0, <2>0, <3>1, <3>3, <4>1 DEF QueueFits, Plans
      <4>3. NodeFits(b)'
        BY <3>1 DEF NodeFits, Current
      <4>4. TableFits(b)'
        BY <1>0, <2>0, <3>1, <3>3, <4>1 DEF TableFits, Current
      <4> QED
        BY <4>2, <4>3, <4>4 DEF DeviceFits
    <3> QED
      BY <3>1, <3>2, <3>3
  <2> QED
    BY <2>2, <2>3, <2>4
<1> QED
  BY <1>1, <1>2, <1>3, <1>4 DEF TimerFires

\* Pages, and what becomes of them.
LEMMA PagesFit ==
  ASSUME AloneInv, Alone, NEW a \in Addr, NEW b \in Addr,
         \/ PageSuc(a) \/ PageFail(a) \/ PageFailExist(a) \/ PageFailBusy(a)
         \/ IncomingUp(a) \/ IncomingFails(a) \/ Incoming(a)
  PROVE  DeviceFits(b)'
<1>0. /\ DeviceFits(b) /\ QueueFits(b) /\ NodeFits(b) /\ TableFits(b)
      /\ inc = {} /\ (page[a] # "no" => link[a] = "down" /\ Current(a))
  BY AloneFacts DEF DeviceFits
<1>1. PageSuc(a) \/ PageFail(a)
  BY <1>0 DEF PageFailExist, PageFailBusy, IncomingUp, IncomingFails, Incoming,
              Disturb, Alone, Calm
<1>2. ~running /\ Current(a) /\ link[a] = "down" /\ mode = "linkback"
  BY <1>0, <1>1, AloneFacts DEF PageSuc, PageFail
<1>3. /\ a \notin tracked /\ a \notin later /\ pconn[a] = {} /\ profs[a] = {}
      /\ closeAfter[a] = {}
  BY <1>2, AloneFacts
<1>4. CASE PageSuc(a)
  <2>1. /\ UNCHANGED <<running, todo, act, profs, later, closeAfter, pconn, pdisc>>
        /\ page' = [page EXCEPT ![a] = "no"]
        /\ tracked \subseteq tracked'
        /\ b # a => link'[b] = link[b]
    BY <1>4, AloneTypes DEF PageSuc, LinkUp, engVars, nodeVars
  <2>2. page'[b] # "no" => page[b] # "no"
    BY <2>1, AloneTypes
  <2>3. CASE b # a
    <3>1. OnlyLess(b)
      BY <1>0, <2>1, <2>2, <2>3 DEF OnlyLess, TableFits, Current
    <3> QED
      BY <1>0, <3>1, LessFits
  <2>4. CASE b = a
    <3>1. \A x : ~Plans(todo, b, x)
      BY <1>2, <2>4, WaitedNotPlanned
    <3>2. QueueFits(b)'
      BY <2>1, <3>1 DEF QueueFits, Plans
    <3>3. NodeFits(b)' /\ TableFits(b)'
      BY <1>0, <2>1, <2>2 DEF NodeFits, TableFits, LeftOver, Current, Wants
    <3> QED
      BY <3>2, <3>3 DEF DeviceFits
  <2> QED
    BY <2>3, <2>4
<1>5. CASE PageFail(a)
  <2>1. /\ UNCHANGED <<tracked, profs, later, closeAfter, link, pconn, pdisc>>
        /\ page' = [page EXCEPT ![a] = "no"]
        /\ \/ todo' = todo /\ act' \in {NoNode, ConnFailAdjust(act)}
           \/ todo' = UseLeftTime(TRUE) /\ act' = NoNode
    BY <1>2, <1>5 DEF PageFail, PageEnds, ConnFailHandler, tableVars
  <2>2. CASE b # a
    <3>1. \A x \in Prof : Plans(todo', b, x) => Plans(todo, b, x)
      BY <1>2, <2>1, <2>2, UseLeftTimePlans DEF AloneInv, Current
    <3>2. ~Current(b) /\ ~Current(b)'
      <4>1. act \in ActiveNode /\ act.addr = a
        BY <1>2, AloneTypes DEF Current
      <4>2. ~NoNode.valid /\ ConnFailAdjust(act).addr = a
        BY <4>1 DEF NoNode, ConnFailAdjust, Reload, ActiveNode
      <4> QED
        BY <2>1, <2>2, <4>1, <4>2 DEF Current
    <3>3. page'[b] = page[b]
      BY <2>1, <2>2, AloneTypes
    <3>4. OnlyLess(b)
      BY <1>0, <2>1, <3>1, <3>2, <3>3 DEF OnlyLess, TableFits
    <3> QED
      BY <1>0, <3>4, LessFits
  <2>3. CASE b = a
    <3>1. page'[b] = "no"
      BY <2>1, <2>3, AloneTypes
    <3> QED
      BY <1>2, <1>3, <2>1, <2>3, <3>1, EmptyFits
  <2> QED
    BY <2>2, <2>3
<1> QED
  BY <1>1, <1>4, <1>5

\* Links that end, and links that are authenticated.
LEMMA LinksFit ==
  ASSUME AloneInv, Alone, NEW a \in Addr, NEW b \in Addr,
         AuthSuc(a) \/ DisconnNormal(a) \/ DisconnLost(a)
  PROVE  DeviceFits(b)'
<1>0. DeviceFits(b) /\ QueueFits(b) /\ NodeFits(b) /\ TableFits(b)
  BY AloneFacts DEF DeviceFits
<1>1. CASE AuthSuc(a)
  <2>1. CASE ConnTimeout /\ mode = "linkback"
    BY <1>1, <2>1, ConnTimeoutFits DEF AuthSuc
  <2>2. CASE UNCHANGED <<engVars, sdp, page, link, inc, pconn, pdisc>>
    <3>1. OnlyLess(b)
      BY <1>0, <1>1, <2>2
         DEF AuthSuc, OnlyLess, TableFits, Current, engVars, nodeVars, tableVars
    <3> QED
      BY <1>0, <3>1, LessFits
  <2> QED
    BY <1>1, <2>1, <2>2 DEF AuthSuc
<1>2. CASE DisconnNormal(a) \/ DisconnLost(a)
  <2>1. LinkGone(a) /\ ~running
    BY <1>2 DEF DisconnNormal, DisconnLost
  <2>2. CASE b = a
    <3>1. /\ link'[b] = "down" /\ page'[b] = "no" /\ pconn'[b] = {}
          /\ profs'[b] = {} /\ closeAfter'[b] = {} /\ b \notin later'
      BY <2>1, <2>2, AloneTypes DEF LinkGone
    <3> QED
      BY <3>1, EmptyFits
  <2>3. CASE b # a
    <3>1. /\ link'[b] = link[b] /\ page'[b] = page[b] /\ pconn'[b] = pconn[b]
          /\ profs'[b] = profs[b] /\ closeAfter'[b] = closeAfter[b]
          /\ pdisc'[b] = pdisc[b] /\ (b \in later' => b \in later)
          /\ (b \in tracked => b \in tracked')
      BY <2>1, <2>3, AloneTypes DEF LinkGone
    <3>2. \/ UNCHANGED <<act, running>>
          \/ Current(a) /\ act' = [act EXCEPT !.exit = TRUE]
          \/ ~act.valid /\ UNCHANGED act
      BY <1>2, AloneTypes DEF DisconnNormal, DisconnLost, ExitNode
    <3>3. /\ Current(b)' <=> Current(b)
          /\ Current(b) => UNCHANGED <<act, running>>
      <4>1. CASE Current(a) /\ act' = [act EXCEPT !.exit = TRUE]
        <5>1. act \in ActiveNode /\ act.addr = a
          BY <4>1, AloneTypes DEF Current
        <5> QED
          BY <2>3, <4>1, <5>1 DEF Current, ActiveNode
      <4> QED
        BY <3>2, <4>1 DEF Current
    <3>4. \A x \in Prof : Plans(todo', b, x) => Plans(todo, b, x)
      <4> DEFINE n == ANode(a, BondPlan[a], LossTimeout, FALSE, FALSE)
      <4>1. n \in Node /\ n.addr = a
        BY EngineAssumption, TimeoutNat, ANodeType
      <4>2. todo' = todo \/ todo' = InsertNormal(todo, n)
        BY <1>2 DEF DisconnNormal, DisconnLost
      <4> HIDE DEF n
      <4> QED
        BY <2>3, <4>1, <4>2, InsertPlans, AloneTypes
    <3>5. OnlyLess(b)
      BY <1>0, <3>1, <3>3, <3>4 DEF OnlyLess, TableFits
    <3> QED
      BY <1>0, <3>5, LessFits
  <2> QED
    BY <2>2, <2>3
<1> QED
  BY <1>1, <1>2

\* No search of the device a is under way for a profile that is being connected.
AskedOnce(a) ==
  Current(a) /\ ~running /\ act.doing \in pconn[a] => sdp[a] = {}

\* The active node moves on; what is left under way on its link is PBAP, which
\* the engine does not wait for, or AVRCP.
LEMMA MovesFit ==
  ASSUME AloneInv, NEW b \in Addr, Current(b), Current(b)', ~running, running',
         link[b] # "down", b \in tracked,
         UNCHANGED <<todo, tracked, profs, later, closeAfter, link, page, pdisc>>,
         \A x \in Prof : Wants(act', x) => Wants(act, x) /\ x \notin pconn'[b],
         act.doing \in pconn'[b] => act.doing = "PBAP",
         \A x \in pconn'[b] :
           x \in pconn[b] \/ (x = act.doing /\ x = "PBAP" /\ x \notin profs[b])
  PROVE  DeviceFits(b)'
<1>0. /\ QueueFits(b) /\ NodeFits(b) /\ TableFits(b) /\ page[b] = "no"
      /\ act.doing \in Prof
  BY AloneFacts, AloneTypes DEF Current
<1>1. LeftOver(b)' => LeftOver(b)
  BY DEF LeftOver
<1>2. QueueFits(b)'
  <2>1. \A x : ~Plans(todo, b, x)
    BY WaitedNotPlanned
  <2> QED
    BY <2>1 DEF QueueFits, Plans
<1>3. NodeFits(b)'
  BY <1>0, <1>1 DEF NodeFits, Wants
<1>4. Wants(act, act.doing) /\ act.doing \notin closeAfter[b]
  BY <1>0 DEF NodeFits, Wants
<1>5. TableFits(b)'
  BY <1>0, <1>1, <1>4 DEF TableFits
<1> QED
  BY <1>2, <1>3, <1>5 DEF DeviceFits

\* What the searches find.
LEMMA SearchesFit ==
  ASSUME AloneInv, Alone, NEW a \in Addr, NEW b \in Addr,
         SdpAttr(a) \/ \E p \in Prof : SdpCmpl(a, p),
         "refuse" \notin Inputs \/ AskedOnce(a)
  PROVE  DeviceFits(b)'
<1>0. /\ DeviceFits(b) /\ QueueFits(b) /\ NodeFits(b) /\ TableFits(b)
      /\ NodeFits(a) /\ TableFits(a)
  BY AloneFacts DEF DeviceFits
<1>1. CASE SdpAttr(a)
  <2>1. act \in ActiveNode /\ act' = [act EXCEPT !.sdpOk = TRUE]
    BY <1>1, AloneTypes DEF SdpAttr, Current
  <2>2. /\ act'.valid = act.valid /\ act'.addr = act.addr /\ act'.doing = act.doing
        /\ act'.remain = act.remain /\ act'.sdpOk
    BY <2>1 DEF ActiveNode
  <2>3. OnlyLess(b)
    BY <1>0, <1>1, <2>2
       DEF SdpAttr, OnlyLess, TableFits, Current, tableVars, stackVars
  <2> QED
    BY <1>0, <2>3, LessFits
<1>2. ASSUME NEW p \in Prof, SdpCmpl(a, p)
      PROVE  DeviceFits(b)'
  <2>0. /\ ~running /\ link[a] = "up"
        /\ UNCHANGED <<mode, todo, tracked, profs, later, closeAfter, link, page, pdisc>>
    BY <1>2 DEF SdpCmpl, tableVars
  <2>1. ASSUME UNCHANGED <<act, running>>, pconn'[b] = pconn[b]
        PROVE  DeviceFits(b)'
    <3>1. OnlyLess(b)
      BY <1>0, <2>0, <2>1 DEF OnlyLess, TableFits, Current
    <3> QED
      BY <1>0, <3>1, LessFits
  <2>2. CASE ~(mode = "linkback" /\ Current(a) /\ a \in tracked)
    BY <1>2, <2>1, <2>2 DEF SdpCmpl
  <2>3. CASE mode = "linkback" /\ Current(a) /\ a \in tracked
    <3>0. act \in ActiveNode /\ act.doing \in Prof /\ act.addr = a
      BY <2>0, <2>3, AloneTypes DEF Current
    <3>1. /\ StepSuc(act).valid /\ StepSuc(act).addr = a
          /\ StepFail(act).valid /\ StepFail(act).addr = a
          /\ \A x \in Prof : /\ Wants(StepSuc(act), x) => Wants(act, x) /\ x # act.doing
                             /\ Wants(StepFail(act), x) => Wants(act, x)
      BY <3>0, StepWants DEF Wants
    <3>2. /\ act' \in {act, StepSuc(act), StepFail(act)}
          /\ b # a => pconn'[b] = pconn[b]
      BY <1>2, AloneTypes DEF SdpCmpl
    <3>3. CASE b # a
      <4>1. ~Current(b) /\ ~Current(b)'
        BY <2>3, <3>0, <3>1, <3>2, <3>3 DEF Current
      <4>2. OnlyLess(b)
        BY <1>0, <2>0, <3>2, <3>3, <4>1 DEF OnlyLess, TableFits
      <4> QED
        BY <1>0, <4>2, LessFits
    <3>4. CASE b = a
      <4>0. /\ \A x \in Prof : Wants(act, x) /\ x \in pconn[b] =>
                                 x = act.doing /\ act.sdpOk
            /\ "DID" \notin pconn[b] /\ act.doing \notin profs[b]
            /\ act.doing \notin closeAfter[b]
            /\ pconn[b] \subseteq Prof /\ Wants(act, act.doing)
            /\ Current(b)
            /\ pconn[b] \cap profs[b] = {}
        BY <1>0, <2>0, <2>3, <3>0, <3>4, AloneFacts DEF NodeFits, TableFits, Wants
      <4>1. \/ /\ act' = StepFail(act) /\ running' /\ UNCHANGED pconn
               /\ act.doing \notin pconn[b]
            \/ act' = StepSuc(act) /\ running' /\ act.doing = "DID" /\ UNCHANGED pconn
            \/ act' = StepSuc(act) /\ running' /\ act.doing = "PBAP"
               /\ pconn' = [pconn EXCEPT ![a] = @ \cup {act.doing}]
            \/ UNCHANGED <<act, running>> /\ act.doing # "DID" /\ act.sdpOk
               /\ pconn' = [pconn EXCEPT ![a] = @ \cup {act.doing}]
        BY <1>2, <2>0, <2>3, <3>0, <3>4, <4>0 DEF SdpCmpl, Disturb, AskedOnce
      <4>2. CASE /\ act' = StepFail(act) /\ running' /\ UNCHANGED pconn
                 /\ act.doing \notin pconn[b]
        <5>1. Current(b)'
          BY <3>1, <3>4, <4>2 DEF Current
        <5>2. \A x \in Prof : Wants(act', x) => Wants(act, x) /\ x \notin pconn'[b]
          BY <3>1, <4>0, <4>2
        <5>3. act.doing \notin pconn'[b]
          BY <3>0, <4>0, <4>2
        <5> QED
          BY <2>0, <2>3, <3>4, <4>0, <4>2, <5>1, <5>2, <5>3, MovesFit
      <4>3. CASE act' = StepSuc(act) /\ running' /\ act.doing = "DID" /\ UNCHANGED pconn
        <5>1. Current(b)'
          BY <3>1, <3>4, <4>3 DEF Current
        <5>2. \A x \in Prof : Wants(act', x) => Wants(act, x) /\ x \notin pconn'[b]
          BY <3>1, <4>0, <4>3
        <5>3. act.doing \notin pconn'[b]
          BY <3>0, <4>0, <4>3
        <5> QED
          BY <2>0, <2>3, <3>4, <4>0, <4>3, <5>1, <5>2, <5>3, MovesFit
      <4>4. CASE act' = StepSuc(act) /\ running' /\ act.doing = "PBAP"
                 /\ pconn' = [pconn EXCEPT ![a] = @ \cup {act.doing}]
        <5>1. Current(b)' /\ pconn'[b] = pconn[b] \cup {act.doing}
          BY <3>1, <3>4, <4>4, AloneTypes DEF Current
        <5>2. \A x \in Prof : Wants(act', x) => Wants(act, x) /\ x \notin pconn'[b]
          BY <3>1, <4>0, <4>4, <5>1
        <5> QED
          BY <2>0, <2>3, <3>4, <4>0, <4>4, <5>1, <5>2, MovesFit
      <4>5. CASE UNCHANGED <<act, running>> /\ act.doing # "DID" /\ act.sdpOk
                 /\ pconn' = [pconn EXCEPT ![a] = @ \cup {act.doing}]
        <5>1. pconn'[b] = pconn[b] \cup {act.doing}
          BY <3>4, <4>5, AloneTypes
        <5>2. \A x : ~Plans(todo, b, x)
          BY <2>0, <4>0, WaitedNotPlanned
        <5>3. QueueFits(b)'
          BY <2>0, <5>2 DEF QueueFits, Plans
        <5>4. LeftOver(b)' => LeftOver(b)
          BY <4>0, <4>5, <5>1 DEF LeftOver, Current
        <5>5. NodeFits(b)'
          BY <1>0, <2>0, <4>0, <4>5, <5>1, <5>4 DEF NodeFits, Current, Wants
        <5>6. TableFits(b)'
          BY <1>0, <2>0, <2>3, <3>4, <4>0, <4>5, <5>1, <5>4 DEF TableFits, Current
        <5> QED
          BY <5>3, <5>5, <5>6 DEF DeviceFits
      <4> QED
        BY <4>1, <4>2, <4>3, <4>4, <4>5
    <3> QED
      BY <3>3, <3>4
  <2> QED
    BY <2>2, <2>3
<1> QED
  BY <1>1, <1>2

\* Profiles that fail or are disconnected.
LEMMA ProfEndsFit ==
  ASSUME AloneInv, Alone, NEW a \in Addr, NEW b \in Addr, NEW p \in Prof,
         \/ ProfFail(a, p) \/ ProfFailSecurity(a, p) \/ ProfFailNoResource(a, p)
         \/ ProfDisconnected(a, p)
  PROVE  DeviceFits(b)'
<1>0. /\ DeviceFits(b) /\ QueueFits(b) /\ NodeFits(b) /\ TableFits(b)
      /\ NodeFits(a) /\ TableFits(a)
  BY AloneFacts DEF DeviceFits
<1>1. ~ProfFailNoResource(a, p)
  BY DEF ProfFailNoResource, Disturb, Alone, Calm
<1>2. CASE ProfFail(a, p)
  <2>0. /\ ~running /\ link[a] = "up" /\ p \in pconn[a]
        /\ pconn' = [pconn EXCEPT ![a] = @ \ {p}]
        /\ UNCHANGED <<mode, todo, tracked, profs, later, closeAfter, link, page, pdisc>>
    BY <1>2 DEF ProfFail, tableVars
  <2>1. pconn'[b] = IF b = a THEN pconn[b] \ {p} ELSE pconn[b]
    BY <2>0, AloneTypes
  <2>2. CASE UNCHANGED <<act, running>>
    <3>1. OnlyLess(b)
      BY <1>0, <2>0, <2>1, <2>2 DEF OnlyLess, TableFits, Current
    <3> QED
      BY <1>0, <3>1, LessFits
  <2>3. CASE /\ Current(a) /\ act.doing = p
             /\ act' = StepFail(act) /\ running'
    <3>0. act \in ActiveNode /\ act.addr = a
      BY <2>3, AloneTypes DEF Current
    <3>1. /\ StepFail(act).valid /\ StepFail(act).addr = a
          /\ \A x \in Prof : Wants(StepFail(act), x) => Wants(act, x)
      BY <3>0, StepWants
    <3>2. CASE b # a
      <4>1. ~Current(b) /\ ~Current(b)'
        BY <2>3, <3>0, <3>1, <3>2 DEF Current
      <4>2. OnlyLess(b)
        BY <1>0, <2>0, <2>1, <3>2, <4>1 DEF OnlyLess, TableFits
      <4> QED
        BY <1>0, <4>2, LessFits
    <3>3. CASE b = a
      <4>1. Current(b)' /\ a \in tracked
        BY <1>0, <2>0, <2>3, <3>1, <3>3 DEF Current, TableFits
      <4>2. \A x \in Prof : Wants(act', x) => Wants(act, x) /\ x \notin pconn'[b]
        BY <1>0, <2>1, <2>3, <3>1, <3>3 DEF NodeFits
      <4> QED
        BY <2>0, <2>1, <2>3, <3>3, <4>1, <4>2, MovesFit
    <3> QED
      BY <3>2, <3>3
  <2> QED
    BY <1>2, <2>2, <2>3 DEF ProfFail
<1>3. CASE ProfFailSecurity(a, p)
  <2>0. /\ pconn' = [pconn EXCEPT ![a] = @ \ {p}]
        /\ AclDisconnect(a) \/ UNCHANGED <<page, link>>
        /\ UNCHANGED <<mode, running, act, todo, tracked, profs, later, closeAfter, pdisc>>
    BY <1>3 DEF ProfFailSecurity, engVars, nodeVars, tableVars
  <2>1. /\ pconn'[b] \subseteq pconn[b]
        /\ page'[b] # "no" => page[b] # "no"
        /\ link'[b] # "down" => link[b] # "down"
    BY <2>0, AloneTypes DEF AclDisconnect
  <2>2. OnlyLess(b)
    BY <1>0, <2>0, <2>1 DEF OnlyLess, TableFits, Current
  <2> QED
    BY <1>0, <2>2, LessFits
<1>4. CASE ProfDisconnected(a, p)
  <2>0. /\ p \in pdisc[a] /\ p \in profs[a]
        /\ profs' = [profs EXCEPT ![a] = profs[a] \ {p}]
        /\ pdisc' = [pdisc EXCEPT ![a] =
             (@ \ {p}) \cup (IF p = "A2DP" THEN (profs[a] \ {p}) \cap {"AVRCP"} ELSE {})]
        /\ \/ closeAfter' = [closeAfter EXCEPT ![a] = {}] /\ AclDisconnect(a)
           \/ UNCHANGED <<closeAfter, page, link>>
        /\ UNCHANGED <<mode, running, act, todo, tracked, later, pconn>>
    BY <1>4 DEF ProfDisconnected, Disturb, Alone, engVars, nodeVars
  <2>1. /\ page'[b] # "no" => page[b] # "no"
        /\ link'[b] # "down" => link[b] # "down"
        /\ closeAfter'[b] \subseteq closeAfter[b]
        /\ profs'[b] \subseteq profs[b]
        /\ profs'[b] \cap pdisc[b] \subseteq pdisc'[b]
    BY <2>0, AloneTypes DEF AclDisconnect
  <2>2. closeAfter'[b] \cap profs'[b] \subseteq pdisc'[b]
    BY <1>0, <2>1 DEF TableFits
  <2>3. OnlyLess(b)
    BY <1>0, <2>0, <2>1, <2>2 DEF OnlyLess, TableFits, Current
  <2> QED
    BY <1>0, <2>3, LessFits
<1> QED
  BY <1>1, <1>2, <1>3, <1>4

\* A profile that was asked for is connected.
LEMMA ProfConnectedFits ==
  ASSUME AloneInv, Alone, NEW a \in Addr, NEW b \in Addr, NEW p \in Prof,
         ProfConnected(a, p)
  PROVE  DeviceFits(b)'
<1> DEFINE first == profs[a] = {}
           act1  == IF first /\ Current(a) THEN ProfsAdd(act, {"DID"}) ELSE act
           done  == Current(a) /\ act.doing = p /\ act.sdpOk
<1>0. /\ DeviceFits(b) /\ QueueFits(b) /\ NodeFits(b) /\ TableFits(b)
      /\ NodeFits(a) /\ TableFits(a)
      /\ pconn[a] \subseteq Prof /\ closeAfter[a] \subseteq Prof
      /\ (Current(a) => mode = "linkback")
  BY AloneFacts DEF DeviceFits
<1>1. ~running /\ link[a] = "up" /\ p \in pconn[a] /\ ProfSuc(a, p)
  BY DEF ProfConnected, Disturb, Alone
<1>2. a \in tracked /\ p # "DID" /\ p \notin closeAfter[a] /\ p \notin profs[a]
  BY <1>0, <1>1 DEF TableFits
<1>3. (mode = "linkback" /\ Current(a)) <=> Current(a)
  BY <1>0
<1>4. /\ pconn' = [pconn EXCEPT ![a] = @ \ {p}]
      /\ profs' = [profs EXCEPT ![a] = @ \cup {p}]
      /\ later' = IF p = "A2DP" /\ "AVRCP" \in Prof \ profs[a]
                     /\ closeAfter[a] = {}
                  THEN later \cup {a}
                  ELSE IF p = "AVRCP" THEN later \ {a} ELSE later
      /\ act' = IF done THEN StepSuc(act1) ELSE act1
      /\ running' = done
      /\ todo' = IF first /\ mode = "linkback" /\ ~Current(a)
                 THEN InsertForce(todo, ForceNode(a, {"DID"})) ELSE todo
      /\ UNCHANGED <<mode, tracked, closeAfter, link, page, pdisc>>
  BY <1>1, <1>2, <1>3 DEF ProfSuc
<1>5. Current(a) =>
        /\ act \in ActiveNode /\ act.addr = a /\ act.doing \in Prof
        /\ act1 \in ActiveNode /\ act1.valid /\ act1.addr = a
        /\ act1.doing = act.doing /\ act1.sdpOk = act.sdpOk
        /\ act1.remain \in {act.remain, act.remain \cup {"DID"}}
  <2>1. CASE Current(a)
    <3>1. act \in ActiveNode /\ act.addr = a /\ act.doing \in Prof
      BY <1>1, <2>1, AloneTypes DEF Current
    <3>2. ProfsAdd(act, {"DID"}) \in ActiveNode
      BY <3>1, TimeoutNat, ProfAssumption DEF ProfsAdd, ActiveNode
    <3>3. /\ ProfsAdd(act, {"DID"}).valid /\ ProfsAdd(act, {"DID"}).addr = a
          /\ ProfsAdd(act, {"DID"}).doing = act.doing
          /\ ProfsAdd(act, {"DID"}).sdpOk = act.sdpOk
          /\ ProfsAdd(act, {"DID"}).remain = act.remain \cup {"DID"}
      BY <3>1 DEF ProfsAdd, ActiveNode
    <3> QED
      BY <2>1, <3>1, <3>2, <3>3 DEF Current
  <2> QED
    BY <2>1
<1> HIDE DEF act1
<1>6. Current(a) =>
        /\ act'.valid /\ act'.addr = a
        /\ ~done => act'.doing = act.doing /\ act'.sdpOk = act.sdpOk
        /\ \A x \in Prof : Wants(act', x) =>
             (Wants(act, x) \/ x = "DID") /\ (done => x # p)
  <2>1. CASE Current(a) /\ done
    <3>1. act' = StepSuc(act1) /\ act1 \in ActiveNode
      BY <1>4, <1>5, <2>1
    <3>2. /\ StepSuc(act1).addr = a /\ StepSuc(act1).valid
          /\ \A x \in Prof : Wants(StepSuc(act1), x) => x \in act1.remain /\ x # p
      BY <1>5, <2>1, <3>1, StepWants
    <3> QED
      BY <1>5, <2>1, <3>1, <3>2 DEF Wants
  <2>2. CASE Current(a) /\ ~done
    BY <1>4, <1>5, <2>2 DEF Wants
  <2> QED
    BY <2>1, <2>2
<1>7. ~Current(a) => act' = act /\ ~running'
  BY <1>4 DEF act1
<1>8. \A x \in Prof : Plans(todo', b, x) =>
        Plans(todo, b, x) \/ (b = a /\ ~Current(a) /\ x = "DID")
  <2> DEFINE n == ForceNode(a, {"DID"})
  <2>1. n \in Node /\ n.addr = a /\ n.plan = {"DID"}
    <3>1. n \in Node
      BY TimeoutNat, ANodeType, ProfAssumption DEF ForceNode
    <3> QED
      BY <3>1 DEF ForceNode, ANode
  <2>2. todo' = todo \/ (~Current(a) /\ todo' = InsertForce(todo, n))
    BY <1>4
  <2> HIDE DEF n
  <2> QED
    BY <2>1, <2>2, InsertPlans, AloneTypes
<1>9. CASE b # a
  <2>1. /\ pconn'[b] = pconn[b] /\ profs'[b] = profs[b]
        /\ (b \in later' => b \in later)
    BY <1>4, <1>9, AloneTypes
  <2>2. /\ Current(b)' <=> Current(b)
        /\ Current(b) => act' = act /\ ~running'
    BY <1>6, <1>7, <1>9 DEF Current
  <2>3. OnlyLess(b)
    BY <1>0, <1>1, <1>4, <1>8, <1>9, <2>1, <2>2, AloneTypes DEF OnlyLess, TableFits
  <2> QED
    BY <1>0, <2>3, LessFits
<1>10. CASE b = a
  <2>1. /\ pconn'[b] = pconn[b] \ {p} /\ profs'[b] = profs[b] \cup {p}
        /\ (b \in later' => (b \in later /\ p # "AVRCP")
                            \/ (p = "A2DP" /\ "AVRCP" \notin profs[b]
                                /\ closeAfter[b] = {}))
        /\ Current(b)' <=> Current(b)
    BY <1>4, <1>6, <1>7, <1>10, AloneTypes DEF Current
  \* What is connected is what the node waits for, or PBAP or AVRCP.
  <2>2. p \in {"PBAP", "AVRCP"} \/ done
    BY <1>0, <1>1, <1>5, <1>10 DEF TableFits, NodeFits, Wants
  <2>3. Current(b) => \A x \in Prof : Wants(act, x) =>
          x \notin closeAfter[b] /\ (x \in pconn[b] => x = act.doing /\ act.sdpOk)
    BY <1>0 DEF NodeFits
  <2>4. LeftOver(b)' => LeftOver(b)
    <3>1. CASE Current(b) /\ done
      BY <1>10, <2>1, <3>1 DEF LeftOver
    <3>2. CASE Current(b) /\ ~done
      BY <1>6, <1>10, <2>1, <3>2 DEF LeftOver
    <3>3. CASE ~Current(b)
      BY <1>7, <1>10, <2>1, <3>3 DEF LeftOver
    <3> QED
      BY <3>1, <3>2, <3>3
  \* AVRCP is left to the phone for a while only where it is not on its way.
  <2>5. b \in later' =>
          /\ "AVRCP" \notin profs'[b] \cup closeAfter[b] /\ ~LeftOver(b)
          /\ Current(b) => \A x \in Prof : Wants(act', x) => x # "A2DP"
    <3>1. ASSUME b \in later, p # "AVRCP"
          PROVE  /\ "AVRCP" \notin profs'[b] \cup closeAfter[b] /\ ~LeftOver(b)
                 /\ Current(b) => \A x \in Prof : Wants(act', x) => x # "A2DP"
      BY <1>0, <1>6, <1>10, <2>1, <3>1 DEF TableFits, NodeFits
    <3>2. ASSUME p = "A2DP", "AVRCP" \notin profs[b], closeAfter[b] = {}
          PROVE  /\ "AVRCP" \notin profs'[b] \cup closeAfter[b] /\ ~LeftOver(b)
                 /\ Current(b) => \A x \in Prof : Wants(act', x) => x # "A2DP"
      <4>1. done
        BY <2>2, <3>2
      <4>2. ~LeftOver(b)
        BY <1>0, <1>10, <3>2, <4>1 DEF NodeFits, Wants
      <4> QED
        BY <1>6, <1>10, <2>1, <3>2, <4>1, <4>2
    <3> QED
      BY <2>1, <3>1, <3>2
  <2>6. QueueFits(b)'
    <3>1. CASE Current(b)
      <4>1. \A x \in Prof : ~Plans(todo', b, x)
        BY <1>1, <1>8, <1>10, <3>1, WaitedNotPlanned
      <4> QED
        BY <4>1 DEF QueueFits, Plans
    <3>2. CASE ~Current(b)
      <4>1. ASSUME NEW x \in Prof, Plans(todo', b, x)
            PROVE  /\ x \notin pconn'[b] \cup profs'[b] \cup closeAfter[b]
                   /\ x \in {"DID", "AVRCP"}
                   /\ b \in later' => x # "AVRCP"
        <5>1. Plans(todo, b, x) \/ x = "DID"
          BY <1>8, <4>1
        <5>2. CASE Plans(todo, b, x)
          <6>1. /\ x \notin pconn[b] \cup profs[b] \cup closeAfter[b]
                /\ x \in {"DID", "AVRCP"} /\ (b \in later => x # "AVRCP")
            BY <1>0, <1>1, <1>10, <5>2 DEF QueueFits
          <6>2. p # "A2DP"
            BY <1>10, <2>2, <3>2
          <6> QED
            BY <1>1, <1>10, <2>1, <6>1, <6>2
        <5>3. CASE x = "DID"
          BY <1>0, <1>2, <1>10, <2>1, <5>3 DEF TableFits
        <5> QED
          BY <5>1, <5>2, <5>3
      <4> QED
        BY <1>4, <4>1 DEF QueueFits, Plans
    <3> QED
      BY <3>1, <3>2
  <2>7. NodeFits(b)'
    <3>1. CASE ~Current(b)
      BY <2>1, <3>1 DEF NodeFits
    <3>2. CASE Current(b)
      <4>1. ~running' => act'.doing \notin profs'[b]
        <5>1. ASSUME ~running'
              PROVE  ~done /\ act.doing # p
          BY <1>0, <1>1, <1>4, <1>5, <1>10, <2>1, <3>2, <5>1 DEF NodeFits, Wants
        <5>2. act.doing \notin profs[b]
          BY <1>0, <1>1, <3>2 DEF NodeFits
        <5> QED
          BY <1>6, <1>10, <2>1, <3>2, <5>1, <5>2
      <4>2. ASSUME NEW x \in Prof, Wants(act', x)
            PROVE  /\ x \in pconn'[b] => ~running' /\ x = act'.doing /\ act'.sdpOk
                   /\ x \notin closeAfter'[b]
                   /\ b \in later' \/ LeftOver(b)' => x # "A2DP"
        <5>1. (Wants(act, x) \/ x = "DID") /\ (done => x # p)
          BY <1>6, <1>10, <3>2, <4>2
        <5>2. CASE x = "DID"
          BY <1>0, <1>4, <1>10, <2>1, <5>2 DEF TableFits
        <5>3. CASE Wants(act, x)
          <6>1. x \in pconn'[b] => ~done /\ x = act.doing /\ act.sdpOk
            BY <1>10, <2>1, <2>3, <3>2, <5>1, <5>3
          <6>2. LeftOver(b) => x # "A2DP"
            BY <1>0, <3>2, <5>3 DEF NodeFits
          <6> QED
            BY <1>4, <1>6, <1>10, <2>3, <2>4, <2>5, <3>2, <4>2, <5>3, <6>1, <6>2
        <5> QED
          BY <5>1, <5>2, <5>3
      <4> QED
        BY <4>1, <4>2 DEF NodeFits, Wants
    <3> QED
      BY <3>1, <3>2
  <2>8. TableFits(b)'
    <3>1. \A x \in pconn'[b] : x \in {"PBAP", "AVRCP"} \/ (Current(b)' /\ act'.doing = x)
      <4>1. ASSUME NEW x \in pconn'[b], x \notin {"PBAP", "AVRCP"}
            PROVE  Current(b)' /\ act'.doing = x
        <5>1. x \in pconn[b] /\ x # p /\ Current(b) /\ act.doing = x
          BY <1>0, <2>1, <4>1 DEF TableFits
        <5>2. ~done
          BY <5>1
        <5> QED
          BY <1>6, <1>10, <2>1, <5>1, <5>2
      <4> QED
        BY <4>1
    <3>2. page[b] = "no"
      BY <1>1, <1>10, AloneFacts, AloneTypes
    <3>3. /\ pconn'[b] \cap profs'[b] = {} /\ closeAfter'[b] \cap pconn'[b] = {}
          /\ closeAfter'[b] \cap profs'[b] \subseteq pdisc'[b]
          /\ "DID" \notin pconn'[b] \cup profs'[b] \cup closeAfter'[b]
          /\ b \in tracked'
      BY <1>0, <1>2, <1>4, <1>10, <2>1 DEF TableFits
    <3>4. b \in later' => "AVRCP" \notin profs'[b] \cup closeAfter'[b] /\ ~LeftOver(b)'
      BY <1>4, <2>4, <2>5
    <3> QED
      BY <1>4, <3>1, <3>2, <3>3, <3>4 DEF TableFits
  <2> QED
    BY <2>6, <2>7, <2>8 DEF DeviceFits
<1> QED
  BY <1>9, <1>10

LEMMA NextAlone ==
  ASSUME Alone, AloneInv, [Next]_vars,
         "refuse" \notin Inputs \/ \A a \in Addr : AskedOnce(a)
  PROVE  AloneInv'
<1>1. EInv' /\ CalmInv' /\ CloseAwaitsProfile'
  BY NextEInv, NextCalm, NextCloseAwaits DEF AloneInv, Alone
<1>2. ModeFits'
  BY NextModeFits
<1>3. ASSUME NEW b \in Addr PROVE DeviceFits(b)'
  <2>1. CASE UNCHANGED vars
    BY <2>1, LessFits
       DEF AloneInv, DeviceFits, TableFits, OnlyLess, Current, vars, engVars,
           nodeVars, tableVars, stackVars
  <2>2. ASSUME NEW a \in Addr, StackAnswer(a) \/ Incoming(a) \/ DisconnLost(a)
        PROVE  DeviceFits(b)'
    BY <2>2, PagesFit, LinksFit, SearchesFit, ProfConnectedFits, ProfEndsFit
       DEF StackAnswer
  <2> QED
    BY <2>1, <2>2, RunFits, CommandFits, TimersFit DEF Next
<1> QED
  BY <1>1, <1>2, <1>3 DEF AloneInv

LEMMA InitAlone == Init => AloneInv
<1> SUFFICES ASSUME Init PROVE AloneInv
  OBVIOUS
<1>1. EInv /\ CalmInv /\ CloseAwaitsProfile
  BY InitEInv DEF Init, CalmInv, NoDelay, PagesWaited, OverTime, NoNode,
                  CloseAwaitsProfile
<1>2. ModeFits
  BY DEF Init, ModeFits
<1>3. ASSUME NEW b \in Addr PROVE DeviceFits(b)
  BY <1>3 DEF Init, NoNode, DeviceFits, QueueFits, NodeFits, TableFits, LeftOver,
              Plans, Current
<1> QED
  BY <1>1, <1>2, <1>3 DEF AloneInv

\* While neither the user nor a phone connects anything and no request is
\* refused, a link that is to be closed after its profiles waits for one whose
\* disconnection is under way (EVENT_DEDICATED_DISCONNECT, EVENT_PROFILE_DISCONN):
\* the session that is still connecting the device never asks again for what the
\* user has just disconnected.
THEOREM EngineCloseIsDriven ==
  ASSUME Alone, "refuse" \notin Inputs
  PROVE  Spec => []CloseIsDriven
<1>1. Init => AloneInv
  BY InitAlone
<1>2. AloneInv /\ [Next]_vars => AloneInv'
  BY NextAlone
<1>3. AloneInv => CloseIsDriven
  <2> SUFFICES ASSUME AloneInv, NEW a \in Addr, closeAfter[a] # {}
               PROVE  closeAfter[a] \cap pdisc[a] # {}
    BY DEF CloseIsDriven
  <2>1. closeAfter[a] \cap profs[a] # {}
    BY DEF AloneInv, CloseAwaitsProfile
  <2>2. closeAfter[a] \cap profs[a] \subseteq pdisc[a]
    BY AloneFacts DEF TableFits
  <2> QED
    BY <2>1, <2>2
<1> QED
  BY <1>1, <1>2, <1>3, PTL DEF Spec

-----------------------------------------------------------------------------
(* Which searches are under way.  The user disconnecting nothing either,     *)
(* every search is that of the active node, or one of DID on a link the      *)
(* engine has no more business with.                                         *)

\* The searches of the device b are for the current profile; a device that waits
\* for its turn has none, and one that nobody waits for has none while profiles
\* of it are being connected.
SearchFits(b) ==
  /\ Current(b) =>
       /\ running => sdp[b] = {}
       /\ sdp[b] \subseteq {act.doing}
       /\ act.doing \in pconn[b] => sdp[b] = {}
  /\ \A x \in Prof : Plans(todo, b, x) => sdp[b] = {}
  /\ ~Current(b) /\ sdp[b] # {} => pconn[b] = {} /\ b \notin later
  /\ b \in later \/ LeftOver(b) => "A2DP" \in profs[b]
  /\ pdisc[b] = {}

Drained ==
  /\ Planned(todo) /\ (mode = "stable" => todo = <<>>)
  /\ mode = "startup" => \A a \in Addr : sdp[a] = {}

SearchInv == AloneInv /\ Drained /\ \A b \in Addr : SearchFits(b)

LEMMA SearchFacts ==
  ASSUME SearchInv, NEW b \in Addr
  PROVE  /\ AloneInv /\ SearchFits(b) /\ AskedOnce(b)
         /\ sdp \in [Addr -> SUBSET Prof]
<1>1. AloneInv /\ SearchFits(b)
  BY DEF SearchInv
<1>2. sdp \in [Addr -> SUBSET Prof]
  BY DEF SearchInv, AloneInv, EInv, RestOK
<1> QED
  BY <1>1, <1>2 DEF SearchFits, AskedOnce

\* The step starts no search of the device b and makes nobody wait for it.
SearchesLess(b) ==
  /\ sdp'[b] \subseteq sdp[b] /\ pconn'[b] \subseteq pconn[b]
  /\ profs[b] \subseteq profs'[b] /\ pdisc'[b] = {}
  /\ b \in later' => b \in later
  /\ \A x \in Prof : Plans(todo', b, x) => Plans(todo, b, x)
  /\ Current(b)' <=> Current(b)
  /\ Current(b) => act'.doing = act.doing /\ running' = running

LEMMA LessSearches ==
  ASSUME NEW b \in Addr, SearchFits(b), SearchesLess(b)
  PROVE  SearchFits(b)'
<1>1. LeftOver(b)' => LeftOver(b)
  BY DEF LeftOver, SearchesLess
<1>2. Current(b)' => /\ running' => sdp'[b] = {}
                     /\ sdp'[b] \subseteq {act'.doing}
                     /\ act'.doing \in pconn'[b] => sdp'[b] = {}
  BY DEF SearchFits, SearchesLess
<1>3. /\ \A x \in Prof : Plans(todo', b, x) => sdp'[b] = {}
      /\ ~Current(b)' /\ sdp'[b] # {} => pconn'[b] = {} /\ b \notin later'
      /\ b \in later' \/ LeftOver(b)' => "A2DP" \in profs'[b]
      /\ pdisc'[b] = {}
  BY <1>1 DEF SearchFits, SearchesLess
<1> QED
  BY <1>2, <1>3 DEF SearchFits, Plans

LEMMA NoSearches ==
  ASSUME NEW b \in Addr, sdp'[b] = {}, pdisc'[b] = {},
         b \in later' \/ LeftOver(b)' => "A2DP" \in profs'[b]
  PROVE  SearchFits(b)'
BY DEF SearchFits

\* What a step does in each mode.
LEMMA ModeSteps ==
  ASSUME AloneInv, Alone, "disconnect" \notin Inputs, [Next]_vars
  PROVE  /\ mode = "startup" => Startup \/ UNCHANGED vars
         /\ mode' = "startup" => mode = "startup"
         /\ mode = "stable" /\ mode' = "stable" => todo' = todo
<1>0. /\ mode # "stop" /\ inc = {} /\ ind = {} /\ ~delay
      /\ mode # "linkback" => ~act.valid /\ timer = 0 /\ ~running
      /\ mode = "startup" => \A b \in Addr : link[b] = "down" /\ b \notin later
      /\ mode # "linkback" => \A b \in Addr : page[b] = "no"
  <2>1. /\ mode # "stop" /\ inc = {} /\ ind = {} /\ ~delay
        /\ mode # "linkback" => ~act.valid /\ timer = 0 /\ ~running
        /\ mode = "startup" => \A b \in Addr : link[b] = "down"
    BY DEF AloneInv, ModeFits, CalmInv, NoDelay, EInv, QuietOutsideSession
  <2>2. \A b \in Addr : /\ page[b] # "no" => mode = "linkback"
                        /\ link[b] = "down" => b \notin later
    BY AloneFacts
  <2> QED
    BY <2>1, <2>2
<1>1. Run => mode = "linkback" /\ mode' \in {"linkback", "stable"}
  BY <1>0 DEF Run, RunTake, RunTakeEmptyPlan, RunFinish, Finish, RunDrop,
       RunWaitInd, ToConnect, RunAlreadyConnected, RunDropFull, RunSearch,
       ToSearch, RunSearchRefused
<1>2. Command => Startup
  BY <1>0 DEF Command, Restore, Stop, Connect, Disconnect, Disturb, Alone
<1>3. Startup => mode = "startup" /\ mode' # "startup"
  BY DEF Startup, LinkbackSched
<1>4. TimerFires => /\ mode # "startup" /\ mode' = mode
                    /\ mode = "stable" => todo' = todo
  BY <1>0 DEF TimerFires, Tick, LinkbackTimerFires, ConnTimeout, DelayTimerFires,
       IndTimerFires, LaterAvrcpFires, engVars, nodeVars
<1>5. ASSUME NEW a \in Addr, StackAnswer(a) \/ Incoming(a) \/ DisconnLost(a)
      PROVE  /\ mode # "startup" /\ mode' \in {mode, "linkback"}
             /\ mode = "stable" /\ mode' = "stable" => todo' = todo
  <2>1. ~Incoming(a) /\ a \notin inc
    BY <1>0 DEF Incoming, Disturb, Alone, Calm
  <2>2. link[a] # "down" \/ page[a] # "no"
    BY <1>5, <2>1
       DEF StackAnswer, PageSuc, PageFail, PageFailExist, PageFailBusy,
           IncomingUp, IncomingFails, AuthSuc, DisconnNormal, DisconnLost,
           SdpAttr, SdpCmpl, ProfConnected, ProfFail, ProfFailSecurity,
           ProfFailNoResource, ProfDisconnected
  <2>3. /\ mode' \in {mode, "linkback"}
        /\ mode = "stable" /\ mode' = "stable" => todo' = todo
    BY <1>5, <2>1
       DEF StackAnswer, PageSuc, LinkUp, PageFail, PageFailExist, PageFailBusy,
           PageEnds, ConnFailHandler, DelayRetry,
           IncomingUp, IncomingFails, AuthSuc, ConnTimeout, DisconnNormal,
           DisconnLost, SdpAttr, SdpCmpl, ProfConnected, ProfSuc, ProfFail,
           ProfFailSecurity, ProfFailNoResource, ProfDisconnected, engVars, nodeVars
  <2> QED
    BY <1>0, <2>2, <2>3
<1>6. UNCHANGED vars => mode' = mode /\ todo' = todo
  BY DEF vars, engVars, nodeVars
<1> QED
  BY <1>1, <1>2, <1>3, <1>4, <1>5, <1>6 DEF Next

\* The queue is empty outside a session.
LEMMA NextDrained ==
  ASSUME SearchInv, Alone, "disconnect" \notin Inputs, [Next]_vars
  PROVE  Drained'
<1>0. /\ EInv /\ AloneInv /\ Planned(todo)
      /\ (mode = "stable" => todo = <<>>)
      /\ mode = "startup" => \A a \in Addr : sdp[a] = {}
      /\ mode \in {"startup", "linkback", "stable"}
  BY DEF SearchInv, Drained, AloneInv, ModeFits, EInv, EngOK
<1>1. Planned(todo')
  BY <1>0, NextPlanned
<1>2. ASSUME mode' = "stable" PROVE todo' = <<>>
  <2>1. CASE mode = "linkback"
    <3>1. mode' # mode
      BY <1>2, <2>1
    <3>2. ~UNCHANGED vars
      BY <3>1 DEF vars, engVars
    <3> QED
      BY <1>0, <1>2, <2>1, <3>2, SessionEnd
  <2>2. CASE mode = "startup"
    <3>1. Startup
      BY <1>0, <1>2, <2>2, ModeSteps DEF vars, engVars
    <3>2. BondList = <<>> /\ todo' = LoadBondList
      BY <1>2, <3>1 DEF Startup, LinkbackSched
    <3>3. GoodTodo(LoadBondList) /\ DOMAIN LoadBondList = DOMAIN BondList
      BY LoadBondListGood DEF LoadBondList
    <3>4. LoadBondList \in Seq(Node) /\ DOMAIN LoadBondList = {}
      BY <3>2, <3>3, EmptySeq, LenProperties DEF GoodTodo, IsTodo
    <3>5. Len(LoadBondList) = 0
      BY <3>4, LenProperties
    <3> QED
      BY <3>2, <3>4, <3>5, EmptySeq
  <2>3. CASE mode = "stable"
    BY <1>0, <1>2, <2>3, ModeSteps
  <2> QED
    BY <1>0, <2>1, <2>2, <2>3
<1>3. ASSUME mode' = "startup" PROVE sdp' = sdp /\ mode = "startup"
  <2>1. mode = "startup" /\ ~Startup
    BY <1>0, <1>3, ModeSteps DEF Startup, LinkbackSched
  <2> QED
    BY <1>0, <2>1, ModeSteps DEF vars, stackVars
<1> QED
  BY <1>0, <1>1, <1>2, <1>3 DEF Drained, Planned

\* The turns of app_bt_policy_linkback_run: the node that is run has no search
\* under way when its next one is started.
LEMMA RunSearches ==
  ASSUME SearchInv, Run, NEW b \in Addr
  PROVE  SearchFits(b)'
<1>0. /\ running /\ SearchFits(b) /\ NodeFits(b) /\ AloneInv /\ EInv /\ GoodTodo(todo)
      /\ sdp \in [Addr -> SUBSET Prof] /\ Planned(todo)
      /\ UNCHANGED <<tableVars, link, pconn, pdisc, inc>>
  BY SearchFacts, AloneFacts, AloneTypes
     DEF SearchInv, Drained, Run, RunTake, RunTakeEmptyPlan, RunFinish, Finish,
         RunDrop, RunWaitInd, RunAlreadyConnected, RunDropFull, RunSearch,
         ToSearch, RunSearchRefused, ToConnect, tableVars, stackVars
<1>1. UNCHANGED <<profs, later>> /\ pdisc[b] = {}
  BY <1>0 DEF tableVars, SearchFits
<1>2. LeftOver(b)' => LeftOver(b)
  <2>1. Current(b) => \A x \in Prof : Wants(act, x) => x \notin pconn[b]
    BY <1>0 DEF NodeFits
  <2>2. pconn[b] \subseteq Prof
    BY <1>0, AloneFacts
  <2>3. "AVRCP" \in pconn[b] => LeftOver(b)
    BY <2>1, <2>2 DEF LeftOver, Wants
  <2> QED
    BY <1>0, <2>3 DEF LeftOver
<1>3. ASSUME sdp'[b] = {} PROVE SearchFits(b)'
  BY <1>0, <1>1, <1>2, <1>3, NoSearches DEF SearchFits
<1>4. ASSUME sdp' = sdp, todo' = todo \/ (todo # <<>> /\ todo' = Tail(todo)),
             ~Current(b)'
      PROVE  SearchFits(b)'
  <2>1. CASE sdp[b] = {}
    BY <1>3, <1>4, <2>1
  <2>2. CASE sdp[b] # {}
    <3>1. ~Current(b)
      BY <1>0, <2>2 DEF SearchFits
    <3>2. \A x \in Prof : Plans(todo', b, x) => Plans(todo, b, x)
      BY <1>0, <1>4, LessPlans
    <3> QED
      BY <1>0, <1>1, <1>4, <3>1, <3>2, LessSearches DEF SearchesLess
  <2> QED
    BY <2>1, <2>2
<1>5. CASE RunTake
  <2> DEFINE n == Head(todo)
  <2>1. /\ todo # <<>> /\ todo' = Tail(todo) /\ act' = Load(n) /\ sdp' = sdp
        /\ n.plan # {}
    BY <1>5 DEF RunTake, stackVars
  <2>2. n \in Node /\ n = todo[1] /\ 1 \in DOMAIN todo
    <3>1. todo \in Seq(Node) /\ Len(todo) \in Nat \ {0}
          /\ DOMAIN todo = 1 .. Len(todo)
      BY <1>0, <2>1, LenProperties, EmptySeq DEF GoodTodo, IsTodo
    <3> QED
      BY <1>0, <2>1, <3>1, TailGood, HeadTailProperties
  <2>3. CASE b = n.addr
    <3>1. PICK x \in Prof : x \in n.plan
      BY <2>1, <2>2 DEF Node
    <3>2. Plans(todo, b, x)
      BY <2>2, <2>3, <3>1 DEF Plans
    <3> QED
      BY <1>0, <1>3, <2>1, <3>2 DEF SearchFits
  <2>4. CASE b # n.addr
    <3>1. ~Current(b)'
      BY <2>1, <2>4 DEF Current, Load
    <3> QED
      BY <1>4, <2>1, <3>1
  <2> QED
    BY <2>3, <2>4
<1>6. CASE RunTakeEmptyPlan \/ RunFinish \/ RunDrop \/ RunDropFull
  <2>1. /\ act' = NoNode /\ sdp' = sdp
        /\ todo' = todo \/ (todo # <<>> /\ todo' = Tail(todo))
    BY <1>6 DEF RunTakeEmptyPlan, RunFinish, Finish, RunDrop, RunDropFull,
                stackVars
  <2>2. ~Current(b)'
    BY <2>1, CalmFacts, <1>0 DEF Current
  <2> QED
    BY <1>4, <2>1, <2>2
<1>7. CASE RunWaitInd
  BY <1>0, <1>7, AloneFacts DEF RunWaitInd
<1>8. CASE RunAlreadyConnected \/ RunSearchRefused
  <2>1. /\ act.valid /\ act' \in {StepSuc(act), StepFail(act)}
        /\ todo' = todo /\ sdp' = sdp
    BY <1>8 DEF RunAlreadyConnected, RunSearchRefused, ToSearch, ToConnect,
                stackVars
  <2>2. act \in ActiveNode /\ act'.addr = act.addr
    BY <1>0, <2>1, ShapeFacts, StepWants, ProfAssumption
  <2>3. CASE Current(b)
    BY <1>0, <1>3, <2>1, <2>3 DEF SearchFits
  <2>4. CASE ~Current(b)
    <3>1. ~Current(b)'
      BY <2>1, <2>2, <2>4 DEF Current
    <3> QED
      BY <1>4, <2>1, <3>1
  <2> QED
    BY <2>3, <2>4
<1>9. CASE RunSearch
  <2>1. /\ UNCHANGED <<act, todo>> /\ ~running' /\ act.valid /\ ~act.exit
        /\ act.remain # {}
        /\ sdp' = [sdp EXCEPT ![act.addr] = @ \cup {act.doing}]
    BY <1>9 DEF RunSearch, ToSearch, ToConnect, nodeVars
  <2>2. CASE ~Current(b)
    <3>1. sdp'[b] = sdp[b]
      BY <1>0, <2>1, <2>2 DEF Current
    <3> QED
      BY <1>0, <1>1, <2>1, <2>2, <3>1, LessSearches DEF SearchesLess, Current
  <2>3. CASE Current(b)
    <3>1. sdp'[b] = {act.doing}
      BY <1>0, <2>1, <2>3 DEF SearchFits, Current
    <3>2. act.doing \in Prof /\ Wants(act, act.doing)
      BY <1>0, <2>1, NodeFacts DEF EInv, Wants
    <3>3. act.doing \notin pconn[b]
      BY <1>0, <2>3, <3>2 DEF NodeFits
    <3>4. ~Queued(todo, b)
      BY <1>0, <2>1, <2>3 DEF EInv, NodeOK, Current
    <3>5. \A x : ~Plans(todo, b, x)
      BY <3>4 DEF Plans, Queued
    <3>6. Current(b)'
      BY <2>1, <2>3 DEF Current
    <3> QED
      BY <1>0, <1>1, <1>2, <2>1, <3>1, <3>3, <3>5, <3>6 DEF SearchFits, Plans
  <2> QED
    BY <2>2, <2>3
<1> QED
  BY <1>5, <1>6, <1>7, <1>8, <1>9 DEF Run

\* Power on is the only command that is left.
LEMMA StartupSearches ==
  ASSUME SearchInv, Startup, NEW b \in Addr
  PROVE  SearchFits(b)'
<1>1. /\ SearchFits(b) /\ sdp[b] = {}
      /\ UNCHANGED <<sdp, pdisc, pconn, later, profs>>
  BY SearchFacts DEF SearchInv, Drained, Startup, LinkbackSched, tableVars, stackVars
<1>2. pconn[b] = {} /\ b \notin later
  BY AloneFacts DEF Startup, SearchInv, AloneInv, ModeFits
<1> QED
  BY <1>1, <1>2, NoSearches DEF SearchFits, LeftOver

\* The end of a node's time.
LEMMA ConnTimeoutSearches ==
  ASSUME SearchInv, mode = "linkback", ~running, ConnTimeout,
         UNCHANGED tableVars, NEW b \in Addr
  PROVE  SearchFits(b)'
<1>0. /\ SearchFits(b) /\ sdp \in [Addr -> SUBSET Prof] /\ AloneInv /\ ~delay
      /\ GoodTodo(todo)
  BY SearchFacts, AloneFacts, AloneTypes
<1>1. \A x \in Prof : Plans(todo', b, x) => Plans(todo, b, x)
  BY <1>0, LessPlans DEF ConnTimeout
<1>2. UNCHANGED <<profs, later, pconn, pdisc>>
  BY DEF ConnTimeout, tableVars
<1>3. sdp'[b] \subseteq sdp[b]
  <2>1. UNCHANGED sdp \/ \E a : StopSearch(a)
    BY DEF ConnTimeout
  <2> QED
    BY <1>0, <2>1 DEF StopSearch
<1>4. /\ Current(b)' <=> Current(b)
      /\ Current(b) => act'.doing = act.doing /\ running' = running
  <2>1. CASE ~act.valid
    BY <2>1 DEF ConnTimeout, Current
  <2>2. CASE act.valid
    <3>1. running' = running /\ (act' = act \/ act' = [act EXCEPT !.plan = {}])
      BY <1>0, <2>2 DEF ConnTimeout
    <3>2. act'.valid = act.valid /\ act'.addr = act.addr /\ act'.doing = act.doing
      BY <1>0, <2>2, <3>1, AloneTypes DEF ActiveNode
    <3> QED
      BY <3>1, <3>2 DEF Current
  <2> QED
    BY <2>1, <2>2
<1> QED
  BY <1>0, <1>1, <1>2, <1>3, <1>4, LessSearches DEF SearchesLess, SearchFits

LEMMA TimersSearches ==
  ASSUME SearchInv, TimerFires, NEW b \in Addr
  PROVE  SearchFits(b)'
<1>0. /\ SearchFits(b) /\ AloneInv /\ ~delay /\ ind = {} /\ TableFits(b)
      /\ pdisc[b] = {}
  BY SearchFacts, AloneFacts DEF SearchFits
<1>1. CASE Tick
  BY <1>0, <1>1, LessSearches DEF Tick, SearchesLess, Current, tableVars, stackVars
<1>2. CASE LinkbackTimerFires
  <2>1. mode = "linkback"
    BY <1>0, <1>2 DEF LinkbackTimerFires, AloneInv, EInv, QuietOutsideSession
  <2> QED
    BY <1>2, <2>1, ConnTimeoutSearches DEF LinkbackTimerFires
<1>3. ~DelayTimerFires /\ \A a : ~IndTimerFires(a)
  BY <1>0 DEF DelayTimerFires, IndTimerFires
<1>4. ASSUME NEW a \in Addr, LaterAvrcpFires(a)
      PROVE  SearchFits(b)'
  <2>0. /\ ~running /\ a \in later /\ later' = later \ {a}
        /\ UNCHANGED <<mode, running, profs, sdp, pdisc>>
    BY <1>4 DEF LaterAvrcpFires
  <2>1. "AVRCP" \in Prof
    BY <1>0, <2>0 DEF AloneInv, EInv, RestOK
  <2>2. CASE Current(a)
    <3>1. /\ act' = ProfsAdd(act, {"AVRCP"}) /\ UNCHANGED <<todo, pconn>>
          /\ act \in ActiveNode
      BY <1>0, <1>4, <2>2, AloneTypes DEF LaterAvrcpFires, MoreProfs, Current
    <3>2. act'.valid /\ act'.addr = act.addr /\ act'.doing = act.doing
      BY <3>1 DEF ProfsAdd, ActiveNode
    <3>3. Current(b)' <=> Current(b)
      BY <2>2, <3>2 DEF Current
    <3> QED
      BY <1>0, <2>0, <3>1, <3>2, <3>3, LessSearches DEF SearchesLess
  <2>3. CASE b # a /\ ~Current(a)
    <3>1. /\ act' = act /\ pconn'[b] = pconn[b]
          /\ todo' = todo \/ todo' = InsertForce(todo, ForceNode(a, {"AVRCP"}))
      BY <1>0, <1>4, <2>3, AloneTypes DEF LaterAvrcpFires
    <3>2. \A x \in Prof : Plans(todo', b, x) => Plans(todo, b, x)
      <4> DEFINE n == ForceNode(a, {"AVRCP"})
      <4>1. n \in Node /\ n.addr = a
        BY <2>1, TimeoutNat, ANodeType DEF ForceNode
      <4>2. todo' = todo \/ todo' = InsertForce(todo, n)
        BY <3>1
      <4> HIDE DEF n
      <4> QED
        BY <1>0, <2>3, <4>1, <4>2, InsertPlans, AloneTypes
    <3> QED
      BY <1>0, <2>0, <3>1, <3>2, LessSearches DEF SearchesLess, Current
  <2>4. CASE b = a /\ ~Current(a)
    <3>1. sdp[b] = {} /\ "A2DP" \in profs[b]
      BY <1>0, <2>0, <2>4 DEF SearchFits
    <3> QED
      BY <1>0, <2>0, <3>1, NoSearches
  <2> QED
    BY <2>2, <2>3, <2>4
<1> QED
  BY <1>1, <1>2, <1>3, <1>4 DEF TimerFires

\* Pages, and what becomes of them.
LEMMA PagesSearches ==
  ASSUME SearchInv, Alone, NEW a \in Addr, NEW b \in Addr,
         \/ PageSuc(a) \/ PageFail(a) \/ PageFailExist(a) \/ PageFailBusy(a)
         \/ IncomingUp(a) \/ IncomingFails(a) \/ Incoming(a)
  PROVE  SearchFits(b)'
<1>0. /\ SearchFits(b) /\ AloneInv /\ sdp \in [Addr -> SUBSET Prof] /\ pdisc[b] = {}
      /\ inc = {} /\ (page[a] # "no" => link[a] = "down" /\ Current(a))
  BY SearchFacts, AloneFacts DEF SearchFits
<1>1. PageSuc(a) \/ PageFail(a)
  BY <1>0 DEF PageFailExist, PageFailBusy, IncomingUp, IncomingFails, Incoming,
              Disturb, Alone, Calm
<1>2. ~running /\ Current(a) /\ link[a] = "down" /\ mode = "linkback"
  BY <1>0, <1>1, AloneFacts DEF PageSuc, PageFail
<1>3. a \notin later /\ pconn[a] = {}
  BY <1>0, <1>2, AloneFacts
<1>4. CASE PageSuc(a)
  <2>1. UNCHANGED <<running, todo, act, profs, later, pconn, pdisc, sdp>>
    BY <1>4 DEF PageSuc, LinkUp, engVars, nodeVars
  <2> QED
    BY <1>0, <2>1, LessSearches DEF SearchesLess, Current
<1>5. CASE PageFail(a)
  <2>1. /\ UNCHANGED <<profs, later, pconn, pdisc>>
        /\ sdp' = [sdp EXCEPT ![a] = {}]
        /\ \/ todo' = todo /\ act' \in {NoNode, ConnFailAdjust(act)}
           \/ todo' = UseLeftTime(TRUE) /\ act' = NoNode
    BY <1>2, <1>5 DEF PageFail, PageEnds, ConnFailHandler, tableVars, StopSearch
  <2>2. CASE b # a
    <3>1. \A x \in Prof : Plans(todo', b, x) => Plans(todo, b, x)
      BY <1>0, <1>2, <2>1, <2>2, UseLeftTimePlans DEF AloneInv, Current
    <3>2. ~Current(b) /\ ~Current(b)'
      <4>1. act \in ActiveNode /\ act.addr = a
        BY <1>0, <1>2, AloneTypes DEF Current
      <4>2. ~NoNode.valid /\ ConnFailAdjust(act).addr = a
        BY <4>1 DEF NoNode, ConnFailAdjust, Reload, ActiveNode
      <4> QED
        BY <2>1, <2>2, <4>1, <4>2 DEF Current
    <3>3. sdp'[b] = sdp[b]
      BY <1>0, <2>1, <2>2
    <3> QED
      BY <1>0, <2>1, <3>1, <3>2, <3>3, LessSearches DEF SearchesLess
  <2>3. CASE b = a
    BY <1>0, <1>3, <2>1, <2>3, NoSearches DEF LeftOver
  <2> QED
    BY <2>2, <2>3
<1> QED
  BY <1>1, <1>4, <1>5

\* Links that end, and links that are authenticated.
LEMMA LinksSearches ==
  ASSUME SearchInv, NEW a \in Addr, NEW b \in Addr,
         AuthSuc(a) \/ DisconnNormal(a) \/ DisconnLost(a)
  PROVE  SearchFits(b)'
<1>0. /\ SearchFits(b) /\ AloneInv /\ sdp \in [Addr -> SUBSET Prof] /\ pdisc[b] = {}
  BY SearchFacts DEF SearchFits
<1>1. CASE AuthSuc(a)
  <2>1. CASE ConnTimeout /\ mode = "linkback"
    BY <1>1, <2>1, ConnTimeoutSearches DEF AuthSuc
  <2>2. CASE UNCHANGED <<engVars, sdp, page, link, inc, pconn, pdisc>>
    BY <1>0, <1>1, <2>2, LessSearches
       DEF AuthSuc, SearchesLess, Current, engVars, nodeVars, tableVars
  <2> QED
    BY <1>1, <2>1, <2>2 DEF AuthSuc
<1>2. CASE DisconnNormal(a) \/ DisconnLost(a)
  <2>1. LinkGone(a) /\ ~running
    BY <1>2 DEF DisconnNormal, DisconnLost
  <2>2. CASE b = a
    <3>1. /\ sdp'[b] = {} /\ pconn'[b] = {} /\ pdisc'[b] = {} /\ b \notin later'
      BY <1>0, <2>1, <2>2, AloneTypes DEF LinkGone
    <3> QED
      BY <3>1, NoSearches DEF LeftOver
  <2>3. CASE b # a
    <3>1. /\ sdp'[b] = sdp[b] /\ pconn'[b] = pconn[b] /\ profs'[b] = profs[b]
          /\ pdisc'[b] = pdisc[b] /\ (b \in later' => b \in later)
      BY <1>0, <2>1, <2>3, AloneTypes DEF LinkGone
    <3>2. \/ UNCHANGED <<act, running>>
          \/ Current(a) /\ act' = [act EXCEPT !.exit = TRUE]
          \/ ~act.valid /\ UNCHANGED act
      BY <1>0, <1>2, AloneTypes DEF DisconnNormal, DisconnLost, ExitNode
    <3>3. /\ Current(b)' <=> Current(b)
          /\ Current(b) => UNCHANGED <<act, running>>
      <4>1. CASE Current(a) /\ act' = [act EXCEPT !.exit = TRUE]
        <5>1. act \in ActiveNode /\ act.addr = a
          BY <1>0, <4>1, AloneTypes DEF Current
        <5> QED
          BY <2>3, <4>1, <5>1 DEF Current, ActiveNode
      <4> QED
        BY <3>2, <4>1 DEF Current
    <3>4. \A x \in Prof : Plans(todo', b, x) => Plans(todo, b, x)
      <4> DEFINE n == ANode(a, BondPlan[a], LossTimeout, FALSE, FALSE)
      <4>1. n \in Node /\ n.addr = a
        BY EngineAssumption, TimeoutNat, ANodeType
      <4>2. todo' = todo \/ todo' = InsertNormal(todo, n)
        BY <1>2 DEF DisconnNormal, DisconnLost
      <4> HIDE DEF n
      <4> QED
        BY <1>0, <2>3, <4>1, <4>2, InsertPlans, AloneTypes
    <3> QED
      BY <1>0, <3>1, <3>3, <3>4, LessSearches DEF SearchesLess
  <2> QED
    BY <2>2, <2>3
<1> QED
  BY <1>1, <1>2

\* What the searches find: the one that ends is the only one of the node.
LEMMA FoundSearches ==
  ASSUME SearchInv, NEW a \in Addr, NEW b \in Addr,
         SdpAttr(a) \/ \E p \in Prof : SdpCmpl(a, p)
  PROVE  SearchFits(b)'
<1>0. /\ SearchFits(b) /\ AloneInv /\ sdp \in [Addr -> SUBSET Prof] /\ pdisc[b] = {}
      /\ SearchFits(a) /\ NodeFits(b) /\ pconn[b] \subseteq Prof
  BY SearchFacts, AloneFacts DEF SearchFits
<1>1. CASE SdpAttr(a)
  <2>1. act \in ActiveNode /\ act' = [act EXCEPT !.sdpOk = TRUE]
    BY <1>0, <1>1, AloneTypes DEF SdpAttr, Current
  <2>2. act'.valid = act.valid /\ act'.addr = act.addr /\ act'.doing = act.doing
    BY <2>1 DEF ActiveNode
  <2> QED
    BY <1>0, <1>1, <2>2, LessSearches
       DEF SdpAttr, SearchesLess, Current, tableVars, stackVars
<1>2. ASSUME NEW p \in Prof, SdpCmpl(a, p)
      PROVE  SearchFits(b)'
  <2>0. /\ ~running /\ p \in sdp[a] /\ sdp' = [sdp EXCEPT ![a] = @ \ {p}]
        /\ UNCHANGED <<mode, todo, profs, later, pdisc>>
    BY <1>2 DEF SdpCmpl, tableVars
  <2>1. sdp'[b] \subseteq sdp[b]
    BY <1>0, <2>0
  <2>2. CASE ~(mode = "linkback" /\ Current(a) /\ a \in tracked)
    <3>1. UNCHANGED <<act, running, pconn>>
      BY <1>2, <2>2 DEF SdpCmpl
    <3> QED
      BY <1>0, <2>0, <2>1, <3>1, LessSearches DEF SearchesLess, Current
  <2>3. CASE mode = "linkback" /\ Current(a) /\ a \in tracked
    <3>0. act \in ActiveNode /\ act.doing \in Prof /\ act.addr = a
      BY <1>0, <2>0, <2>3, AloneTypes DEF Current
    <3>1. /\ act' \in {act, StepSuc(act), StepFail(act)}
          /\ pconn' = pconn \/ pconn' = [pconn EXCEPT ![a] = @ \cup {act.doing}]
          /\ act' = act \/ act.doing = "PBAP" \/ pconn' = pconn
      BY <1>2 DEF SdpCmpl
    <3>2. CASE b # a
      <4>1. ~Current(b) /\ ~Current(b)' /\ pconn'[b] = pconn[b]
        BY <1>0, <2>3, <3>0, <3>1, <3>2, StepWants, AloneTypes DEF Current
      <4> QED
        BY <1>0, <2>0, <2>1, <3>2, <4>1, LessSearches DEF SearchesLess
    <3>3. CASE b = a
      <4>1. p = act.doing /\ sdp[b] = {p} /\ act.doing \notin pconn[b]
        BY <1>0, <2>0, <2>3, <3>3 DEF SearchFits
      <4>2. sdp'[b] = {}
        BY <1>0, <2>0, <3>3, <4>1
      <4>3. LeftOver(b)' => LeftOver(b)
        <5>1. "AVRCP" \in pconn'[b] => "AVRCP" \in pconn[b] \/ act.doing = "AVRCP"
          BY <1>0, <3>1, <3>3, AloneTypes
        <5>2. CASE act' = act
          <6>1. Current(b) /\ (Current(b)' <=> Current(b))
            BY <2>3, <3>3, <5>2 DEF Current
          <6>2. act'.doing = act.doing
            BY <5>2
          <6>3. SUFFICES ASSUME LeftOver(b)' PROVE LeftOver(b)
            OBVIOUS
          <6>4. "AVRCP" \in pconn'[b] /\ act.doing # "AVRCP"
            BY <6>1, <6>2, <6>3 DEF LeftOver
          <6> QED
            BY <5>1, <6>4 DEF LeftOver
        <5>3. CASE act.doing = "PBAP" \/ pconn' = pconn
          BY <4>1, <5>1, <5>3 DEF LeftOver
        <5> QED
          BY <3>1, <5>2, <5>3
      <4> QED
        BY <1>0, <2>0, <4>2, <4>3, NoSearches DEF SearchFits
    <3> QED
      BY <3>2, <3>3
  <2> QED
    BY <2>2, <2>3
<1> QED
  BY <1>1, <1>2

\* Profiles that fail; none is disconnected.
LEMMA ProfEndsSearches ==
  ASSUME SearchInv, Alone, NEW a \in Addr, NEW b \in Addr, NEW p \in Prof,
         \/ ProfFail(a, p) \/ ProfFailSecurity(a, p) \/ ProfFailNoResource(a, p)
         \/ ProfDisconnected(a, p)
  PROVE  SearchFits(b)'
<1>0. /\ SearchFits(b) /\ AloneInv /\ pdisc[b] = {} /\ pdisc[a] = {}
      /\ SearchFits(a) /\ NodeFits(a)
  BY SearchFacts, AloneFacts DEF SearchFits
<1>1. ~ProfFailNoResource(a, p) /\ ~ProfDisconnected(a, p)
  BY <1>0 DEF ProfFailNoResource, ProfDisconnected, Disturb, Alone, Calm
<1>2. CASE ProfFail(a, p)
  <2>0. /\ ~running /\ p \in pconn[a]
        /\ pconn' = [pconn EXCEPT ![a] = @ \ {p}]
        /\ UNCHANGED <<mode, todo, profs, later, sdp, pdisc>>
    BY <1>2 DEF ProfFail, tableVars
  <2>1. pconn'[b] = IF b = a THEN pconn[b] \ {p} ELSE pconn[b]
    BY <1>0, <2>0, AloneTypes
  <2>2. CASE UNCHANGED <<act, running>>
    BY <1>0, <2>0, <2>1, <2>2, LessSearches DEF SearchesLess, Current
  <2>3. CASE /\ Current(a) /\ act.doing = p
             /\ act' = StepFail(act) /\ running'
    <3>0. act \in ActiveNode /\ act.addr = a /\ act'.addr = a
      BY <1>0, <2>3, StepWants, AloneTypes DEF Current
    <3>2. CASE b # a
      <4>1. ~Current(b) /\ ~Current(b)'
        BY <3>0, <3>2 DEF Current
      <4> QED
        BY <1>0, <2>0, <2>1, <3>2, <4>1, LessSearches DEF SearchesLess
    <3>3. CASE b = a
      <4>1. sdp'[b] = {}
        BY <1>0, <2>0, <2>3, <3>3 DEF SearchFits
      <4>2. LeftOver(b)' => LeftOver(b)
        BY <2>1, <2>3, <3>3 DEF LeftOver
      <4> QED
        BY <1>0, <2>0, <4>1, <4>2, NoSearches DEF SearchFits
    <3> QED
      BY <3>2, <3>3
  <2> QED
    BY <1>2, <2>2, <2>3 DEF ProfFail
<1>3. CASE ProfFailSecurity(a, p)
  <2>0. /\ pconn' = [pconn EXCEPT ![a] = @ \ {p}]
        /\ UNCHANGED <<running, act, todo, profs, later, sdp, pdisc>>
    BY <1>3 DEF ProfFailSecurity, engVars, nodeVars, tableVars
  <2>1. pconn'[b] \subseteq pconn[b]
    BY <1>0, <2>0, AloneTypes
  <2> QED
    BY <1>0, <2>0, <2>1, LessSearches DEF SearchesLess, Current
<1> QED
  BY <1>1, <1>2, <1>3

\* A profile is connected: the first one of a device may start a search of DID,
\* on a link where nothing else is under way.
LEMMA ProfConnectedSearches ==
  ASSUME SearchInv, Alone, NEW a \in Addr, NEW b \in Addr, NEW p \in Prof,
         ProfConnected(a, p)
  PROVE  SearchFits(b)'
<1> DEFINE first == profs[a] = {}
           act1  == IF first /\ Current(a) THEN ProfsAdd(act, {"DID"}) ELSE act
           done  == Current(a) /\ act.doing = p /\ act.sdpOk
<1>0. /\ SearchFits(b) /\ SearchFits(a) /\ AloneInv /\ pdisc[b] = {}
      /\ sdp \in [Addr -> SUBSET Prof] /\ NodeFits(a) /\ TableFits(a)
      /\ (Current(a) => mode = "linkback")
      /\ (mode = "stable" => todo = <<>>)
  BY SearchFacts, AloneFacts DEF SearchFits, SearchInv, Drained
<1>1. ~running /\ p \in pconn[a] /\ ProfSuc(a, p)
  BY DEF ProfConnected, Disturb, Alone
<1>2. a \in tracked
  BY <1>0, <1>1 DEF TableFits
<1>3. (mode = "linkback" /\ Current(a)) <=> Current(a)
  BY <1>0
<1>4. /\ pconn' = [pconn EXCEPT ![a] = @ \ {p}]
      /\ profs' = [profs EXCEPT ![a] = @ \cup {p}]
      /\ later' = IF p = "A2DP" /\ "AVRCP" \in Prof \ profs[a]
                     /\ closeAfter[a] = {}
                  THEN later \cup {a}
                  ELSE IF p = "AVRCP" THEN later \ {a} ELSE later
      /\ act' = IF done THEN StepSuc(act1) ELSE act1
      /\ running' = done
      /\ todo' = IF first /\ mode = "linkback" /\ ~Current(a)
                 THEN InsertForce(todo, ForceNode(a, {"DID"})) ELSE todo
      /\ sdp' = IF first /\ mode = "stable"
                THEN [sdp EXCEPT ![a] = @ \cup {"DID"}] ELSE sdp
      /\ pdisc' = pdisc
  BY <1>1, <1>2, <1>3 DEF ProfSuc
<1>5. Current(a) =>
        /\ act1 \in ActiveNode /\ act1.addr = a
        /\ act1.doing = act.doing /\ act1.valid
  <2>1. CASE Current(a)
    <3>1. act \in ActiveNode /\ act.addr = a
      BY <1>0, <2>1, AloneTypes DEF Current
    <3>2. ProfsAdd(act, {"DID"}) \in ActiveNode
      BY <3>1, TimeoutNat, ProfAssumption DEF ProfsAdd, ActiveNode
    <3>3. /\ ProfsAdd(act, {"DID"}).valid /\ ProfsAdd(act, {"DID"}).addr = a
          /\ ProfsAdd(act, {"DID"}).doing = act.doing
      BY <3>1 DEF ProfsAdd, ActiveNode
    <3> QED
      BY <2>1, <3>1, <3>2, <3>3 DEF Current
  <2> QED
    BY <2>1
<1> HIDE DEF act1
<1>6. Current(a) => /\ act'.valid /\ act'.addr = a
                    /\ ~done => act'.doing = act.doing
  BY <1>4, <1>5, StepWants, ProfAssumption
<1>7. ~Current(a) => act' = act /\ ~running'
  BY <1>4 DEF act1
<1>8. Current(b)' <=> Current(b)
  BY <1>6, <1>7 DEF Current
<1>9. \A x \in Prof : Plans(todo', b, x) =>
        Plans(todo, b, x) \/ (b = a /\ ~Current(a) /\ mode = "linkback")
  <2> DEFINE n == ForceNode(a, {"DID"})
  <2>1. n \in Node /\ n.addr = a
    BY TimeoutNat, ANodeType, ProfAssumption DEF ForceNode
  <2>2. \/ todo' = todo
        \/ ~Current(a) /\ mode = "linkback" /\ todo' = InsertForce(todo, n)
    BY <1>4
  <2> HIDE DEF n
  <2> QED
    BY <1>0, <2>1, <2>2, InsertPlans, AloneTypes
<1>10. CASE b # a
  <2>1. /\ pconn'[b] = pconn[b] /\ profs'[b] = profs[b] /\ sdp'[b] = sdp[b]
        /\ (b \in later' => b \in later)
    BY <1>0, <1>4, <1>10, AloneTypes
  <2>2. Current(b) => act' = act /\ running' = running
    <3>1. SUFFICES ASSUME Current(b) PROVE act' = act /\ running' = running
      OBVIOUS
    <3>2. ~Current(a)
      BY <1>10, <3>1 DEF Current
    <3>3. act' = act /\ ~running' /\ ~running
      BY <1>1, <1>7, <3>2
    <3>4. running \in BOOLEAN /\ running' \in BOOLEAN
      BY <1>0, <1>4, AloneTypes
    <3> QED
      BY <3>3, <3>4
  <2> QED
    BY <1>0, <1>4, <1>8, <1>9, <1>10, <2>1, <2>2, LessSearches DEF SearchesLess
<1>11. CASE b = a
  <2>1. /\ pconn'[b] = pconn[b] \ {p} /\ profs'[b] = profs[b] \cup {p}
        /\ b \in later' => b \in later \/ p = "A2DP"
    BY <1>0, <1>4, <1>11, AloneTypes
  <2>2. p \in {"PBAP", "AVRCP"} \/ done
    BY <1>0, <1>1, <1>11, AloneTypes DEF TableFits, NodeFits, Wants, Current
  <2>3. LeftOver(b)' => LeftOver(b)
    <3>1. CASE done
      BY <1>11, <2>1, <3>1 DEF LeftOver
    <3>2. CASE ~done
      BY <1>6, <1>7, <1>8, <1>11, <2>1, <3>2 DEF LeftOver, Current
    <3> QED
      BY <3>1, <3>2
  <2>4. b \in later' \/ LeftOver(b)' => "A2DP" \in profs'[b]
    BY <1>0, <2>1, <2>3 DEF SearchFits
  <2>5. CASE Current(b) /\ done
    <3>1. sdp[b] = {} /\ mode # "stable"
      BY <1>0, <1>1, <1>11, <2>5 DEF SearchFits
    <3> QED
      BY <1>0, <1>4, <1>11, <2>4, <3>1, NoSearches
  <2>6. CASE Current(b) /\ ~done
    <3>1. /\ sdp' = sdp /\ ~running' /\ act'.doing = act.doing
          /\ \A x \in Prof : Plans(todo', b, x) => Plans(todo, b, x)
      BY <1>0, <1>4, <1>6, <1>9, <1>11, <2>6
    <3>2. b \in later' => b \in later
      BY <1>4, <1>11, <2>2, <2>6
    <3>3. running' = running
      <4>1. running \in BOOLEAN /\ running' = FALSE
        BY <1>0, <1>4, <2>6, AloneTypes
      <4> QED
        BY <1>1, <4>1
    <3>4. pconn'[b] \subseteq pconn[b] /\ sdp'[b] = sdp[b] /\ profs[b] \subseteq profs'[b]
      BY <2>1, <3>1
    <3> QED
      BY <3>3, <3>4, <1>0, <1>1, <1>4, <1>8, <2>1, <3>1, <3>2, LessSearches DEF SearchesLess
  <2>7. CASE ~Current(b)
    <3>1. sdp[b] = {}
      BY <1>0, <1>1, <1>11, <2>7 DEF SearchFits
    <3>2. CASE ~(first /\ mode = "stable")
      BY <1>0, <1>4, <1>11, <2>4, <3>1, <3>2, NoSearches
    <3>3. CASE first /\ mode = "stable"
      \* Without A2DP nothing but PBAP is on its way.
      <4>1. b \notin later /\ ~LeftOver(b)
        BY <1>0, <1>11, <3>3 DEF SearchFits
      <4>2. pconn'[b] = {} /\ b \notin later'
        BY <1>0, <1>1, <1>4, <1>11, <2>1, <2>2, <2>7, <4>1 DEF TableFits, LeftOver
      <4>3. todo' = <<>> /\ \A x : ~Plans(todo', b, x)
        <5>1. todo' = <<>>
          BY <1>0, <1>4, <3>3
        <5>2. DOMAIN <<>> = {}
          OBVIOUS
        <5> QED
          BY <5>1, <5>2 DEF Plans
      <4>4. ~Current(b)'
        BY <1>8, <2>7
      <4> QED
        BY <1>0, <1>4, <2>4, <4>2, <4>3, <4>4 DEF SearchFits, Plans
    <3> QED
      BY <3>2, <3>3
  <2> QED
    BY <2>5, <2>6, <2>7
<1> QED
  BY <1>10, <1>11

LEMMA NextSearch ==
  ASSUME Alone, "disconnect" \notin Inputs, SearchInv, [Next]_vars
  PROVE  SearchInv'
<1>0. AloneInv /\ \A b \in Addr : AskedOnce(b) /\ SearchFits(b)
  BY SearchFacts DEF SearchInv
<1>1. AloneInv' /\ Drained'
  BY <1>0, NextAlone, NextDrained
<1>2. ASSUME NEW b \in Addr PROVE SearchFits(b)'
  <2>1. CASE UNCHANGED vars
    BY <1>0, <2>1, LessSearches
       DEF SearchFits, SearchesLess, Current, vars, engVars, nodeVars, tableVars,
           stackVars
  <2>2. ASSUME NEW a \in Addr, StackAnswer(a) \/ Incoming(a) \/ DisconnLost(a)
        PROVE  SearchFits(b)'
    BY <2>2, PagesSearches, LinksSearches, FoundSearches, ProfConnectedSearches,
       ProfEndsSearches DEF StackAnswer
  <2>3. CASE Command
    <3>1. ~Restore
      BY <1>0 DEF Restore, AloneInv, ModeFits
    <3>2. Startup
      BY <2>3, <3>1 DEF Command, Stop, Connect, Disconnect, Disturb, Alone
    <3> QED
      BY <3>2, StartupSearches
  <2> QED
    BY <2>1, <2>2, <2>3, RunSearches, TimersSearches DEF Next
<1> QED
  BY <1>1, <1>2 DEF SearchInv

\* While nobody but the headset connects or disconnects anything, the search
\* under way for the active node is the one for its current profile, so that its
\* result (EVENT_PROFILE_SDP_DISCOV_CMPL) is credited to the profile it is about:
\* no search outlives the page, the link or the turn it was started for.
THEOREM EngineSearchIsCurrent ==
  ASSUME Alone, "disconnect" \notin Inputs
  PROVE  Spec => []SearchIsCurrent
<1>1. Init => SearchInv
  <2> SUFFICES ASSUME Init PROVE SearchInv
    OBVIOUS
  <2>1. DOMAIN <<>> = {} /\ ~NoNode.valid
    BY DEF NoNode
  <2>2. Drained
    BY <2>1 DEF Init, Drained, Planned
  <2>3. \A b \in Addr : SearchFits(b)
    BY <2>1 DEF Init, SearchFits, Plans, LeftOver, Current
  <2> QED
    BY <2>2, <2>3, InitAlone DEF SearchInv
<1>2. SearchInv /\ [Next]_vars => SearchInv'
  BY NextSearch
<1>3. SearchInv => SearchIsCurrent
  <2> SUFFICES ASSUME SearchInv, mode = "linkback", ~running, act.valid
               PROVE  sdp[act.addr] \subseteq {act.doing}
    BY DEF SearchIsCurrent
  <2>1. act.addr \in Addr
    BY AloneTypes DEF SearchInv
  <2> QED
    BY <2>1, SearchFacts DEF SearchFits, Current
<1> QED
  BY <1>1, <1>2, <1>3, PTL DEF Spec

=============================================================================
