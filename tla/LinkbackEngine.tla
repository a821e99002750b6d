--------------------------- MODULE LinkbackEngine ---------------------------
(***************************************************************************)
(* The connection engine of the headset while it reconnects to the phones   *)
(* it knows (app_bt_policy.c with the active node of app_linkback.c).  It   *)
(* takes the devices of the to-do queue one by one, pages each, searches    *)
(* and connects its profiles in a fixed order, and gives each node, or the  *)
(* whole group loaded at power on, a limited time.                          *)
(*                                                                         *)
(* The engine runs in one task: a step below is the handling of one message *)
(* (a stack event, a timer, a command), except that the RETRY loop of       *)
(* app_bt_policy_linkback_run is one step per turn, with `running' keeping  *)
(* every other message out until it exits.  The Bluetooth stack is          *)
(* external: it answers requests late, in any order between devices, and    *)
(* may report that a link came up or went down at any time.                 *)
(***************************************************************************)
EXTENDS LinkbackNodes

CONSTANTS
  BondList,         \* the bonded devices to load, in priority order
  BondPlan,         \* the profiles each bonded device's flags ask for
  Lea,              \* the devices whose last mode was LE audio
  MaxLink,          \* the entries of the BR link table (MAX_BR_LINK_NUM)
  Sass,             \* gfps_sass_support is configured
  LinkbackTimeout,  \* timer_linkback_timeout, in ticks
  LossTimeout,      \* timer_link_back_loss, in ticks
  Inputs,           \* the kinds of disturbance a run allows
  Budget            \* how many disturbances a run allows (bound)

ASSUME EngineAssumption ==
  /\ BondPlan \in [Addr -> SUBSET Prof]
  /\ BondList \in Seq(Addr) /\ Len(BondList) <= QueueMax
  /\ \A i, j \in DOMAIN BondList : BondList[i] = BondList[j] => i = j
  /\ \A i \in DOMAIN BondList : BondPlan[BondList[i]] # {}
  /\ Lea \subseteq Addr
  /\ MaxLink \in Nat \ {0} /\ Sass \in BOOLEAN
  /\ Timeout \subseteq Nat /\ \A t \in Timeout : 0 .. t \subseteq Timeout
  /\ {LinkbackTimeout, 2 * LinkbackTimeout, LossTimeout} \subseteq Timeout
  /\ Budget \in Nat

\* The order in which the profiles of a node are connected, and the profile
\* that is given up together with another.
ProfOrder ==
  <<"A2DP", "DID", "AVRCP", "HFP", "HSP", "SPP", "IAP", "HID", "PBAP">>

ProfRelation == {<<"A2DP", "AVRCP">>, <<"HFP", "PBAP">>, <<"HSP", "PBAP">>}

NoProf == "none"

ASSUME ProfAssumption ==
  /\ Prof \subseteq {ProfOrder[i] : i \in DOMAIN ProfOrder}
  /\ "DID" \in Prof

VARIABLES
  \* the engine
  mode,        \* cur_state: "startup", "linkback", "stable" (connected,
               \* standby or pairing mode) or "stop"
  running,     \* inside app_bt_policy_linkback_run
  todo,        \* the to-do queue
  act,         \* linkback_active_node
  used,        \* the ticks since its gtiming
  timer,       \* timer_idx_linkback: 0 when off, else the ticks left plus one
  delay,       \* timer_idx_linkback_delay is running
  afterStop,   \* after_stop_sdp_todo_linkback_run_flag
  \* the link table and what hangs on it
  tracked,     \* the devices with an entry in app_db.br_link
  profs,       \* connected_profile
  later,       \* the devices whose timer_idx_later_avrcp is running
  closeAfter,  \* disconn_acl_flg with plan_disconnect_profs, {} when not set
  ind,         \* the devices in src_conn_ind with a running timer
  \* the stack (external)
  link,        \* the ACL link: "down", "up" or "closing"
  page,        \* our page: "no", "yes" or "cancel"
  inc,         \* the devices whose incoming connection was accepted
  auth,        \* the devices whose link is authenticated
  sdp,         \* the searches under way
  pconn,       \* the profile connections under way
  pdisc,       \* the profile disconnections asked for
  budget       \* the disturbances left

nodeVars  == <<todo, act, used, timer, delay, afterStop>>
engVars   == <<mode, running, nodeVars>>
tableVars == <<tracked, profs, later, closeAfter, ind>>
stackVars == <<link, page, inc, auth, sdp, pconn, pdisc>>
vars      == <<engVars, tableVars, stackVars, budget>>

-----------------------------------------------------------------------------
(* The active node.                                                         *)

\* Nothing reads an invalid active node before the next one is loaded over
\* it, so the model keeps one value for all of them.
NoNode == [valid |-> FALSE]

ActiveNode ==
  [valid : {TRUE}, exit : BOOLEAN, addr : Addr, plan : SUBSET Prof,
   remain : SUBSET Prof, doing : Prof \cup {NoProf}, sdpOk : BOOLEAN,
   retry : 0 .. 2, force : BOOLEAN, group : BOOLEAN, tmo : Timeout]

Active == {NoNode} \cup ActiveNode

FirstProf(ps) ==
  IF ps = {} THEN NoProf
  ELSE ProfOrder[CHOOSE i \in DOMAIN ProfOrder :
                   /\ ProfOrder[i] \in ps
                   /\ \A k \in 1 .. i - 1 : ProfOrder[k] \notin ps]

Load(n) ==
  [valid |-> TRUE, exit |-> FALSE, addr |-> n.addr, plan |-> n.plan,
   remain |-> n.plan, doing |-> FirstProf(n.plan), sdpOk |-> FALSE,
   retry |-> 0, force |-> n.force, group |-> n.group, tmo |-> n.tmo]

\* Restart the profile steps with the profiles rs.
Reload(a, rs) ==
  [a EXCEPT !.remain = rs, !.doing = FirstProf(rs), !.sdpOk = FALSE,
            !.retry = 0]

\* (Slip: the profile is kept.)
StepSucKeeps(a) == Reload(a, a.remain)

StepSuc(a) == Reload(a, a.remain \ {a.doing})

\* (Slip, for the checks: one failure too many is allowed.)
StepFailLate(a) ==
  IF a.retry < 3 THEN [a EXCEPT !.retry = @ + 1, !.sdpOk = FALSE]
  ELSE Reload(a, a.remain \ {a.doing})

\* The third failure gives the profile up, and the one related to it.
StepFail(a) ==
  IF a.retry < 2 THEN [a EXCEPT !.retry = @ + 1, !.sdpOk = FALSE]
  ELSE Reload(a, a.remain \ ({a.doing} \cup
                             {r[2] : r \in {x \in ProfRelation : x[1] = a.doing}}))

ConnFailAdjust(a) == Reload(a, a.plan)

\* (Slip: the node keeps its limit.)
ProfsAddKeepsLimit(a, ps) ==
  [a EXCEPT !.plan = @ \cup ps, !.remain = @ \cup ps]

ProfsAdd(a, ps) ==
  [a EXCEPT !.plan = @ \cup ps, !.remain = @ \cup ps,
            !.tmo = LinkbackTimeout, !.group = FALSE]

\* (Slip: the node turns to the most important of the profiles left.)
ProfsSubReload(a, ps) ==
  [Reload(a, a.remain \ ps) EXCEPT !.plan = @ \ ps]

ProfsSub(a, ps) == [a EXCEPT !.plan = @ \ ps, !.remain = @ \ ps]

Current(a) == act.valid /\ act.addr = a

ANode(a, ps, t, force, group) ==
  [addr |-> a, plan |-> ps, force |-> force, group |-> group, tmo |-> t]

\* (Slips: the rest of the group keeps its old budget; the budget is renewed.)
UseLeftTimeAlone(isNormal) ==
  LET n == ANode(act.addr, act.plan, act.tmo - used, ~isNormal, act.group)
  IN  IF used < act.tmo
      THEN IF isNormal THEN InsertNormal(todo, n) ELSE InsertForce(todo, n)
      ELSE IF act.group THEN WithoutGroup(todo) ELSE todo

UseLeftTimeRenewed(isNormal) ==
  LET t == 2 * LinkbackTimeout
      n == ANode(act.addr, act.plan, t, ~isNormal, act.group)
      q == IF act.group THEN SetGroupTimeout(todo, t) ELSE todo
  IN  IF isNormal THEN InsertNormal(q, n) ELSE InsertForce(q, n)

\* (Slip: a group ends though it has time left.)
UseLeftTimeEndsGroup(isNormal) == IF act.group THEN WithoutGroup(todo) ELSE todo

\* Put the active node back with the time it has left, or end its group when
\* there is none.
UseLeftTime(isNormal) ==
  LET left == act.tmo - used
      q    == IF act.group THEN SetGroupTimeout(todo, left) ELSE todo
      n    == ANode(act.addr, act.plan, left, ~isNormal, act.group)
  IN  IF used < act.tmo
      THEN IF isNormal THEN InsertNormal(q, n) ELSE InsertForce(q, n)
      ELSE IF act.group THEN WithoutGroup(todo) ELSE todo

\* The link table has no room for another BR link.
Full == Cardinality(tracked) >= MaxLink

-----------------------------------------------------------------------------
Init ==
  /\ mode = "startup" /\ running = FALSE
  /\ todo = <<>> /\ act = NoNode /\ used = 0 /\ timer = 0
  /\ delay = FALSE /\ afterStop = FALSE
  /\ tracked = {} /\ later = {} /\ ind = {}
  /\ profs = [a \in Addr |-> {}] /\ closeAfter = [a \in Addr |-> {}]
  /\ link = [a \in Addr |-> "down"] /\ page = [a \in Addr |-> "no"]
  /\ inc = {} /\ auth = {}
  /\ sdp = [a \in Addr |-> {}] /\ pconn = [a \in Addr |-> {}]
  /\ pdisc = [a \in Addr |-> {}]
  /\ budget = Budget

Disturb(kind) == kind \in Inputs /\ budget > 0 /\ budget' = budget - 1

\* gap_br_send_acl_disconn_req: a page is cancelled, a link is closed, and
\* with neither nothing happens.
AclDisconnect(a) ==
  /\ page' = [page EXCEPT ![a] = IF @ = "yes" THEN "cancel" ELSE @]
  /\ link' = [link EXCEPT ![a] = IF @ = "up" THEN "closing" ELSE @]

StopSearch(a) == sdp' = [sdp EXCEPT ![a] = {}]

-----------------------------------------------------------------------------
(* app_bt_policy_linkback_run, one turn of its RETRY loop at a time.        *)

\* (Slips: one of the timers is left running.)
FinishTimerOn ==
  /\ mode' = "stable" /\ running' = FALSE
  /\ act' = NoNode /\ timer' = timer /\ delay' = FALSE

FinishDelayOn ==
  /\ mode' = "stable" /\ running' = FALSE
  /\ act' = NoNode /\ timer' = 0 /\ delay' = delay

Finish ==
  /\ mode' = "stable" /\ running' = FALSE
  /\ act' = NoNode /\ timer' = 0 /\ delay' = FALSE

\* A node is taken; its time starts.  For a device last used over LE audio
\* the run ends here, with the timer as the only thing under way.
RunTake ==
  /\ running /\ ~act.valid /\ todo # <<>> /\ Head(todo).plan # {}
  /\ todo' = Tail(todo)
  /\ act' = Load(Head(todo))
  /\ used' = 0 /\ timer' = Head(todo).tmo + 1
  /\ running' = (Head(todo).addr \notin Lea)
  /\ UNCHANGED <<mode, delay, afterStop, tableVars, stackVars, budget>>

\* A node whose profiles were all removed is taken but not loaded, and the
\* session ends as if the queue were empty.
RunTakeEmptyPlan ==
  /\ running /\ ~act.valid /\ todo # <<>> /\ Head(todo).plan = {}
  /\ todo' = Tail(todo)
  /\ Finish
  /\ UNCHANGED <<used, afterStop, tableVars, stackVars, budget>>

\* (Slip: the session ends with its first node.)
RunFinishEarly ==
  /\ running /\ ~act.valid
  /\ Finish
  /\ UNCHANGED <<todo, used, afterStop, tableVars, stackVars, budget>>

RunFinish ==
  /\ running /\ ~act.valid /\ todo = <<>>
  /\ Finish
  /\ UNCHANGED <<todo, used, afterStop, tableVars, stackVars, budget>>

\* The node is left: its link went down, or it has nothing more to connect.
RunDrop ==
  /\ running /\ act.valid /\ (act.exit \/ act.remain = {})
  /\ act' = NoNode
  /\ UNCHANGED <<mode, running, todo, used, timer, delay, afterStop,
                 tableVars, stackVars, budget>>

ToConnect == running /\ act.valid /\ ~act.exit /\ act.remain # {}

\* The device is connecting to us at this moment: look again in a while.
RunWaitInd ==
  /\ ToConnect /\ act.addr \in ind
  /\ delay' = TRUE /\ running' = FALSE
  /\ UNCHANGED <<mode, todo, act, used, timer, afterStop,
                 tableVars, stackVars, budget>>

RunAlreadyConnected ==
  /\ ToConnect /\ act.addr \notin ind
  /\ act.addr \in tracked /\ act.doing \in profs[act.addr]
  /\ act' = StepSuc(act)
  /\ UNCHANGED <<mode, running, todo, used, timer, delay, afterStop,
                 tableVars, stackVars, budget>>

RunDropFull ==
  /\ ToConnect /\ act.addr \notin ind
  /\ act.addr \notin tracked /\ ~act.force /\ Full
  /\ act' = NoNode
  /\ UNCHANGED <<mode, running, todo, used, timer, delay, afterStop,
                 tableVars, stackVars, budget>>

ToSearch ==
  /\ ToConnect /\ act.addr \notin ind
  /\ IF act.addr \in tracked THEN act.doing \notin profs[act.addr]
     ELSE act.force \/ ~Full

\* The search is started; without a link the stack pages the device first.
RunSearch ==
  /\ ToSearch
  /\ sdp' = [sdp EXCEPT ![act.addr] = @ \cup {act.doing}]
  /\ page' = [page EXCEPT ![act.addr] =
                IF @ = "no" /\ link[act.addr] = "down" THEN "yes" ELSE @]
  /\ running' = FALSE
  /\ UNCHANGED <<mode, nodeVars, tableVars, link, inc, auth, pconn, pdisc,
                 budget>>

RunSearchRefused ==
  /\ ToSearch /\ Disturb("refuse")
  /\ act' = StepFail(act)
  /\ UNCHANGED <<mode, running, todo, used, timer, delay, afterStop,
                 tableVars, stackVars>>

Run ==
  \/ RunTake \/ RunTakeEmptyPlan \/ RunFinish \/ RunDrop \/ RunWaitInd
  \/ RunAlreadyConnected \/ RunDropFull \/ RunSearch \/ RunSearchRefused

-----------------------------------------------------------------------------
(* Commands.                                                                *)

LoadBondList ==
  LET t == IF Len(BondList) > 1 THEN 2 * LinkbackTimeout ELSE LinkbackTimeout
  IN  [i \in DOMAIN BondList |->
         ANode(BondList[i], BondPlan[BondList[i]], t, FALSE, TRUE)]

\* app_bt_policy_linkback_sched on a cleared queue and node.
LinkbackSched ==
  /\ todo' = LoadBondList /\ act' = NoNode
  /\ mode' = IF BondList = <<>> THEN "stable" ELSE "linkback"
  /\ running' = (BondList # <<>>)
  /\ timer' = IF BondList = <<>> THEN 0 ELSE timer
  /\ delay' = IF BondList = <<>> THEN FALSE ELSE delay
  /\ UNCHANGED <<used, afterStop, tableVars, stackVars>>

Startup ==
  /\ mode = "startup" /\ LinkbackSched /\ UNCHANGED budget

Restore ==
  /\ ~running /\ mode = "stop" /\ LinkbackSched /\ UNCHANGED budget

\* EVENT_STOP: what is under way is stopped and the node put back in front.
Stop ==
  /\ ~running /\ mode # "stop" /\ Disturb("stop")
  /\ mode' = "stop" /\ timer' = 0 /\ delay' = FALSE
  /\ act' = NoNode
  /\ IF act.valid
     THEN /\ todo' = UseLeftTime(FALSE)
          /\ afterStop' = FALSE
          /\ StopSearch(act.addr)
          /\ IF act.addr \in tracked THEN UNCHANGED <<page, link>>
             ELSE AclDisconnect(act.addr)
     ELSE UNCHANGED <<todo, afterStop, sdp, page, link>>
  /\ UNCHANGED <<running, used, tableVars, inc, auth, pconn, pdisc>>

\* More profiles for the active node: it leaves its group and its timer starts
\* again, while its time is counted anew only when nothing else is queued.
MoreProfs(n, ps) ==
  /\ act' = ProfsAdd(n, ps)
  /\ timer' = LinkbackTimeout + 1
  /\ used' = IF todo = <<>> THEN 0 ELSE used
  /\ UNCHANGED todo

ForceNode(a, ps) == ANode(a, ps, LinkbackTimeout, TRUE, FALSE)

\* EVENT_DEDICATED_CONNECT by a user command.
Connect(a, ps) ==
  /\ ~running /\ mode \in {"linkback", "stable"} /\ Disturb("connect")
  /\ \/ /\ mode = "linkback" /\ Current(a) /\ MoreProfs(act, ps)
        /\ UNCHANGED <<mode, running>>
     \/ /\ mode = "linkback" /\ ~Current(a)
        /\ todo' = InsertForce(todo, ForceNode(a, ps))
        /\ UNCHANGED <<mode, running, act, timer, used>>
     \/ /\ mode = "stable"
        /\ todo' = InsertForce(todo, ForceNode(a, ps))
        /\ mode' = "linkback" /\ running' = TRUE
        /\ UNCHANGED <<act, timer, used>>
  /\ UNCHANGED <<delay, afterStop, tableVars, stackVars>>

\* The profiles with whose end the link is to be closed: all it has, when all
\* of them are to go.  (Slip: the mask of the command is taken as it is.)
ToCloseUnmasked(a, ps) == IF profs[a] \subseteq ps THEN ps ELSE {}

ToClose(a, ps) ==
  IF profs[a] \subseteq ps THEN ps \cap profs[a] ELSE {}

\* EVENT_DEDICATED_DISCONNECT.  Asking for profiles none of which is connected
\* closes the link; asking for all that are closes it once they are gone.
Disconnect(a, ps) ==
  LET ds == ps \cap profs[a] IN
  /\ ~running /\ Disturb("disconnect")
  /\ act' = IF Current(a) THEN ProfsSub(act, ps) ELSE act
  /\ todo' = RemovePlan(todo, a, ps)
  /\ IF a \in tracked
     THEN /\ later' = IF "AVRCP" \in ps THEN later \ {a} ELSE later
          /\ closeAfter' = [closeAfter EXCEPT ![a] = ToClose(a, ps)]
          /\ pdisc' = [pdisc EXCEPT ![a] = @ \cup ds]
          /\ IF ds = {} THEN AclDisconnect(a) ELSE UNCHANGED <<page, link>>
     ELSE UNCHANGED <<later, closeAfter, pdisc, page, link>>
  /\ UNCHANGED <<mode, running, used, timer, delay, afterStop, tracked, profs,
                 ind, inc, auth, sdp, pconn>>

-----------------------------------------------------------------------------
(* Timers.                                                                  *)

\* One tick of the system time that linkback timer and gtiming share; used
\* stops counting above every timeout (bound).
Tick ==
  /\ ~running /\ act.valid /\ timer # 1
  /\ used \in Timeout \/ timer > 1
  /\ used' = IF used \in Timeout THEN used + 1 ELSE used
  /\ timer' = IF timer > 1 THEN timer - 1 ELSE timer
  /\ UNCHANGED <<mode, running, todo, act, delay, afterStop, tableVars,
                 stackVars, budget>>

\* (Slip: the next node does not wait for the page to stop.)
ConnTimeoutGoesOn ==
  /\ timer' = 0 /\ act' = NoNode /\ running' = (mode = "linkback")
  /\ todo' = IF act.valid /\ act.group THEN WithoutGroup(todo) ELSE todo
  /\ UNCHANGED <<mode, used, delay, afterStop, sdp, page, link, inc, pconn, pdisc>>

\* EVENT_SRC_CONN_TIMEOUT.  The group of the node ends with it.  A pending
\* delay timer is cut short and the node tried again; a node without a link
\* waits for its page to stop; a connected one loses its plan.
ConnTimeout ==
  /\ timer' = 0
  /\ todo' = IF act.valid /\ act.group THEN WithoutGroup(todo) ELSE todo
  /\ IF mode # "linkback"
     THEN /\ act' = NoNode
          /\ UNCHANGED <<delay, running, afterStop, sdp, page, link>>
     ELSE IF ~act.valid \/ delay
     THEN /\ delay' = (delay /\ ~act.valid) /\ running' = TRUE
          /\ UNCHANGED <<act, afterStop, sdp, page, link>>
     ELSE IF act.addr \notin tracked
     THEN /\ afterStop' = TRUE
          /\ StopSearch(act.addr) /\ AclDisconnect(act.addr)
          /\ UNCHANGED <<act, delay, running>>
     ELSE /\ act' = [act EXCEPT !.plan = {}]
          /\ UNCHANGED <<delay, running, afterStop, sdp, page, link>>
  /\ UNCHANGED <<mode, used, inc, pconn, pdisc>>

LinkbackTimerFires ==
  /\ ~running /\ timer = 1
  /\ ConnTimeout
  /\ UNCHANGED <<auth, tableVars, budget>>

\* EVENT_LINKBACK_DELAY_TIMEOUT: the node starts over with its whole plan.
DelayTimerFires ==
  /\ ~running /\ delay
  /\ delay' = FALSE
  /\ IF mode = "linkback"
     THEN /\ act' = IF act.valid THEN ConnFailAdjust(act) ELSE act
          /\ running' = TRUE
     ELSE UNCHANGED <<act, running>>
  /\ UNCHANGED <<mode, todo, used, timer, afterStop, tableVars, stackVars,
                 budget>>

IndTimerFires(a) ==
  /\ ~running /\ a \in ind
  /\ ind' = ind \ {a}
  /\ UNCHANGED <<engVars, tracked, profs, later, closeAfter, stackVars, budget>>

\* The phone connected A2DP and left AVRCP to us.
LaterAvrcpFires(a) ==
  /\ ~running /\ a \in later
  /\ later' = later \ {a}
  /\ \/ /\ mode = "linkback" /\ Current(a) /\ MoreProfs(act, {"AVRCP"})
        /\ UNCHANGED pconn
     \/ /\ mode = "linkback" /\ ~Current(a)
        /\ todo' = InsertForce(todo, ForceNode(a, {"AVRCP"}))
        /\ UNCHANGED <<act, timer, used, pconn>>
     \/ /\ mode # "linkback"
        /\ pconn' = IF mode = "stable" /\ a \in tracked
                       /\ "AVRCP" \notin profs[a]
                    THEN [pconn EXCEPT ![a] = @ \cup {"AVRCP"}] ELSE pconn
        /\ UNCHANGED <<todo, act, timer, used>>
  /\ UNCHANGED <<mode, running, delay, afterStop, tracked, profs, closeAfter,
                 ind, link, page, inc, auth, sdp, pdisc, budget>>

-----------------------------------------------------------------------------
(* Links: what the stack reports.                                           *)

\* A link comes up and gets an entry of the link table while there is one.
\* With the radio off the link is closed again; so is the link of a page whose
\* cancellation came too late, as the stack still owes its disconnection.
LinkUp(a, asked) ==
  /\ link[a] = "down"
  /\ link' = [link EXCEPT ![a] =
                IF asked \/ mode = "stop" THEN "closing" ELSE "up"]
  /\ tracked' = IF Full THEN tracked ELSE tracked \cup {a}
  /\ inc' = inc \ {a}
  /\ UNCHANGED <<engVars, profs, later, closeAfter, ind, auth, sdp, pconn,
                 pdisc>>

PageSuc(a) ==
  /\ ~running /\ page[a] # "no" /\ a \notin inc
  /\ LinkUp(a, page[a] = "cancel")
  /\ page' = [page EXCEPT ![a] = "no"]
  /\ UNCHANGED budget

\* A phone pages us; BT_EVENT_ACL_CONN_IND remembers it for SRC_CONN_IND_DELAY.
\* With every point taken only a headset with SASS accepts.
Incoming(a) ==
  /\ ~running /\ link[a] = "down" /\ a \notin inc /\ a \notin tracked
  /\ Full => Sass
  /\ Disturb("incoming")
  /\ inc' = inc \cup {a}
  /\ ind' = IF a \in ind \/ Cardinality(ind) < 2 THEN ind \cup {a} ELSE ind
  /\ UNCHANGED <<engVars, tracked, profs, later, closeAfter, link, page, auth,
                 sdp, pconn, pdisc>>

IncomingUp(a) ==
  /\ ~running /\ a \in inc
  /\ LinkUp(a, FALSE)
  /\ UNCHANGED <<page, budget>>

\* (Slip: a page that was stopped is taken for one that failed.)
ConnFailHandlerRetry(a) ==
  IF mode = "linkback" /\ Current(a)
  THEN /\ afterStop' = FALSE
       /\ running' = TRUE
       /\ IF todo = <<>>
          THEN act' = ConnFailAdjust(act) /\ UNCHANGED <<todo, timer>>
          ELSE timer' = 0 /\ todo' = UseLeftTime(TRUE) /\ act' = NoNode
  ELSE UNCHANGED <<afterStop, running, act, todo, timer>>

\* EVENT_SRC_CONN_FAIL for the active node: it is tried again at once when it
\* is alone, else it goes to the back of the queue with the time it has left.
ConnFailHandler(a) ==
  IF mode = "linkback" /\ Current(a)
  THEN LET stopped == afterStop IN
       /\ afterStop' = FALSE
       /\ running' = TRUE
       /\ IF todo = <<>>
          THEN /\ act' = IF stopped THEN NoNode ELSE ConnFailAdjust(act)
               /\ UNCHANGED <<todo, timer>>
          ELSE /\ timer' = 0
               /\ todo' = UseLeftTime(TRUE)
               /\ act' = NoNode
  ELSE UNCHANGED <<afterStop, running, act, todo, timer>>

PageEnds(a) ==
  /\ page' = [page EXCEPT ![a] = "no"]
  /\ UNCHANGED <<mode, used, tableVars, link, inc, auth, pconn, pdisc>>

PageFail(a) ==
  /\ ~running /\ page[a] # "no" /\ link[a] = "down"
  /\ PageEnds(a) /\ StopSearch(a)
  /\ ConnFailHandler(a)
  /\ UNCHANGED <<delay, budget>>

\* (Slip: nobody looks again.)
DelayRetryNever(a) ==
  UNCHANGED <<delay, running, todo, act, timer, afterStop>>

\* The page fails because the link exists by now, or because the controller is
\* busy: the engine waits before it tries again.
DelayRetry(a) ==
  /\ delay' = (delay \/ (mode = "linkback" /\ Current(a)))
  /\ UNCHANGED <<running, todo, act, timer, afterStop>>

\* An accepted connection does not come up: the engine hears of it as of a page
\* that failed, with any of the causes.
IncomingFails(a) ==
  /\ ~running /\ a \in inc
  /\ inc' = inc \ {a}
  /\ \/ ConnFailHandler(a) /\ UNCHANGED delay
     \/ DelayRetry(a)
  /\ UNCHANGED <<mode, used, tableVars, link, page, auth, sdp, pconn, pdisc,
                 budget>>

PageFailExist(a) ==
  /\ ~running /\ page[a] # "no" /\ link[a] # "down"
  /\ PageEnds(a) /\ DelayRetry(a)
  /\ StopSearch(a) \/ UNCHANGED sdp
  /\ UNCHANGED budget

PageFailBusy(a) ==
  /\ ~running /\ page[a] # "no" /\ link[a] = "down" /\ Disturb("busy")
  /\ PageEnds(a) /\ StopSearch(a) /\ DelayRetry(a)

\* EVENT_SRC_AUTH_SUC: when another device takes the last link, the timeout of
\* a node that is still paging is brought forward.
AuthSuc(a) ==
  /\ ~running /\ link[a] = "up" /\ a \notin auth
  /\ auth' = auth \cup {a}
  /\ IF /\ mode = "linkback" /\ act.valid /\ act.addr # a
        /\ Full /\ act.addr \notin tracked
     THEN ConnTimeout
     ELSE UNCHANGED <<engVars, sdp, page, link, inc, pconn, pdisc>>
  /\ UNCHANGED <<tableVars, budget>>

\* What a disconnection leaves behind: nothing of the link, and nothing of
\* what was under way on it.  A page that met the link has ended before.
LinkGone(a) ==
  /\ page[a] = "no"
  /\ link' = [link EXCEPT ![a] = "down"]
  /\ auth' = auth \ {a}
  /\ sdp' = [sdp EXCEPT ![a] = {}]
  /\ pconn' = [pconn EXCEPT ![a] = {}]
  /\ pdisc' = [pdisc EXCEPT ![a] = {}]
  /\ tracked' = tracked \ {a}
  /\ profs' = [profs EXCEPT ![a] = {}]
  /\ later' = later \ {a}
  /\ closeAfter' = [closeAfter EXCEPT ![a] = {}]
  /\ UNCHANGED <<ind, page, inc>>

\* (Slips: the node goes on; the run is not resumed.)
ExitNodeNot(a) ==
  IF mode = "linkback" /\ Current(a)
  THEN afterStop' = FALSE /\ running' = TRUE /\ UNCHANGED act
  ELSE UNCHANGED <<act, afterStop, running>>

ExitNodeIdle(a) ==
  IF mode = "linkback" /\ Current(a)
  THEN act' = [act EXCEPT !.exit = TRUE] /\ afterStop' = FALSE /\ UNCHANGED running
  ELSE UNCHANGED <<act, afterStop, running>>

\* The node of a link that went down is over.
ExitNode(a) ==
  IF mode = "linkback" /\ Current(a)
  THEN act' = [act EXCEPT !.exit = TRUE] /\ afterStop' = FALSE /\ running' = TRUE
  ELSE UNCHANGED <<act, afterStop, running>>

\* EVENT_SRC_DISCONN_NORMAL, asked for by us or by the phone.
DisconnNormal(a) ==
  /\ ~running
  /\ \/ link[a] = "closing" /\ UNCHANGED budget
     \/ link[a] = "up" /\ Disturb("leave")
  /\ LinkGone(a)
  /\ ExitNode(a)
  /\ UNCHANGED <<mode, todo, used, timer, delay>>

\* EVENT_SRC_DISCONN_LOST: a tracked device is queued to be reconnected, and a
\* stable engine starts a session for it.
DisconnLost(a) ==
  /\ ~running /\ link[a] # "down" /\ Disturb("loss")
  /\ LinkGone(a)
  /\ todo' = IF a \in tracked
             THEN InsertNormal(todo, ANode(a, BondPlan[a], LossTimeout, FALSE, FALSE))
             ELSE todo
  /\ IF mode = "stable"
     THEN mode' = "linkback" /\ running' = TRUE /\ UNCHANGED <<act, afterStop>>
     ELSE ExitNode(a) /\ UNCHANGED mode
  /\ UNCHANGED <<used, timer, delay>>

-----------------------------------------------------------------------------
(* Searches and profiles: what the stack reports.                           *)

\* EVENT_PROFILE_SDP_ATTR_INFO and EVENT_PROFILE_DID_ATTR_INFO.
SdpAttr(a) ==
  /\ ~running /\ link[a] = "up" /\ sdp[a] # {}
  /\ mode = "linkback" /\ Current(a) /\ ~act.sdpOk
  /\ act' = [act EXCEPT !.sdpOk = TRUE]
  /\ UNCHANGED <<mode, running, todo, used, timer, delay, afterStop, tableVars,
                 stackVars, budget>>

\* EVENT_PROFILE_SDP_DISCOV_CMPL: a search ends, and the profile of the active
\* node is credited with what was found, connected or given a failure.
SdpCmpl(a, p) ==
  /\ ~running /\ link[a] = "up" /\ p \in sdp[a]
  /\ sdp' = [sdp EXCEPT ![a] = @ \ {p}]
  /\ \/ /\ ~(mode = "linkback" /\ Current(a) /\ a \in tracked)
        /\ UNCHANGED <<act, running, pconn, budget>>
     \/ /\ mode = "linkback" /\ Current(a) /\ a \in tracked
        /\ ~act.sdpOk
        /\ act' = StepFail(act) /\ running' = TRUE
        /\ UNCHANGED <<pconn, budget>>
     \/ /\ mode = "linkback" /\ Current(a) /\ a \in tracked
        /\ act.sdpOk /\ (act.doing = "DID" \/ act.doing \in profs[a])
        /\ act' = StepSuc(act) /\ running' = TRUE
        /\ UNCHANGED <<pconn, budget>>
     \/ /\ mode = "linkback" /\ Current(a) /\ a \in tracked
        /\ act.sdpOk /\ act.doing # "DID" /\ act.doing \notin profs[a]
        /\ pconn' = [pconn EXCEPT ![a] = @ \cup {act.doing}]
        /\ IF act.doing = "PBAP" THEN act' = StepSuc(act) /\ running' = TRUE
           ELSE UNCHANGED <<act, running>>
        /\ UNCHANGED budget
     \/ /\ mode = "linkback" /\ Current(a) /\ a \in tracked
        /\ act.sdpOk /\ act.doing # "DID" /\ act.doing \notin profs[a]
        /\ Disturb("refuse")
        /\ act' = StepFail(act) /\ running' = TRUE
        /\ UNCHANGED pconn
  /\ UNCHANGED <<mode, todo, used, timer, delay, afterStop, tableVars, link,
                 page, inc, auth, pdisc>>

\* EVENT_PROFILE_CONN_SUC on a tracked link.  The first profile asks for the
\* DID of the device through EVENT_DEDICATED_CONNECT before the engine looks
\* at its own progress.
ProfSuc(a, p) ==
  LET first == profs[a] = {}
      cur   == mode = "linkback" /\ Current(a)
      act1  == IF first /\ cur THEN ProfsAdd(act, {"DID"}) ELSE act
      done  == cur /\ act.doing = p /\ act.sdpOk
  IN
  /\ pconn' = [pconn EXCEPT ![a] = @ \ {p}]
  /\ IF a \in tracked
     THEN /\ profs' = [profs EXCEPT ![a] = @ \cup {p}]
          /\ later' = IF p = "A2DP" /\ "AVRCP" \in Prof \ profs[a]
                         /\ closeAfter[a] = {}
                      THEN later \cup {a}
                      ELSE IF p = "AVRCP" THEN later \ {a} ELSE later
          /\ act' = IF done THEN StepSuc(act1) ELSE act1
          /\ running' = done
          /\ timer' = IF first /\ cur THEN LinkbackTimeout + 1 ELSE timer
          /\ used' = IF first /\ cur /\ todo = <<>> THEN 0 ELSE used
          /\ todo' = IF first /\ mode = "linkback" /\ ~cur
                     THEN InsertForce(todo, ForceNode(a, {"DID"})) ELSE todo
          /\ sdp' = IF first /\ mode = "stable"
                    THEN [sdp EXCEPT ![a] = @ \cup {"DID"}] ELSE sdp
     ELSE UNCHANGED <<profs, later, act, running, timer, used, todo, sdp>>
  /\ UNCHANGED <<mode, delay, afterStop, tracked, closeAfter, ind, link, page,
                 inc, auth, pdisc>>

\* The profile was asked for by us, or the phone connects it.
ProfConnected(a, p) ==
  /\ ~running /\ link[a] = "up" /\ a \in auth
  /\ \/ p \in pconn[a] /\ UNCHANGED budget
     \/ p \notin pconn[a] \cup profs[a] \cup {"DID"} /\ Disturb("phone")
  /\ ProfSuc(a, p)

\* EVENT_PROFILE_CONN_FAIL, for no reason the engine knows, for a security
\* block, and for lack of resources.
ProfFail(a, p) ==
  /\ ~running /\ link[a] = "up" /\ p \in pconn[a]
  /\ pconn' = [pconn EXCEPT ![a] = @ \ {p}]
  /\ IF mode = "linkback" /\ Current(a) /\ act.doing = p /\ act.sdpOk
     THEN act' = StepFail(act) /\ running' = TRUE
     ELSE UNCHANGED <<act, running>>
  /\ UNCHANGED <<mode, todo, used, timer, delay, afterStop, tableVars, link,
                 page, inc, auth, sdp, pdisc, budget>>

ProfFailSecurity(a, p) ==
  /\ ~running /\ link[a] = "up" /\ p \in pconn[a] /\ Disturb("security")
  /\ pconn' = [pconn EXCEPT ![a] = @ \ {p}]
  /\ IF mode = "linkback" /\ Current(a) THEN AclDisconnect(a)
     ELSE UNCHANGED <<page, link>>
  /\ UNCHANGED <<engVars, tableVars, inc, auth, sdp, pdisc>>

ProfFailNoResource(a, p) ==
  /\ ~running /\ link[a] = "up" /\ p \in pconn[a] /\ Disturb("busy")
  /\ pconn' = [pconn EXCEPT ![a] = @ \ {p}]
  /\ DelayRetry(a)
  /\ UNCHANGED <<mode, used, tableVars, link, page, inc, auth, sdp, pdisc>>

\* EVENT_PROFILE_DISCONN, asked for by us or by the phone: AVRCP follows A2DP,
\* and a link that was to be closed after its profiles is closed with the last
\* of them.
ProfDisconnected(a, p) ==
  LET ps == profs[a] \ {p} IN
  /\ ~running /\ link[a] = "up" /\ p \in profs[a]
  /\ \/ p \in pdisc[a] /\ UNCHANGED budget
     \/ p \notin pdisc[a] /\ Disturb("phone")
  /\ profs' = [profs EXCEPT ![a] = ps]
  /\ pdisc' = [pdisc EXCEPT ![a] =
                 (@ \ {p}) \cup (IF p = "A2DP" THEN ps \cap {"AVRCP"} ELSE {})]
  /\ IF closeAfter[a] # {} /\ ps \cap closeAfter[a] = {}
     THEN closeAfter' = [closeAfter EXCEPT ![a] = {}] /\ AclDisconnect(a)
     ELSE UNCHANGED <<closeAfter, page, link>>
  /\ UNCHANGED <<engVars, tracked, later, ind, inc, auth, sdp, pconn>>

-----------------------------------------------------------------------------
StackAnswer(a) ==
  \/ PageSuc(a) \/ PageFail(a) \/ PageFailExist(a) \/ PageFailBusy(a)
  \/ IncomingUp(a) \/ IncomingFails(a) \/ AuthSuc(a)
  \/ DisconnNormal(a)
  \/ SdpAttr(a)
  \/ \E p \in Prof :
       \/ SdpCmpl(a, p) \/ ProfConnected(a, p) \/ ProfFail(a, p)
       \/ ProfFailSecurity(a, p) \/ ProfFailNoResource(a, p)
       \/ ProfDisconnected(a, p)

TimerFires ==
  \/ Tick \/ LinkbackTimerFires \/ DelayTimerFires
  \/ \E a \in Addr : IndTimerFires(a) \/ LaterAvrcpFires(a)

Command ==
  \/ Startup \/ Restore \/ Stop
  \/ \E a \in Addr, ps \in SUBSET (Prof \ {"DID"}) \ {{}} :
       Connect(a, ps) \/ Disconnect(a, ps)

Next ==
  \/ Run \/ Command \/ TimerFires
  \/ \E a \in Addr : StackAnswer(a) \/ Incoming(a) \/ DisconnLost(a)

Spec == Init /\ [][Next]_vars

\* Every message is handled in the end: the handler that is running goes on,
\* time passes, an expired timer is delivered, and the stack answers what it
\* was asked.  A handler keeps the others waiting, hence SF.
Fairness ==
  /\ WF_vars(Run) /\ WF_vars(Startup)
  /\ SF_vars(Tick) /\ SF_vars(LinkbackTimerFires) /\ SF_vars(DelayTimerFires)
  /\ \A a \in Addr : SF_vars(StackAnswer(a)) /\ SF_vars(IndTimerFires(a))

FairSpec == Spec /\ Fairness

-----------------------------------------------------------------------------
TypeOK ==
  /\ mode \in {"startup", "linkback", "stable", "stop"}
  /\ running \in BOOLEAN
  /\ IsTodo(todo) /\ act \in Active
  /\ used \in Nat /\ timer \in Nat
  /\ delay \in BOOLEAN /\ afterStop \in BOOLEAN
  /\ tracked \subseteq Addr /\ later \subseteq Addr /\ ind \subseteq Addr
  /\ profs \in [Addr -> SUBSET Prof] /\ closeAfter \in [Addr -> SUBSET Prof]
  /\ link \in [Addr -> {"down", "up", "closing"}]
  /\ page \in [Addr -> {"no", "yes", "cancel"}]
  /\ inc \subseteq Addr /\ auth \subseteq Addr
  /\ sdp \in [Addr -> SUBSET Prof] /\ pconn \in [Addr -> SUBSET Prof]
  /\ pdisc \in [Addr -> SUBSET Prof]
  /\ budget \in 0 .. Budget

\* A device is in one place at most: twice in the queue, or queued while it is
\* the active node, it would be paged again after it was connected or given up.
\* Reinsertion on failure, loss of the active link and commands for the active
\* device are the ways it could happen.
OnePlacePerDevice ==
  /\ DistinctAddr(todo)
  /\ act.valid => act.exit \/ ~Queued(todo, act.addr)

\* The devices loaded at power on share one time budget: whoever of the group
\* is active or queued has the same retry_timeout, however often the members
\* took turns.
GroupBudgetUniform ==
  /\ \A i, j \in DOMAIN todo :
       todo[i].group /\ todo[j].group => todo[i].tmo = todo[j].tmo
  /\ act.valid /\ act.group =>
       \A i \in DOMAIN todo : todo[i].group => todo[i].tmo = act.tmo

\* Outside a session nothing of one is left running: no active node, neither
\* of its timers.  EVENT_SRC_CONN_TIMEOUT relies on it when it ends the group
\* of whatever node it finds.
QuietOutsideSession ==
  mode # "linkback" => ~act.valid /\ timer = 0 /\ ~delay /\ ~running

\* Between two messages a session has an active node, and something under way
\* will call the engine back: a timer, a page, a closing link, or a search or
\* a profile connection whose result the engine will accept.
NeverStalls ==
  mode = "linkback" /\ ~running =>
    /\ act.valid /\ ~act.exit
    /\ \/ timer > 0 \/ delay
       \/ page[act.addr] # "no" \/ link[act.addr] = "closing"
       \/ /\ link[act.addr] = "up" /\ act.addr \in tracked
          /\ \/ sdp[act.addr] # {}
             \/ act.sdpOk /\ act.doing \in pconn[act.addr]

\* A node whose device has no link is under its time limit, or its page is
\* being stopped because the limit has passed.
PagingIsTimed ==
  mode = "linkback" /\ ~running /\ act.valid /\ link[act.addr] = "down" =>
    timer > 0 \/ afterStop

\* The headset pages no device but the one whose turn it is: a page that was
\* started for an earlier node has ended or is being cancelled.  This holds while
\* the controller is never busy and no phone pages the headset.  Otherwise an
\* incoming connection of the active phone that fails counts as the failure of
\* its page, which may still be out when the next phone's begins
\* (app_bt_policy.c:6777-6806, 3421-3460), and a delay timer that outlives its
\* node restarts the run during the next one's page.
PagesOnlyActive ==
  \A a \in Addr : page[a] = "yes" /\ link[a] = "down" =>
    mode = "linkback" /\ Current(a) /\ ~act.exit

\* The search under way for the active node is the one for its current
\* profile, so that its result is credited to the profile it is about.
SearchIsCurrent ==
  mode = "linkback" /\ ~running /\ act.valid =>
    sdp[act.addr] \subseteq {act.doing}

\* The budget of a group only shrinks while a session lasts: a queued member
\* has at most what it had, and one that is put back at most what is left of
\* its turn, however often the members take turns and fail.
GroupBudgetShrinks ==
  [][\A i \in DOMAIN todo' :
       todo'[i].group /\ mode = "linkback" /\ mode' = "linkback" =>
         \/ \E k \in DOMAIN todo :
              todo[k].group /\ todo[k].addr = todo'[i].addr
                            /\ todo'[i].tmo <= todo[k].tmo
         \/ Current(todo'[i].addr) /\ act.group
                                   /\ todo'[i].tmo + used <= act.tmo]_vars

\* The timer of a node never fires while the node has time left by its own
\* clock: the two are started, restarted and shortened by different handlers, and
\* a timer that fires early would end the whole group, with the time it has left.
LimitNotEarly == act.valid /\ timer > 0 => act.tmo < used + timer

\* No queued phone is forgotten during a session: it leaves the queue when its
\* turn comes, or with its group, when the time of the active member is used up
\* or another phone takes the last link.
NobodyForgotten ==
  [][mode = "linkback" /\ mode' \in {"linkback", "stop"} =>
       \A i \in DOMAIN todo :
         \/ Queued(todo', todo[i].addr)
         \/ act'.valid /\ act'.addr = todo[i].addr
         \/ /\ todo[i].group /\ act.valid /\ act.group
            /\ used >= act.tmo \/ (Full /\ auth' # auth)]_vars

\* What the run has left to do for a node before it must return or leave it.
\* After a disconnect command the current profile may be none of the remaining
\* ones, so that taking it away takes nothing away.
Work(a) ==
  6 * Cardinality(a.remain) + (IF a.doing \in a.remain THEN 0 ELSE 3)
    + (2 - a.retry)

\* Each turn of the RETRY loop comes closer to its end: it takes a node from the
\* queue, drops the active one, or gets on with it.  A turn that does not would
\* keep the only task of the headset for ever.
RunAdvances ==
  [][running /\ running' =>
       \/ Len(todo') < Len(todo)
       \/ /\ Len(todo') = Len(todo) /\ act.valid
          /\ act'.valid => Work(act') < Work(act)]_vars

\* A session ends in the stable state only when no device is queued any more:
\* linkback_run finishes for want of a node, not because of a bad one.
EndsOnlyWhenDrained ==
  [][mode = "linkback" /\ mode' = "stable" => todo' = <<>>]_vars

\* Once the time of a connected node is over (its plan is emptied), it does not
\* move on to another of its profiles; DID alone may join later.
StopsLeftProfiles ==
  [][act.valid /\ act'.valid /\ act.plan = {} /\ act'.addr = act.addr =>
       act'.doing \in {act.doing, "DID", NoProf}]_vars

\* A link that is to be closed after its profiles still has one of them: no
\* command, end of a profile or loss of the link leaves it waiting for the end
\* of profiles that have ended already.
CloseAwaitsProfile ==
  \A a \in Addr : closeAfter[a] # {} => closeAfter[a] \cap profs[a] # {}

\* A link that is to be closed after its profiles has a disconnection of one
\* of them outstanding, which will look at it again.
CloseIsDriven ==
  \A a \in Addr : closeAfter[a] # {} => closeAfter[a] \cap pdisc[a] # {}

\* Every session ends: the disturbances a run allows are finite, and without
\* new ones each device is connected or given up.
SessionEnds == mode = "linkback" ~> mode # "linkback"

\* A node whose page the engine stopped is left in the end, and the engine
\* goes on with the next one.
StopIsAnswered == afterStop ~> ~afterStop \/ mode # "linkback"

=============================================================================
