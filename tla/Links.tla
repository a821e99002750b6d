------------------------------- MODULE Links -------------------------------
(* Which phones are connected: the link tables (app_link_util.c), the       *)
(* multipoint slots that join the BR and the LE link of one phone           *)
(* (app_bt_point.c), and the two holds the link handlers keep on behalf of  *)
(* the links: sniff mode is off during calls (app_sniff_mode.c), automatic  *)
(* power off waits for LE links (app_auto_power_off.c).                     *)
(*                                                                          *)
(* The bud is a primary (F_APP_ERWS_SUPPORT is 0), so every BR link is to a *)
(* source device.  A phone's LE identity is its BR address, known to the    *)
(* bud once the LE link is authenticated.  The stack reports one event at a *)
(* time, and the end of a call before the end of the link that carries it.  *)
EXTENDS Naturals, FiniteSets

CONSTANTS
  Phones,       \* addresses of the devices around
  NoAddr,       \* the zero address: an entry that is not used
  MaxBr,        \* MAX_BR_LINK_NUM
  MaxLe,        \* MAX_BLE_LINK_NUM
  MaxPoints,    \* F_APP_MAX_BT_POINT_NUM
  Sass          \* extend_app_cfg_const.gfps_sass_support

ASSUME LinksAssumption ==
  /\ NoAddr \notin Phones
  /\ MaxBr \in Nat
  /\ MaxLe \in Nat
  /\ MaxPoints \in Nat
  /\ Sass \in BOOLEAN

BrSlots == 1 .. MaxBr
LeSlots == 1 .. MaxLe
Points == 1 .. MaxPoints

VARIABLES
  up, accepted,     \* ACL links the stack has, and those it is setting up
  br, sco,          \* app_db.br_link: the address, and the slots in a call
  le,               \* app_db.le_link ("closing": told to disconnect)
  point, count,     \* bt_point_mgr
  dialing,          \* calls the stack is setting up
  sniffOff,         \* SNIFF_DISABLE_MASK_SCO in g_b2s_disable_all_flag
  stayOn,           \* AUTO_POWER_OFF_MASK_BLE_LINK_EXIST in poweroff_flag
  crowded,          \* history: links made while every point was taken
  overlooked,       \* history: LE links up but not counted when another LE
                    \* link's end cleared stayOn
  released,         \* history: LE links open, counted or not, when mtc_shutdown
                    \* cleared stayOn
  exposed           \* history: calls not counted when sniffOff was cleared

acl == <<up, accepted>>
power == <<stayOn, overlooked, released>>
calls == <<dialing, sniffOff, exposed>>
vars == <<acl, br, sco, le, point, count, power, calls, crowded>>

NoLe == [phone |-> NoAddr, addr |-> NoAddr, state |-> "free", lea |-> FALSE]
NoPoint == [addr |-> NoAddr, br |-> 0, le |-> 0]

LeLink ==
  [phone : Phones \cup {NoAddr}, addr : Phones \cup {NoAddr}, lea : BOOLEAN,
   state : {"free", "connecting", "connected", "authed", "closing"}]
Point == [addr : Phones \cup {NoAddr}, br : 0 .. MaxBr, le : 0 .. MaxLe]

\* The tables, the counters and the histories have their types
\* (app_main.h:53-54, app_bt_point.c).
TypeOK ==
  /\ up \subseteq Phones /\ accepted \subseteq Phones
  /\ br \in [BrSlots -> Phones \cup {NoAddr}]
  /\ sco \subseteq BrSlots
  /\ le \in [LeSlots -> LeLink]
  /\ point \in [Points -> Point]
  /\ count \in [num : 0 .. MaxPoints, br : 0 .. MaxPoints, sco : 0 .. MaxPoints,
                le : 0 .. MaxPoints, lea : 0 .. MaxPoints]
  /\ dialing \subseteq Phones
  /\ sniffOff \in BOOLEAN
  /\ stayOn \in BOOLEAN
  /\ crowded \subseteq Phones
  /\ overlooked \subseteq LeSlots /\ released \subseteq LeSlots
  /\ exposed \subseteq Phones

Init ==
  /\ up = {} /\ accepted = {}
  /\ br = [s \in BrSlots |-> NoAddr]
  /\ sco = {}
  /\ le = [l \in LeSlots |-> NoLe]
  /\ point = [i \in Points |-> NoPoint]
  /\ count = [num |-> 0, br |-> 0, sco |-> 0, le |-> 0, lea |-> 0]
  /\ dialing = {} /\ sniffOff = FALSE /\ exposed = {}
  /\ stayOn = FALSE /\ overlooked = {} /\ released = {}
  /\ crowded = {}

-----------------------------------------------------------------------------
(* The tables *)

\* An index of the set, 0 (the null pointer) if it is empty.
First(S) == IF S = {} THEN 0 ELSE CHOOSE i \in S : \A j \in S : i <= j

BrOf(a) == First({s \in BrSlots : br[s] = a})

\* (Slip: the search runs one entry past the end of the table.)
FreeBrPast ==
  IF \E s \in BrSlots : br[s] = NoAddr
    THEN First({s \in BrSlots : br[s] = NoAddr})
    ELSE MaxBr + 1

FreeBr == First({s \in BrSlots : br[s] = NoAddr})
FreeLe == First({l \in LeSlots : le[l].state = "free"})

UsedIn(pts) == {i \in Points : pts[i].addr # NoAddr}

PointOf(a) == First({i \in UsedIn(point) : point[i].addr = a})
FreePoint == First(Points \ UsedIn(point))
Full == count.num >= MaxPoints

\* app_bt_point_link_permission_check
Permitted(a) == ~Full \/ PointOf(a) # 0

\* The point a link of a goes to: the one it has, else a free one, else none.
Place(a) ==
  IF PointOf(a) # 0 THEN PointOf(a) ELSE IF Full THEN 0 ELSE FreePoint

\* app_bt_point_br_link_insert, app_bt_point_le_link_insert
InsertBr(a, s) ==
  IF Place(a) = 0
    THEN point
    ELSE [point EXCEPT ![Place(a)] = [addr |-> a, br |-> s, le |-> @.le]]
InsertLe(a, l) ==
  IF Place(a) = 0
    THEN point
    ELSE [point EXCEPT ![Place(a)] = [addr |-> a, br |-> @.br, le |-> l]]

\* (Slip: only the last link takes its pointer out.)
RemoveBrLast(a) ==
  IF PointOf(a) # 0 /\ point[PointOf(a)].le = 0
    THEN [point EXCEPT ![PointOf(a)] = NoPoint]
    ELSE point

\* app_bt_point_br_link_remove: the last link takes the point with it.
RemoveBr(a) ==
  IF PointOf(a) = 0
    THEN point
    ELSE [point EXCEPT ![PointOf(a)] =
            IF @.le = 0 THEN NoPoint ELSE [@ EXCEPT !.br = 0]]

\* (Slip: the point goes with the LE link.)
RemoveLeWhole(a) ==
  IF PointOf(a) = 0 THEN point ELSE [point EXCEPT ![PointOf(a)] = NoPoint]

\* app_bt_point_le_link_remove
RemoveLe(a) ==
  IF PointOf(a) = 0
    THEN point
    ELSE [point EXCEPT ![PointOf(a)] =
            IF @.br = 0 THEN NoPoint ELSE [@ EXCEPT !.le = 0]]

BrIn(pts) == {i \in UsedIn(pts) : pts[i].br # 0}
LeIn(pts) == {i \in UsedIn(pts) : pts[i].le # 0}
ScoIn(pts, talking) == {i \in BrIn(pts) : pts[i].br \in talking}
LeaIn(pts, links) == {i \in LeIn(pts) : links[pts[i].le].lea}

\* app_bt_point_link_num_changed, one operator per type of link: what it counts
\* again, and only that.
BrRecount(pts) ==
  [count EXCEPT !.num = Cardinality(UsedIn(pts)), !.br = Cardinality(BrIn(pts))]
ScoRecount(talking) == [count EXCEPT !.sco = Cardinality(ScoIn(point, talking))]

\* (Slip: the links with LE audio are counted by their own event only.)
LeRecountPlain(pts, links) ==
  [count EXCEPT !.num = Cardinality(UsedIn(pts)), !.le = Cardinality(LeIn(pts))]

LeRecount(pts, links) ==
  [count EXCEPT !.num = Cardinality(UsedIn(pts)),
                !.le = Cardinality(LeIn(pts)),
                !.lea = Cardinality(LeaIn(pts, links))]
LeaRecount(links) == [count EXCEPT !.lea = Cardinality(LeaIn(point, links))]

-----------------------------------------------------------------------------
(* BR links *)

\* BT_EVENT_ACL_CONN_IND: refused when every point is taken by others, unless
\* smart audio source switching makes room later.
ConnInd(a) ==
  /\ a \notin up \cup accepted
  /\ Permitted(a) \/ Sass
  /\ accepted' = accepted \cup {a}
  /\ UNCHANGED <<up, br, sco, le, point, count, power, calls, crowded>>

\* linkback_run: a plan made by force is paged whatever the points, any other
\* only while a point has no BR link.
PageOut(a, force) ==
  /\ a \notin up \cup accepted
  /\ force \/ count.br < MaxPoints
  /\ accepted' = accepted \cup {a}
  /\ UNCHANGED <<up, br, sco, le, point, count, power, calls, crowded>>

\* The page or the set-up fails.
ConnFailed(a) ==
  /\ a \in accepted
  /\ accepted' = accepted \ {a}
  /\ UNCHANGED <<up, br, sco, le, point, count, power, calls, crowded>>

\* EVENT_SRC_CONN_SUC, app_bt_policy_b2s_connected_add_node.  With no free entry
\* the link stays up but the bud does not know it.
BrConnected(a) ==
  /\ a \in accepted
  /\ accepted' = accepted \ {a}
  /\ up' = up \cup {a}
  /\ IF FreeBr = 0
       THEN UNCHANGED <<br, point, count, crowded>>
       ELSE /\ br' = [br EXCEPT ![FreeBr] = a]
            /\ point' = InsertBr(a, FreeBr)
            /\ count' = BrRecount(point')
            /\ crowded' = IF Permitted(a) THEN crowded ELSE crowded \cup {a}
  /\ UNCHANGED <<sco, le, power, calls>>

\* The link ends, on either side; app_bt_policy_b2s_connected_del_node.
BrDisconnected(a) ==
  /\ a \in up
  /\ a \notin dialing
  /\ BrOf(a) \notin sco
  /\ up' = up \ {a}
  /\ crowded' = crowded \ {a}
  /\ IF BrOf(a) = 0
       THEN UNCHANGED <<br, point, count>>
       ELSE /\ br' = [br EXCEPT ![BrOf(a)] = NoAddr]
            /\ IF count.br > 0
                 THEN /\ point' = RemoveBr(a)
                      /\ count' = BrRecount(point')
                 ELSE UNCHANGED <<point, count>>
  /\ UNCHANGED <<accepted, sco, le, power, calls>>

-----------------------------------------------------------------------------
(* Calls *)

\* app_sniff_mode_b2s_disable_all(SNIFF_DISABLE_MASK_SCO)
DisableSniff == sniffOff' = TRUE /\ exposed' = {}

\* (Slip: any call that ends frees the links.)
NoCallsLeftBlind(c) == TRUE

\* (Slip: the links are freed with the last BR link only.)
NoCallsLeftLinks(c) == c.br = 0

\* app_link_get_sco_conn_num() == 0
NoCallsLeft(c) == c.sco = 0

\* app_sniff_mode_b2s_enable_all, if the counters count no call: calls still
\* being set up are not counted.
EnableSniffIfQuiet(c) ==
  IF NoCallsLeft(c)
    THEN sniffOff' = FALSE /\ exposed' = dialing'
    ELSE UNCHANGED <<sniffOff, exposed>>

\* BT_EVENT_SCO_CONN_IND
ScoConnInd(a) ==
  /\ a \in up \ dialing
  /\ BrOf(a) \notin sco
  /\ dialing' = dialing \cup {a}
  /\ DisableSniff
  /\ UNCHANGED <<acl, br, sco, le, point, count, power, crowded>>

\* BT_EVENT_SCO_CONN_RSP with no error
ScoConnRsp(a) ==
  /\ a \in dialing
  /\ DisableSniff
  /\ UNCHANGED <<acl, br, sco, le, point, count, power, dialing, crowded>>

\* BT_EVENT_SCO_CONN_CMPL with no error: the call of a link without an entry is
\* handled as a failed one.
ScoConnected(a) ==
  /\ a \in dialing
  /\ dialing' = dialing \ {a}
  /\ IF BrOf(a) = 0
       THEN EnableSniffIfQuiet(count) /\ UNCHANGED <<sco, count>>
       ELSE /\ sco' = sco \cup {BrOf(a)}
            /\ count' = ScoRecount(sco')
            /\ UNCHANGED <<sniffOff, exposed>>
  /\ UNCHANGED <<acl, br, le, point, power, crowded>>

\* BT_EVENT_SCO_CONN_CMPL with an error
ScoFailed(a) ==
  /\ a \in dialing
  /\ dialing' = dialing \ {a}
  /\ EnableSniffIfQuiet(count)
  /\ UNCHANGED <<acl, br, sco, le, point, count, power, crowded>>

\* BT_EVENT_SCO_DISCONNECTED, of a link with or without an entry
ScoDisconnected(a) ==
  /\ \/ /\ BrOf(a) \in sco
        /\ sco' = sco \ {BrOf(a)}
        /\ count' = ScoRecount(sco')
     \/ /\ a \in up \ dialing /\ BrOf(a) = 0
        /\ UNCHANGED <<sco, count>>
  /\ UNCHANGED dialing
  /\ EnableSniffIfQuiet(count')
  /\ UNCHANGED <<acl, br, le, point, power, crowded>>

-----------------------------------------------------------------------------
(* LE links *)

\* GAP_CONN_STATE_CONNECTING: a connection that finds no entry is not tracked.
LeConnecting(a) ==
  /\ \A l \in LeSlots : le[l].phone # a
  /\ FreeLe # 0
  /\ le' = [le EXCEPT ![FreeLe] = [NoLe EXCEPT !.phone = a, !.state = "connecting"]]
  /\ UNCHANGED <<acl, br, sco, point, count, power, calls, crowded>>

\* GAP_CONN_STATE_CONNECTED
LeConnected(l) ==
  /\ le[l].state = "connecting"
  /\ le' = [le EXCEPT ![l].state = "connected"]
  /\ stayOn' = TRUE
  /\ overlooked' = {} /\ released' = {}
  /\ UNCHANGED <<acl, br, sco, point, count, calls, crowded>>

\* GAP_AUTHEN_STATE_COMPLETE: the link gets the phone's address, and with every
\* point taken by others it is told to close; the points hear of it all the same.
LeAuthenticated(l) ==
  /\ le[l].state = "connected"
  /\ LET a == le[l].phone
     IN  /\ le' = [le EXCEPT ![l].addr = a,
                             ![l].state = IF Permitted(a) THEN "authed" ELSE "closing"]
         /\ point' = InsertLe(a, l)
  /\ count' = LeRecount(point', le')
  /\ UNCHANGED <<acl, br, sco, power, calls, crowded>>

\* (Slip: any LE link that ends lets the bud power off.)
OnlyAudioLeftBlind(c) == TRUE

\* app_link_get_le_link_num() - app_link_get_lea_link_num() == 0
OnlyAudioLeft(c) == c.le = c.lea

\* GAP_CONN_STATE_DISCONNECTED.  The callback app_lea_uca_le_disconnect_cb has
\* counted LE audio again, then the entry is freed and the point loses its link.
LeDisconnected(l) ==
  /\ le[l].state # "free"
  /\ le' = [le EXCEPT ![l] = NoLe]
  /\ point' = RemoveLe(le[l].addr)
  /\ count' = LeRecount(point', le')
  /\ IF OnlyAudioLeft(count')
       THEN /\ stayOn' = FALSE
            /\ overlooked' = {k \in LeSlots : le'[k].state = "connected"}
       ELSE UNCHANGED stayOn /\ overlooked' = overlooked \ {l}
  /\ released' = released \ {l}
  /\ UNCHANGED <<acl, br, sco, calls, crowded>>

\* LEA_CONNECT (app_lea_uca_link_idle): the phone uses the LE audio services.
LeaConnect(l) ==
  /\ le[l].state \in {"connected", "authed", "closing"}
  /\ ~le[l].lea
  /\ le' = [le EXCEPT ![l].lea = TRUE]
  /\ count' = LeaRecount(le')
  /\ UNCHANGED <<acl, br, sco, point, power, calls, crowded>>

\* mtc_shutdown, as the policy engine shuts down: LE audio links are closed
\* (LEA_DISCON_LOCAL) and are idle for LE audio at once, and the bud may power
\* off, whatever other LE links are open.
MtcShutdown ==
  /\ le' = [l \in LeSlots |->
              IF le[l].lea THEN [le[l] EXCEPT !.lea = FALSE, !.state = "closing"]
              ELSE le[l]]
  /\ count' = LeaRecount(le')
  /\ stayOn' = FALSE
  /\ released' = {l \in LeSlots : le'[l].state \in {"connected", "authed"}}
  /\ UNCHANGED <<acl, br, sco, point, overlooked, calls, crowded>>

-----------------------------------------------------------------------------
Next ==
  \/ \E a \in Phones :
       \/ ConnInd(a) \/ ConnFailed(a)
       \/ \E force \in BOOLEAN : PageOut(a, force)
       \/ BrConnected(a) \/ BrDisconnected(a)
       \/ ScoConnInd(a) \/ ScoConnRsp(a)
       \/ ScoConnected(a) \/ ScoFailed(a) \/ ScoDisconnected(a)
       \/ LeConnecting(a)
  \/ \E l \in LeSlots :
       \/ LeConnected(l) \/ LeAuthenticated(l)
       \/ LeDisconnected(l) \/ LeaConnect(l)
  \/ MtcShutdown

Spec == Init /\ [][Next]_vars

-----------------------------------------------------------------------------
(* Properties *)

\* A point never outlives its links or points into an entry that is free or
\* another phone's, and no phone has two points.  The points hold raw pointers
\* into tables whose entries are freed first and used again (app_bt_point.c:158,
\* app_bt_policy.c:900-930, app_ble_gap.c:330).
PointsMatchLinks ==
  /\ \A i \in Points :
       /\ point[i].addr = NoAddr => point[i] = NoPoint
       /\ point[i].addr # NoAddr => point[i].br # 0 \/ point[i].le # 0
       /\ point[i].br # 0 => br[point[i].br] = point[i].addr
       /\ point[i].le # 0 => le[point[i].le].addr = point[i].addr
  /\ \A i, j \in UsedIn(point) : point[i].addr = point[j].addr => i = j

\* Every BR link and every LE link that was let in keeps its point for as long as
\* it lasts, whatever the phone's other link does; the exceptions are BR links
\* made while every point was taken (app_bt_point.c:192-219).
LinksHavePoints ==
  /\ \A s \in BrSlots :
       br[s] \notin crowded \cup {NoAddr} =>
         \E i \in Points : point[i].addr = br[s] /\ point[i].br = s
  /\ \A l \in LeSlots :
       le[l].state = "authed" =>
         \E i \in Points : point[i].addr = le[l].addr /\ point[i].le = l

\* The cached counters, each updated by some events only, always say how many
\* points and links of each kind there are (app_bt_point.c:283-418): admission,
\* power off and sniff mode are decided by them.
CountsExact ==
  /\ count.num = Cardinality(UsedIn(point))
  /\ count.br = Cardinality(BrIn(point))
  /\ count.sco = Cardinality(ScoIn(point, sco))
  /\ count.le = Cardinality(LeIn(point))
  /\ count.lea = Cardinality(LeaIn(point, le))

\* An open LE link without LE audio keeps the bud from powering off by itself
\* (app_ble_gap.c:366-371, 425), with two exceptions, each of which lasts until
\* a link is made.  A link that was up but not yet counted when another LE
\* link's end cleared the reason is overlooked.  And mtc_shutdown clears the
\* reason without looking at the links (multitopology_ctrl.c:647-668): every LE
\* link then open, counted and authenticated or not, is released.
PowerHeld ==
  \A l \in LeSlots :
    le[l].state = "authed" /\ ~le[l].lea /\ l \notin overlooked \cup released
      => stayOn

\* A call of a phone that has a point keeps sniff mode off, unless it was being
\* set up when another phone's call ended or failed (app_bt_policy.c:7358-7430).
CallHoldsSniff ==
  \A i \in ScoIn(point, sco) : point[i].addr \notin exposed => sniffOff

\* Sniff mode is not left off with no call up or being set up: the links would
\* never save power again (app_bt_policy.c:7402-7427).
SniffFreed == sniffOff => sco # {} \/ dialing # {}

=============================================================================
