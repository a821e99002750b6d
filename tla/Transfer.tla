------------------------------ MODULE Transfer ------------------------------
(* The data transfer queue (app_transfer.c) and the events that drive it.   *)
(*                                                                          *)
(* Reports to the phone go into one ring of DtQueueNo slots, whichever      *)
(* transport carries them: the serial port profile of a BR link (SPP) or    *)
(* the GATT service of an LE link (LE).  app_transfer_pop_data_queue tries  *)
(* the packet at the read index.  It calls itself, always to discard the    *)
(* head and go on, so its call stack is a number: `calls' is how many calls *)
(* have still to run before the event being handled is finished, and        *)
(* `nextFlag' is the argument of the first of them.  All of it runs on the  *)
(* application task: no other event is taken until `calls' is zero.         *)
EXTENDS Naturals, FiniteSets, Sequences

CONSTANTS
  BrLinks,      \* indices of app_db.br_link
  LeLinks,      \* indices of app_db.le_link
  Events,       \* event ids, AckEvent among them
  AckEvent,     \* EVENT_ACK: never acknowledged itself
  DtQueueNo,    \* DT_QUEUE_NO
  MaxPackets,   \* bound: packets pushed in a behaviour
  NoPacket      \* an inactive slot

Packet ==
  [id : 1 .. MaxPackets, path : {"SPP"}, link : BrLinks, event : Events]
    \cup [id : 1 .. MaxPackets, path : {"LE"}, link : LeLinks, event : Events]

ASSUME TransferAssumption ==
  /\ DtQueueNo \in Nat \ {0}
  /\ MaxPackets \in Nat
  /\ NoPacket \notin Packet
  /\ AckEvent \in Events

VARIABLES
  slots, rIdx, wIdx,            \* dt_queue and its read and write indices
  status,                       \* dt_status: "active" while an ack is awaited
  timer,                        \* timer_idx_data_transfer and its parameter
  calls, nextFlag, dueCredit,   \* what is left of the event being handled
  spp, credit,                  \* SPP in connected_profile, rfc_credit # 0
  le,                           \* LE link state and transmit_srv_tx_enable_fg
  inflight,                     \* LE notifications the stack has not completed
  unacked,                      \* packets the phone has and may still answer
  pushed, sends,                \* history: packets pushed, times each was sent
  rtk, dsp                      \* enable_rtk_vendor_cmd, enable_dsp_capture...

ring == <<slots, rIdx, wIdx, status, timer>>
stack == <<calls, nextFlag, dueCredit>>
radio == <<spp, credit, le, inflight, unacked>>
history == <<pushed, sends>>
config == <<rtk, dsp>>
vars == <<ring, stack, radio, history, config>>

Index == 0 .. DtQueueNo - 1

\* (Slip: the index runs past the end.)
WrapLate(i) == i + 1

Wrap(i) == IF i + 1 = DtQueueNo THEN 0 ELSE i + 1

TypeOK ==
  /\ slots \in [Index -> Packet \cup {NoPacket}]
  /\ rIdx \in Index /\ wIdx \in Index
  /\ status \in {"idle", "active"}
  /\ timer \in {"off", "pop", "ack"}
  /\ calls \in Nat /\ nextFlag \in BOOLEAN /\ dueCredit \in SUBSET BrLinks
  /\ spp \in [BrLinks -> BOOLEAN] /\ credit \in [BrLinks -> BOOLEAN]
  /\ le \in [LeLinks -> {"down", "connected", "ready", "closing"}]
  /\ inflight \in Nat /\ unacked \in SUBSET Packet
  /\ pushed \in 0 .. MaxPackets /\ sends \in [1 .. MaxPackets -> 0 .. 2]
  /\ rtk \in BOOLEAN /\ dsp \in BOOLEAN

Init ==
  /\ slots = [i \in Index |-> NoPacket] /\ rIdx = 0 /\ wIdx = 0
  /\ status = "idle" /\ timer = "off"
  /\ calls = 0 /\ nextFlag = TRUE /\ dueCredit = {}
  /\ spp = [l \in BrLinks |-> FALSE] /\ credit = [l \in BrLinks |-> FALSE]
  /\ le = [l \in LeLinks |-> "down"]
  /\ inflight = 0 /\ unacked = {}
  /\ pushed = 0 /\ sends = [i \in 1 .. MaxPackets |-> 0]
  /\ rtk \in BOOLEAN /\ dsp \in BOOLEAN

\* The task is between two events.
Between == calls = 0 /\ dueCredit = {}

\* The handler of an event calls app_transfer_pop_data_queue(_, flag).
CallPop(flag) == calls' = 1 /\ nextFlag' = flag

\* The link the packet is for can carry it.
LinkUp(p) == IF p.path = "SPP" THEN spp[p.link] ELSE le[p.link] # "down"

-----------------------------------------------------------------------------
(* app_transfer_pop_data_queue: one call.  q, at, st and tm are the ring    *)
(* after the discard of the head that next_flag asks for.                   *)

Discards == nextFlag /\ slots[rIdx] # NoPacket

AfterSlots == IF Discards THEN [slots EXCEPT ![rIdx] = NoPacket] ELSE slots
\* (Slip: the read index moves on when there is nothing to discard.)
AfterIdxAlways == IF nextFlag THEN Wrap(rIdx) ELSE rIdx

AfterIdx == IF Discards THEN Wrap(rIdx) ELSE rIdx
AfterStatus == IF nextFlag THEN "idle" ELSE status
AfterTimer == IF nextFlag THEN "off" ELSE timer

Candidate == AfterSlots[AfterIdx]

\* The packet stays at the head, with the timer and the status given.
Keep(st, tm) ==
  /\ slots' = AfterSlots /\ rIdx' = AfterIdx
  /\ status' = st /\ timer' = tm

\* The packet is given up or finished with: the next one becomes the head.
Release(tm) ==
  /\ slots' = [AfterSlots EXCEPT ![AfterIdx] = NoPacket]
  /\ rIdx' = Wrap(AfterIdx)
  /\ status' = AfterStatus /\ timer' = tm

\* The call returns, having made n more calls that discard the head.
Return(n) == calls' = calls - 1 + n /\ nextFlag' = TRUE

Transmitted(p) ==
  /\ sends' = [sends EXCEPT ![p.id] = IF @ < 2 THEN @ + 1 ELSE 2]
  /\ unacked' = IF p.event = AckEvent THEN unacked ELSE unacked \cup {p}

Attempt == /\ Candidate # NoPacket
           /\ AfterStatus = "idle"

Waits ==
  /\ Attempt => Candidate.path = "SPP" /\ ~spp[Candidate.link]
  /\ Keep(AfterStatus, AfterTimer)
  /\ Return(0)
  /\ UNCHANGED <<sends, unacked, inflight>>

SppHasNoCredit ==
  /\ Attempt /\ Candidate.path = "SPP" /\ spp[Candidate.link]
  /\ ~credit[Candidate.link]
  /\ Release("pop")
  /\ Return(0)
  /\ UNCHANGED <<sends, unacked, inflight>>

SppCanSend ==
  /\ Attempt /\ Candidate.path = "SPP" /\ spp[Candidate.link]
  /\ credit[Candidate.link]

SppSent ==
  /\ SppCanSend
  /\ Transmitted(Candidate)
  /\ \/ ~rtk /\ Keep(AfterStatus, AfterTimer) /\ Return(0)
     \/ /\ rtk /\ Candidate.event = AckEvent
        /\ \/ dsp /\ Release(AfterTimer) /\ Return(1)
           \/ ~dsp /\ Release("pop") /\ Return(0)
     \/ /\ rtk /\ Candidate.event # AckEvent
        /\ \/ dsp /\ Keep(AfterStatus, AfterTimer) /\ Return(1)
           \/ ~dsp /\ Keep("active", "ack") /\ Return(0)
  /\ UNCHANGED inflight

SppFails ==
  /\ SppCanSend
  /\ \/ dsp /\ Keep(AfterStatus, AfterTimer) /\ Return(1)
     \/ ~dsp /\ Keep(AfterStatus, "pop") /\ Return(0)
  /\ UNCHANGED <<sends, unacked, inflight>>

\* A sent LE packet is discarded by a nested call, and once more on return.
LeSent ==
  /\ Attempt /\ Candidate.path = "LE" /\ le[Candidate.link] = "ready"
  /\ Transmitted(Candidate)
  /\ inflight' = inflight + 1
  /\ Keep("active", AfterTimer)
  /\ Return(IF rtk THEN 2 ELSE 1)

\* (Slip: nothing will try again.)
LeFailsUntimed ==
  /\ Attempt /\ Candidate.path = "LE"
  /\ le[Candidate.link] \in {"connected", "ready"}
  /\ Keep(AfterStatus, AfterTimer)
  /\ Return(0)
  /\ UNCHANGED <<sends, unacked, inflight>>

LeFails ==
  /\ Attempt /\ Candidate.path = "LE"
  /\ le[Candidate.link] \in {"connected", "ready"}
  /\ Keep(AfterStatus, "pop")
  /\ Return(0)
  /\ UNCHANGED <<sends, unacked, inflight>>

LeNotConnected ==
  /\ Attempt /\ Candidate.path = "LE"
  /\ le[Candidate.link] \in {"down", "closing"}
  /\ Release("pop")
  /\ Return(0)
  /\ UNCHANGED <<sends, unacked, inflight>>

PopCall ==
  /\ calls > 0
  /\ \/ Waits \/ SppHasNoCredit \/ SppSent \/ SppFails
     \/ LeSent \/ LeFails \/ LeNotConnected
  /\ UNCHANGED <<wIdx, dueCredit, spp, credit, le, pushed, config>>

-----------------------------------------------------------------------------
(* The events.                                                              *)

\* app_transfer_push_data_queue, for a report that its link can carry.
Push(p) ==
  /\ Between
  /\ pushed < MaxPackets /\ p.id = pushed + 1
  /\ LinkUp(p) /\ (p.path = "LE" => le[p.link] # "closing")
  /\ slots[wIdx] = NoPacket
  /\ slots' = [slots EXCEPT ![wIdx] = p]
  /\ wIdx' = Wrap(wIdx)
  /\ pushed' = pushed + 1
  /\ CallPop(FALSE)
  /\ UNCHANGED <<rIdx, status, timer, dueCredit, radio, sends, config>>

\* (Slip: the queue stays blocked by the packet given up.)
TimeoutKeepsStatus ==
  /\ Between /\ timer # "off"
  /\ timer' = "off"
  /\ CallPop(FALSE)
  /\ UNCHANGED <<slots, rIdx, wIdx, status, dueCredit, radio, history, config>>

\* (Slip: the first expiry of the wait for an answer sends again.)
TimeoutResends ==
  /\ Between /\ timer # "off"
  /\ timer' = "off" /\ status' = "idle"
  /\ CallPop(FALSE)
  /\ UNCHANGED <<slots, rIdx, wIdx, dueCredit, radio, history, config>>

\* app_transfer_timeout_cb.  An expired ack wait always gives the packet up:
\* the resend count is incremented just before it is compared with one.
Timeout ==
  /\ Between /\ timer # "off"
  /\ timer' = "off" /\ status' = "idle"
  /\ CallPop(timer = "ack")
  /\ UNCHANGED <<slots, rIdx, wIdx, dueCredit, radio, history, config>>

\* app_transfer_queue_recv_ack_check, from CMD_ACK.
AckRcvd(p) ==
  /\ Between /\ p \in unacked
  /\ unacked' = unacked \ {p}
  /\ IF ~dsp /\ slots[rIdx] # NoPacket
     THEN CallPop(p.event = slots[rIdx].event)
     ELSE UNCHANGED <<calls, nextFlag>>
  /\ UNCHANGED <<ring, dueCredit, spp, credit, le, inflight, history, config>>

\* PROFILE_EVT_SEND_DATA_COMPLETE, whatever the head of the queue is by then.
SendComplete ==
  /\ Between /\ inflight > 0
  /\ inflight' = inflight - 1
  /\ CallPop(TRUE)
  /\ UNCHANGED <<ring, dueCredit, spp, credit, le, unacked, history, config>>

\* BT_EVENT_SPP_CREDIT_RCVD: the queue is popped before the credit is stored.
CreditRcvd(l, c) ==
  /\ Between /\ spp[l]
  /\ IF ~credit[l] /\ c
     THEN CallPop(FALSE) /\ dueCredit' = {l} /\ UNCHANGED credit
     ELSE /\ credit' = [credit EXCEPT ![l] = c]
          /\ UNCHANGED <<calls, nextFlag, dueCredit>>
  /\ UNCHANGED <<ring, spp, le, inflight, unacked, history, config>>

CreditStored ==
  /\ calls = 0 /\ dueCredit # {}
  /\ credit' = [l \in BrLinks |-> credit[l] \/ l \in dueCredit]
  /\ dueCredit' = {}
  /\ UNCHANGED <<ring, calls, nextFlag, spp, le, inflight, unacked>>
  /\ UNCHANGED <<history, config>>

\* BT_EVENT_SPP_CONN_CMPL: the profile is up, with or without credit.
SppConnected(l, c) ==
  /\ Between /\ ~spp[l]
  /\ spp' = [spp EXCEPT ![l] = TRUE]
  /\ credit' = [credit EXCEPT ![l] = c]
  /\ IF c THEN CallPop(FALSE) ELSE UNCHANGED <<calls, nextFlag>>
  /\ UNCHANGED <<ring, dueCredit, le, inflight, unacked, history, config>>

\* (Slip: the write index is not reset.)
QueueResetReads ==
  /\ slots' = [i \in Index |-> NoPacket] /\ rIdx' = 0 /\ UNCHANGED wIdx
  /\ status' = "idle" /\ timer' = "off"

\* (Slip: no path is found to reset.)
QueueResetNever == UNCHANGED ring

\* app_transfer_queue_reset: every slot, whichever path it is for.
QueueReset ==
  /\ slots' = [i \in Index |-> NoPacket] /\ rIdx' = 0 /\ wIdx' = 0
  /\ status' = "idle" /\ timer' = "off"

\* BT_EVENT_SPP_DISCONN_CMPL.
SppDisconnected(l) ==
  /\ Between /\ spp[l]
  /\ spp' = [spp EXCEPT ![l] = FALSE]
  /\ credit' = [credit EXCEPT ![l] = FALSE]
  /\ unacked' = {p \in unacked : p.path = "LE" \/ p.link # l}
  /\ QueueReset
  /\ UNCHANGED <<stack, le, inflight, history, config>>

\* An LE link connects, is enabled for notifications, or begins to close.
LeMoves(l, from, to) ==
  /\ Between /\ le[l] = from
  /\ le' = [le EXCEPT ![l] = to]
  /\ UNCHANGED <<ring, stack, spp, credit, inflight, unacked>>
  /\ UNCHANGED <<history, config>>

LeConnected(l) == LeMoves(l, "down", "connected")
LeReady(l) == LeMoves(l, "connected", "ready")
LeNotReady(l) == LeMoves(l, "ready", "connected")
LeClosing(l) == LeMoves(l, "connected", "closing") \/ LeMoves(l, "ready", "closing")

\* GAP_CONN_STATE_DISCONNECTED.  The stack may drop the completions it owes.
LeDisconnected(l) ==
  /\ Between /\ le[l] # "down"
  /\ le' = [le EXCEPT ![l] = "down"]
  /\ inflight' \in 0 .. inflight
  /\ unacked' = {p \in unacked : p.path = "SPP" \/ p.link # l}
  /\ QueueReset
  /\ UNCHANGED <<stack, spp, credit, history, config>>

Next ==
  \/ PopCall \/ CreditStored \/ Timeout \/ SendComplete
  \/ \E p \in Packet : Push(p) \/ AckRcvd(p)
  \/ \E l \in BrLinks, c \in BOOLEAN : CreditRcvd(l, c) \/ SppConnected(l, c)
  \/ \E l \in BrLinks : SppDisconnected(l)
  \/ \E l \in LeLinks : \/ LeConnected(l) \/ LeReady(l) \/ LeNotReady(l)
                        \/ LeClosing(l) \/ LeDisconnected(l)

Spec == Init /\ [][Next]_vars

\* A started handler runs to its end.  An expired timer is a message of the
\* queue the task serves in order: other messages delay it but cannot keep it
\* out.  A send that is tried again and again is accepted some day.
Fairness ==
  /\ WF_vars(PopCall) /\ WF_vars(CreditStored) /\ SF_vars(Timeout)
  /\ SF_vars(calls > 0 /\ (LeSent \/ SppSent) /\ PopCall)

FairSpec == Spec /\ Fairness

-----------------------------------------------------------------------------
(* Properties.                                                              *)

Count == IF slots[wIdx] # NoPacket THEN DtQueueNo
         ELSE IF wIdx >= rIdx THEN wIdx - rIdx ELSE wIdx + DtQueueNo - rIdx

\* The slot n places behind the read index.
Behind(n) == IF rIdx + n < DtQueueNo THEN rIdx + n ELSE rIdx + n - DtQueueNo

Contents == [n \in 1 .. Count |-> slots[Behind(n - 1)]]

Fifo == INSTANCE TransferFifo WITH fifo <- Contents, Capacity <- DtQueueNo

\* Whatever the pops of nested calls, late answers, lost links and resets do
\* to the ring and its indices, its users see a bounded first-in first-out
\* buffer: no packet overtakes, appears twice or hides in the ring.
ImplementsFifo == Fifo!Spec

\* A queued packet never outlives the link it was queued for: a slot that
\* named a link index reused by another phone would send it to that phone.
QueuedOnUpLinks == \A i \in Index : slots[i] # NoPacket => LinkUp(slots[i])

\* Between two events the queue is blocked exactly while the ack timer runs,
\* and then by a packet that was sent over SPP and may be acknowledged.
AwaitsAck ==
  Between =>
    /\ status = "active" <=> timer = "ack"
    /\ status = "active" => /\ slots[rIdx] # NoPacket
                            /\ slots[rIdx].path = "SPP"
                            /\ slots[rIdx].event # AckEvent
                            /\ sends[slots[rIdx].id] > 0

\* A queue that is not empty has a timer that will try its head again, except
\* that an SPP packet stays there when vendor commands are off: it is sent but
\* neither discarded nor timed.
HeadIsDriven ==
  Between /\ slots[rIdx] # NoPacket =>
    timer # "off" \/ (~rtk /\ slots[rIdx].path = "SPP")

\* With vendor commands no report is sent twice: the expiry of the wait for an
\* acknowledgement, late answers and nested pops all give the packet up.
SentAtMostOnce == rtk => \A i \in 1 .. MaxPackets : sends[i] <= 1

\* Reports leave in the order they were pushed, over both transports together.
SentInOrder ==
  [][\A i, j \in 1 .. MaxPackets :
       i < j /\ sends[j] > 0 => sends'[i] = sends[i]]_vars

\* Every report is finished with, in the end, unless an LE link stays up
\* without the phone enabling notifications, which blocks both transports.
Drains ==
  rtk /\ <>[](\A l \in LeLinks : le[l] # "connected")
    => []<>(slots[rIdx] = NoPacket)

=============================================================================
