# Specifications of the JBL Tune 530BT firmware

This directory holds TLA+ specifications of the headset firmware under
`src/src/sample/rws` ("rws", Realtek RTL87x3E SDK), the TLC configurations that
model-check them and TLAPS proofs about them. Paths below are relative to
`src/src/sample/rws` of the repository unless they start with `doc/`.

The only build target is `single_2M_lea_dual_bank0` (`board/evb/single`): one
headset without a second earbud (`F_APP_ERWS_SUPPORT` 0), multilink with two
phones (`F_APP_MAX_BT_POINT_NUM` 2, `MAX_BR_LINK_NUM` 2), LE audio, Google Fast
Pair with audio switch (SASS), Harman features on, dongle code off. Code that is
compiled out for this target is not modelled.

## 1. The system and its parts

The firmware is one application task on a small RTOS: every stack event, timer
expiry, key and command is a message of one queue, handled to its end before the
next one. There are no locks. What is hard is not parallelism inside the task
but the order of messages: requests to the Bluetooth stack are answered later,
in any order between devices, links appear and vanish on their own, and several
timers run beside them.

| Part | Files | State it keeps | Operations | Interacts with |
|---|---|---|---|---|
| To-do queue | `app_linkback.c/.h` | a pool of 8 linked items, head and tail | insert normal/forced, take first, remove profiles, delete all/group, share a budget | called by the engine only |
| Connection engine | `app_bt_policy.c`, `_api.c`, `_int.h`, rest of `app_linkback.c` | state, active node, timers, flags | power on, linkback run, connect/disconnect, pairing, stop/restore, shutdown, about 40 stack events | stack, link table, points, bond list, everything that wants to know of connections |
| Link table | `app_link_util.c` | `br_link[2]`, `le_link[]`: profiles, ids, flags per link | alloc, find, free | engine, profiles, audio |
| Multipoint slots | `app_bt_point.c` | points shared by BR and LE links, audio link count | link connected/disconnected, audio link up/down | engine, topology control |
| Multilink | `app_multilink.c`, `app_single_multilink_customer.c` | active phone, pending disconnections, timers | switch, preempt, disconnect inactive link | engine, audio |
| Audio switch | `app_sass_policy.c`, `gfps/` | switch preference, in-use account keys | messages from phones | engine, multilink |
| Audio | `app_audio_policy.c`, `app_hfp.c`, `app_a2dp.c`, `app_avrcp.c`, `eq/` | call status per link, stream and volume states | stack events, keys | DSP library |
| Sniff / role | `app_sniff_mode.c`, `app_bt_sniffing.c`, `app_roleswap*.c`, `app_relay.c` | masks that forbid sniff mode | set and clear per reason | link table |
| Bonds | `app_bond.c`, `app_ble_bond.c` | bond flags, priorities | save, delete | bond library |
| BLE | `app_ble_*.c` | advertising sets, connections, random address | start/stop with causes | Harman app, Fast Pair |
| LE audio, topology | `lea/`, `multitopology/` | LE audio state machines | events, mode switch | engine, points |
| Transport | `app_transfer.c`, `app_cmd.c`, `app_report.c` | event queues with retries | push, pop, time out | SPP, BLE |
| Update | `app_ota.c`, `harman/app_harman_ble_ota.c` | image offsets, packet counters | commands | flash |
| Charging, power | `app_charger.c`, `ext_charger/`, `app_auto_power_off.c`, `app_dlps.c` | charger state, reasons against power off | ADC, timers | LEDs, engine (power off) |
| User interface | `app_key_process.c`, `app_mmi.c`, `app_led.c` | key timers, LED tables | key events | all |

`PROJECT.json` lists every part with its status. The part that carries the
headset's own protocol, and where most of the hard orders are, is the
**connection engine**: after power on, or when a link is lost, it reconnects to
the phones it knows ("linkback"). Three more parts are modelled because their
orders are as hard: the link tables with the multipoint slots, the data transfer
queue, and the firmware update.

What makes the engine correct: a session pages one device at a time and
gives every page a limit; it always has something that will call it back; it
ends only when nothing is queued, and leaves neither node nor timer behind; a
device is never queued twice or queued while it is active; the phones loaded at
power on share one time budget however often they take turns. What makes the
queue correct: the items in the list are exactly the used ones, the list ends at
its tail, and callers see a bounded sequence in which a device has one place.

What makes the slots correct: a point lasts exactly as long as a link of its
phone, never points at another phone's entry, and the counters that decide
admission, power off and sniff mode are exact. What makes the transfer queue
correct: it is a first-in first-out buffer, sends a report at most once, blocks
only while it waits for an answer, and is always driven. What makes the update
correct: the breakpoint kept over a restart promises no more than the flash
holds, only a whole package is flagged for the next boot, and the update ends.

## 2. Modules

| Module | Models | Notes |
|---|---|---|
| `LinkbackNodes` | nodes and the results of the queue operations, as operators on sequences | shared vocabulary, no behaviour |
| `LinkbackTodo` | the abstract queue: what the engine is promised | any call in any order |
| `LinkbackQueue` | the pool of linked items (`linkback_todo_queue_*`) | implements `LinkbackTodo` by walking from `head` |
| `LinkbackEngine` | the active node, `app_bt_policy_linkback_run`, the linkback and stable handlers, timers, links, searches, profiles | extends `LinkbackNodes` |
| `Links` | link tables, multipoint slots, call and power-off holds (`app_link_util.c`, `app_bt_point.c`, the link handlers of `app_bt_policy.c` and `app_ble_gap.c`, `app_sniff_mode.c`) | composes the four parts over one link event at a time |
| `TransferFifo` | the abstract buffer: what users of the transfer queue are promised | enter, leave, empty |
| `Transfer` | the ring, its timer, and the SPP, LE, credit and acknowledgement events | implements `TransferFifo` |
| `HarmanOta` | the update session, its buffers, flash, NV, timers, the LE link and the phone | crashes between any two lasting effects |
| `MC*` | values for TLC | |
| `*_proofs` | lemmas and theorems, one module per component (`LinkbackSession_proofs` is the engine's second) | section 4 |

`Reload`, `StepFail` and the other operators on the active node are the
functions of `app_linkback.c` on `linkback_active_node`. Operators whose comment
begins with "(Slip" are deliberately wrong variants of the definition that
follows; `PROJECT.json` names, for every property of every run, the one that
must break it. `map` leaves out tuples of variables, types and one-line
helpers whose lines are those of the definition that uses them.

### How the state corresponds to the code

The engine (`LinkbackEngine`):

| Variable | Code |
|---|---|
| `mode` | `cur_state`: `STATE_STARTUP`, `STATE_AFE_LINKBACK`, the three stable states as one, `STATE_STOP` |
| `running` | control is inside `app_bt_policy_linkback_run`; no other message is handled until it is left |
| `todo`, `act` | `linkback_todo_queue`, `linkback_active_node` (one value stands for every invalid one: nothing reads its fields before the next load) |
| `used` | `os_sys_time_get() - gtiming` |
| `timer`, `delay` | `timer_idx_linkback` (ticks left plus one), `timer_idx_linkback_delay` |
| `afterStop` | `after_stop_sdp_todo_linkback_run_flag` |
| `tracked`, `profs`, `closeAfter` | `br_link` entries, their `connected_profile`, `disconn_acl_flg` with `plan_disconnect_profs` |
| `later`, `ind` | `timer_idx_later_avrcp`, `src_conn_ind` with its timers |
| `link`, `page`, `inc`, `auth`, `sdp`, `pconn`, `pdisc` | the stack (external): links, our pages, accepted incoming connections, searches and profile requests under way |

An action is the handling of one message, from the event in
`app_bt_policy_bt_cback` or the timer callback through the pre-handler, which
updates the table, to the handler of the current state. The exception is the
RETRY loop of `linkback_run`: each turn is an action, with `running` excluding
everything else, so that the loop is not folded into every handler. A command
raised inside a handler (DID for the first profile) is part of its action, in
the order the code does it.

The slots (`Links`): `br` and `le` are the tables of `app_db`, a 0 index is the
null pointer, and `point` holds indices where the code holds pointers into these
tables. `count` is `bt_point_mgr.bt_point_num` and `link_num`; each recount
operator updates the fields its event updates. `up`, `accepted` and `dialing`
are what the stack has and has promised. `sco` is `sco_handle` of an entry.
`sniffOff` and `stayOn` are one bit each of the masks against sniff mode and
against automatic power off. Two history variables say which LE links have lost
their part of `stayOn`: `overlooked` (up but not counted when another link's end
cleared it) and `released` (open when `mtc_shutdown` cleared it for all). A handler that frees a table entry, removes the
point's link and recounts is one action, in the order of the code.

The transfer queue (`Transfer`): `slots`, `rIdx`, `wIdx`, `status`, `timer` are
`dt_queue` and its neighbours. `app_transfer_pop_data_queue` calls itself; each
call is an action, `calls` says how many have still to run, and nothing else is
handled before they have. The order in which a nested call discards a head that
the outer call discards again on its return is kept. `credit` only says whether
there is any. `dueCredit` is the credit stored after the pop the same event
causes. The parameters `rtk` and `dsp` are switched by the phone elsewhere and
fixed within a behaviour.

The update (`HarmanOta`): `mgr` is `harman_ota_mgr`, its states by name. Offsets
are in units, so that a package is a protocol header, a table, the voice prompts
and an image. `bp`, `record`, `vpDone` are the NV fields
`harman_breakpoint_offset` with the image index, `harman_record_ota_version` and
`vp_ota_status`. `area` is the download area; every cell says which unit of
which package it holds, so an image is whole when its cells are consecutive and
of one package. `pc` is what a packet's handler has still to do: one step per
write to flash or NV, so that power can fail in between, and a write itself may
stop halfway (`Torn`), for lack of power or because it failed. The history
variable `spoilt` names what has gone wrong, without the code taking notice, with
the package in flash since its download began: `mixed`, `copy` or `hole` (section
3). `notes` are
notifications the phone has not read; `next`, `left`, `credit` are the packets it
will send.

### Assumptions about the stack

- A page ends with success or failure; cancelling one may come too late, the
  link then comes up and is closed by the disconnection the stack still owes.
- A page that meets an existing link is answered (link exists) before that link
  is reported down. A link reported down ends the searches and profile requests
  on it without further events the engine acts on (the codes of
  `app_bt_policy.c` 3676-3680 and 3750-3752 tell it to wait).
- A profile is connected only on an authenticated link, a search on an absent
  link pages first, and the stack answers every request in the end.
- A call's end is reported before the end of its link. A phone has one LE link at
  a time, and its LE identity is its public address.
- The stack may drop completions of an LE link that ends; the phone acknowledges
  any packet it has seen, late or never. A packet of the update is handled when
  it is sent, or lost.
- An incoming connection that was accepted comes up or fails, with any cause a
  page can fail with; the engine is told of both alike.
- A write to flash may fail or be cut short with any part of its data in place.
  The result of the erase before it is ignored by the code
  (`harman/app_harman_ble_ota.c` 524, 532); a failed erase is taken to show as a
  failed write, which reads its data back. A buffer is a sector of flash, so a
  write erases what it is about to write and nothing else. A file without a
  protocol version and a lack of memory for the firmware table are faults.

### Bounds

Engine: disturbances (a stop, a command, a lost link, an incoming phone, a busy
controller...) are limited by `Budget` and by kind through `Inputs`; answers
are not limited. Time counts in ticks with timeouts of one or two ticks, which
is enough for a node to fail with time left, with none left, and to be put back
once in between. `used` stops counting above every timeout. With two phones one
is active while one is queued, so taking turns, the group and reinsertion all
happen; three phones fill both links with one to go. Budget 2 lets a
disturbance meet the consequences of another (`engine_two`, `engine_three`).
`engine_live` has Budget 1, for its fairness: what it checks of single steps,
`EndsOnlyWhenDrained`, is proved for any number of disturbances.

`Links` has no bound but its tables: three phones for two entries and two points
fill every table and give a freed entry to another phone. `Transfer` pushes at
most `MaxPackets` (3) reports through a ring of two slots, so that it wraps, is
full, and is reset and used again; the code's ring has 16. `HarmanOta` admits
`MaxFaults` (3) losses, failures, crashes and changes of mind: enough for a
failure, a restart in what follows it, and one more while the next session
resumes. Packets (2 units), buffer (3) and images (4) are such that packets
straddle the buffer, and what waits in the spare buffer ends the image; in the
code they are 4 KB buffers and packets of the negotiated size. The four packages are prompts only, two full
ones of different versions, and one for another product.

## 3. Runs

| Run | Instance | Shows |
|---|---|---|
| `queue` | 3 devices for a pool of 2, 2 profiles, 2 timeouts | types, the list is well formed, the pool exact, the refinement of `LinkbackTodo` |
| `engine_two` | 2 phones, all kinds of disturbance, Budget 2 | types, one place per device, the group budget uniform and shrinking, timers never early, nobody forgotten, the run loop gets on, never stalls, quiet outside a session |
| `engine_three` | 3 phones, 2 links, 4 profiles, lost links, refusals and disconnect commands, Budget 2 | every pending close still has a profile to wait for and is driven, pages only the active device, every page is timed, search results go to their profile |
| `engine_live` | 2 phones, all kinds of disturbance but a busy controller, phones that page the headset and disconnect commands, Budget 1, fairness | every session ends, and ends drained |
| `links` | 3 phones, 2 BR and 2 LE entries, 2 points, SASS on | points match links, links keep points, counters exact, power and sniff holds |
| `transfer` | one SPP and one LE link, ring of 2, 3 reports, fairness | the refinement of `TransferFifo`, order, at most once, blocking only on an acknowledgement, always driven, drains |
| `ota` | 4 packages, 3 faults, fairness | the breakpoint is backed, only whole packages finish, the timer covers the session, every update completes in the end |
| `find_*` | smallest instances | section 5 |

Runs with `CHECK_DEADLOCK FALSE` are of systems that really stop: a headset that
is connected and left alone, a queue whose reports are all sent, a finished
update. That a session may not stop in the middle is `NeverStalls`,
`HeadIsDriven`, `SessionIsTimed` and the liveness properties.

**Fairness.** `engine_live` and two findings: the run loop and power on are
weakly fair: the task goes on. Ticks, expired timers and the stack's answers are
strongly fair, because the handler that is running disables them again and
again: the queue of the task is served in order, so a message that is there
again and again is handled. Nothing is assumed of the user, the phones or the
disturbances. `transfer`: a started handler runs to its end, an expired timer is
handled though other events delay it, and a send that is tried again and again
is accepted some day (the notification buffer of the stack drains). `ota`: a
handler runs to its end, timers expire, a closing link ends, and the phone reads,
sends, reconnects and starts again; faults are finitely many and never fair.

Some properties hold only under conditions the runs make visible, and the
unrestricted forms fail in the model for reasons listed as hazards:

- `SearchIsCurrent` needs no phone-side connections and no stale delay timer in
  the middle of a search; `CloseIsDriven` needs nobody to reconnect a profile
  while the link is being closed (`disconn_acl_flg` is not reset by a
  connection); `PagingIsTimed` needs no delay retry to meet the linkback timeout
  (the fourth finding). `PagesOnlyActive` needs a controller that is never busy
  and phones that never page the headset: already one incoming connection of the
  active phone that fails is taken for the failure of its page, puts the node
  back and pages the next phone while the first page is out. `NeverStalls` can
  fail when there are more phones than links, two of three coming in while an
  untimed page succeeds (the third link has no table entry). Section 4 has the
  inputs for which each of the five is proved.
- `LinksHavePoints`, `PowerHeld` and `CallHoldsSniff` name by history variables
  (`crowded`, `overlooked` and `released`, `exposed`) the links the code really
  forgets: a BR link made while every point was taken never gets one, even if one
  becomes free; an LE link that is up but not authenticated, or in the table without a point,
  does not keep its power-off reason when another link ends; no link that is open
  when LE audio is shut down keeps it, counted and authenticated or not, because
  `mtc_shutdown` clears the reason without a look at the links; a call still being
  set up does not keep sniff mode off when another one fails or ends.
- `HeadIsDriven` excepts SPP with vendor commands off, where a sent packet is
  neither discarded nor timed, and `Drains` an LE link whose notifications are
  never enabled, which blocks both transports.
- `BreakpointIsBacked` and `DoneIsWhole` say nothing of a package in flash once
  `spoilt` is not empty; all the behaviours that spoil it are in the run, and the
  first write of a download from scratch empties it. It is spoilt by a full
  package that resumes at the breakpoint of another file (`mixed`, the fifth
  finding); by prompts that are staged but not copied (`copy`: a write of the
  copy fails, or the device restarts between the last save of the prompts and the
  clearing of `vp_ota_status`, and the address for the copy is only in RAM; the
  code then clears `vp_ota_status`, goes on, and may report success at the end
  without the prompts in place, 889-911); and by a write past a failed one, or an
  image that ends with a failed write (`hole`: the next save moves the breakpoint
  past it). A failed write alone, a torn write and a restart anywhere else do not
  spoil it.

## 4. Proofs

`LinkbackNodes_proofs` has the lemmas about the queue operators. The two that
carry the others: replacing nodes without touching their devices keeps a good
queue (`MapKeepsGood`), and the nodes that survive the end of their group are in
bijection with the places of the shorter queue (`RankOnto`, by counting).

- `TodoAlwaysGood`: the abstract queue never exceeds its pool and never holds a
  device twice.
- `EngineTypeOK`, `EngineOnePlace`, `EngineQuiet`: type correctness, one place
  per device, nothing of a session outlives it, for any devices, profiles,
  timeouts, table size, kinds and number of disturbances.

- `EngineCloseAwaits`: a link that is to be closed after its profiles still has
  one of them, so there is always an end of a profile left that closes it.

- `EngineGroupBudget`, `EngineBudgetShrinks` (`LinkbackSession_proofs`): the group
  loaded at power on has one time budget, and no member of it gains time while a
  session lasts.

- `EngineLimitNotEarly`, `EngineNobodyForgotten`, `EngineRunAdvances`
  (`LinkbackSession_proofs`): the timer of a node never fires before the node's
  time is up, a queued phone waits until its turn comes or its group's time is
  over, and every turn of the run loop gets on.

- `EngineEndsDrained`, `EnginePagesOnlyActive`, `EnginePagingIsTimed`,
  `EngineNeverStalls`, `EngineCloseIsDriven`, `EngineSearchIsCurrent`
  (`LinkbackSession_proofs`): a session ends drained, pages only the device whose
  turn it is, under its time limit, and never stalls; what is to be closed is
  being disconnected, and a search is for the profile whose turn it is; each for
  the inputs under which the code keeps it, below.

Those of the last item have hypotheses on the inputs and the table, the others none. All
hold for every value of the constants that satisfies the assumptions
`QueueMaxAssumption`, `EngineAssumption` and `ProfAssumption`: the pool is not
empty, the bond list has no duplicates, fits the pool and names profiles for
every device, the timeouts of the configuration and everything left of them are
timeouts, and profiles are among the nine of `linkback_prof_arr`.

The argument for the engine is one inductive invariant, `EInv`. `TypeOK` is not
inductive: a search is started for the *current* profile, which is "none" once a
node has nothing left. `NodeOK` adds that this only happens inside the run,
where the node is dropped before anything else. One place per device is not
inductive either: a forced node inserted from a stable state is harmless only
because no node is active there, which is `QuietOutsideSession`; and a lost
active device is queued while still active, which is harmless only because the
same handler marks the node for dropping. The proof has one lemma per group of
actions, one case per action, and no fact about the stack beyond types.

The group budget needs one observation more, `StepShape`: a step keeps the
budgets of the queue's members and of the active node, takes the first node,
puts the active node back with what is left of its turn, or loads the bonded
devices outside a session. Which actions do which is shown action by action; that
the budget stays uniform and only shrinks then has four cases. Uniformity is what
the second result needs when a node is put back: the others of the group are cut
to what is left of *its* limit, which is less than theirs only if it was equal.

A node's limit is kept twice, by its timer and by its own clock (`used` against
`tmo`). `LimitNotEarly` is inductive with `EInv`: a tick takes from the timer
what it adds to the clock, and whoever raises `tmo` restarts the timer
(`NextLimit`). The converse is not true, and not meant: adding profiles while
others are queued restarts the timer but not the clock, so a node may use up its
time by the clock and is then not put back though its timer still runs.

That nobody is forgotten is shown backwards, from a queued node that a step
leaves out: an insertion, a merge and the sharing of a budget keep every device
(`InsertAllQueued`, `MapAllQueued`), so only taking the first node, the end of a
group and a new session are left (`NextLeaves`), and the group only ends with
the time of its active member (`UseLeftTimeQueued`) or when another phone takes
the last link.

The run loop ends because `RunAdvances` bounds its turns: each takes a node from
the queue, drops the active one, or lowers `Work`, a number: six per profile
that remains, three while the current profile is none of them (which a
disconnect command can cause), and two less the retries. `StepWork` is the
lemma about the end of a profile, `ProfsFinite` makes the count a number.

The end of a session needs `Planned`: no queued node is without profiles. An
insertion refuses such a node and a merge only adds, so of all handlers only the
removal of profiles can break it (`NextQueueShape` lists what a step does with
the queue without that one), and a run that cannot load the first node is the
only way to end a session with others still queued.

That the engine is called back has the invariant `Waits`: `NeverStalls` says
nothing of a page whose search was stopped or of an entry whose link is gone,
and both would strand the session one message later. With it the cases are: no
link, and there is a page or a delay; a tracked link, and there is a delay, a
search or the connection of the current profile. What remains is a link without
an entry, which the engine ignores. `EngineNeverStalls` excludes it in either of
two ways: the table has room for every device (`Room`, from which `Fits`: every
link has its entry), or links come up by the engine's own pages only and no page
succeeds after its limit (`Calm`, from which `CalmInv`). `CalmInv` is also the
invariant of the two theorems about pages: a page that is not being cancelled is
for the active node, which waits for it outside the run, and once the time of
that node is over its page is being cancelled or its link has an entry.

The last two theorems are about one device at a time. `Alone` says that neither a
phone nor the user connects or stops anything, on top of `Calm`; the headset
may still be told to disconnect, lose links, be left and be refused for security.
Then five things are disjoint for every device and profile: planned in the queue
(`QueueFits`), the turn of the active node (`NodeFits`), on its way, connected,
and asked to go (`TableFits`); and what is asked to go and still connected is
being disconnected, which with `EngineCloseAwaits` is `CloseIsDriven`. One
exception runs through the proof, `LeftOver`: AVRCP is started behind A2DP, out of
its turn, so it may be on its way while the node is at another profile, but never
while A2DP is still wanted. Most handlers only take something away from a device
(`OnlyLess`), and that keeps all of it (`LessFits`); the others are the start of a
profile, its end, a new node and the commands. For the searches, `SearchFits` adds
that those of the active device are for its current profile, that a queued device
has none, and that a device with neither has at most one of DID, on a link where
nothing else is on its way.

Most hypotheses are needed: without them TLC finds a counterexample on two or
three phones. Two are not known to be; the argument uses them:

| Theorem | Hypothesis | Without it |
|---|---|---|
| `EngineEndsDrained` | no disconnect commands | the first finding of section 5: a queued node loses all its profiles and ends the session |
| `EnginePagesOnlyActive` | `Calm`: no busy controller, no phone that pages us | the incoming connection of the active phone fails, which puts the node back and pages the next one while the first page is out; the delay timer of a node outlives it (`leave`, `busy`, `disconnect`), restarts the run during the page of the next node and drops that node |
| `EnginePagingIsTimed` | `Calm` | the fourth finding: a limit that passes during the delay of a busy page only cuts the delay short, and the node is paged without limit |
| `EngineNeverStalls` | `Room` or `Calm` | a connection indication delays a node until its limit has passed, so that it is paged without one; another phone takes the last entry, and the page succeeds without an entry, which the engine ignores |
| `EngineCloseIsDriven` | `Alone`: no connection by a phone or the user, no stop | a profile that is to be disconnected is connected again, or the device comes back before its entry is gone, so `disconn_acl_flg` and the profiles to wait for outlive the disconnection (`connect`, `phone` or `stop` with `disconnect`) |
| `EngineCloseIsDriven` | no refused profiles | not known; a profile that is searched twice could be asked for again while it is on its way |
| `EngineSearchIsCurrent` | `Alone` | a search left over from an earlier node of the device is under way when it gets a new one (`connect` with `loss`; `phone` with `disconnect` and `stop`) |
| `EngineSearchIsCurrent` | no disconnect commands | not known, `engine_three` has them and finds none; a device could have a first profile, and a DID search, a second time |
| `EngineNeverStalls` | `Lea = {}` | the third finding: the node of a device last used over LE audio has its timer only, and when that has fired nothing is left under way |

**`LinkbackQueue_proofs`** proves the three invariants of the pool (`QueueTypeOK`,
`QueueWellFormed`, `QueuePoolExact`) and that it implements `LinkbackTodo`
(`QueueImplementsTodo`), for any devices, profiles, timeouts and pool size, from
`PoolAssumption` (the pool has an item) and `NoAddrAssumption`. None of the three
is inductive: a list that ends at `tail` says nothing of what an insertion does
to items that are not in it. The invariant `QueueInv` names the list: a chain of
different items from `head` along `next` to `tail`, whose items are exactly the
used ones, and with no device in two of them (an insertion looks for the first
item of a device only). One lemma per operation gives the chain of the next
state and what it does to the sequence of nodes; `QueueStep` puts them together.

The walk, and both loops of `linkback_todo_queue_delete_group_member`, are
functions defined by recursion over numbers. What they compute is proved by least
counterexample: a nonempty set of numbers has a least element (`Least`, from the
library's theorem that `<` is well-founded on them), so a set that holds 0 and
each successor holds all (`Induct`), a step can be taken any number of times
(`Iterated`), and the function the definition chooses is that one (`DropTurns`,
`BehindTurns`). The loops need their invariants, `Dropped` and `Unlinked`: the
second says for every pair of neighbours that stay that the first is linked to
the second, once the loop has passed them. The places of the shorter list are the
ranks of the nodes that stay (`RankOrder`), as in `WithoutGroup`.

**`Transfer_proofs`** proves every safety property of the transfer queue and the
refinement of `TransferFifo`, for any ring size, links, events and number of
reports, from `TransferAssumption`. The invariant `TransInv` says what `TypeOK`
does not: the used slots are exactly the ones from the read to the write index,
with the ids increasing from the head on; a packet behind the head has not been
sent; between two calls of the pop function the status is "active" only for the
kinds of head `AwaitsAck` names or for an LE packet whose nested discard is still
to come. From it a pop either keeps or removes places at the front, which is what
the abstract buffer allows; order and at-most-once follow because a send can only
be of the head.

**`Links_proofs`** proves all seven properties of `Links` for any numbers of
phones, entries and points, from `LinksAssumption`. `PowerHeld` is about the
links that are neither `overlooked` nor `released`: after `mtc_shutdown` it says
nothing of the links then open. The invariant `LinkInv` adds
that every entry's phone is up, at most one entry is of one phone, points and
entries name each other exactly while both exist, and each counter is the
cardinality it stands for; cardinalities of sets that change in one element are
lemmas. It needs the rule that every event which removes a link also recounts.

**`HarmanOta_proofs`** proves the four safety properties of the update for any
packages, sizes, windows and number of faults, from `OtaAssumption` alone.
`BreakpointIsBacked` is not inductive: what a save may promise
depends on what the buffers hold and on what a resumed session believes.
`OtaInv` has two halves: `Steady` holds always, and `Clean` as long as nothing has
spoilt the package in flash. Together they say, for each place of the handler
(`pc`) and state of the session, where the buffered units belong in the file (`Buffers`), whose package the
breakpoint is and that the session with payload is of that package (`Owned`), how
far image and breakpoint are and that there is no hole between them
(`Progress`), and that an image flagged as ready is not being overwritten
(`Whole`). A packet and every step of its handler then keep it one by one, and a
restart between any two, or a write torn anywhere, needs nothing else than what
is in the NV and the flash (`Stops`, `TornKeeps`). The three exceptions are where
the argument breaks: a mixed resumption contradicts `Owned`, prompts that are not
copied and a write past a hole `Progress`; each puts its name into `spoilt` and
leaves `Steady` to be shown.

Checked by TLC only: everything temporal (liveness under fairness is outside the
prover's reach). Every safety property of a passing run is the statement of a
theorem, those of the table above for fewer inputs. The runs stay within the inputs of
the theorems but for one: `engine_three` checks `SearchIsCurrent` with disconnect
commands too.

## 5. Where code and comments disagree

1. `find_empty_plan`: a disconnect command for a queued device leaves a node with
   an empty plan; when its turn comes the load refuses it and the session ends
   "have no valid node" with other devices still queued.
2. `find_left_profiles`: after the timeout of a connected node the engine is to
   "stop connect left profile", but the run goes by `remain_profs` while only
   `plan_profs` is cleared, so it connects them all.
3. `find_le_audio`: the timeout of a node left to LE audio waits for a callback
   of a page and search that were never started.
4. `find_busy_timeout`: a timeout that meets the delay timer runs the node again
   without any limit; a phone out of range is then paged for ever.
5. `find_mixed_resume`: a package of voice prompts leaves a breakpoint with no
   version on record; the next full package takes it for its own, resumes in the
   middle of its prompts and keeps the other file's first part.

## 6. Not modelled

In the engine: pairing mode commands and their timers, shutdown steps,
DUT mode, HID, DID and SPP search details, learning of bond flags, disconnection
of the inactive phone on a third connection, advertising and LED indications,
codec and role negotiation, everything of the second earbud. Fields of a node
that the single build never sets (`is_special`, `check_bond_flag`, search
parameters) are left out. Closed libraries (Bluetooth host, DSP, bond storage)
appear only as the answers the engine gets.

In `Links`: the ids and audio fields of an entry, LE phones that hide their
identity (they share the zero address until a second one connects), roles of a
BR link. In `Transfer`: the UART queue, iAP, dongle and capture paths that are
off in this build, the sizes of packets and credits. In `HarmanOta`: digests and
signatures (computed by ROM code), the second bank's choice, other commands of
the same service. The SDK's vendored libraries (cryptography, tuya, findmy) make
up nine tenths of the repository's lines and are not this program's logic; the
other parts of section 1 are listed with their reasons in `PROJECT.json`.

## 7. Plan

1. *Engine, second part*: pairing commands with `disconnect_for_pairing_mode`
   and the discoverable timers; shutdown steps with their retries. Properties:
   a session that is cleared is left, the flag is about the device it was set
   for, shutdown ends with every link down.
2. *`Multilink`*: the active phone over calls and streams of two links, on top of
   `Links`.
3. *`ExtCharger`*: the charger's state machine with its timers.
4. Proofs: `EngineCloseIsDriven` with refused profiles and `EngineSearchIsCurrent`
   with disconnect commands, if they hold. `EnginePagesOnlyActive` cannot get by
   with less excluded: one phone that pages the headset is enough for TLC to find
   a counterexample, and so are a busy controller, a phone that leaves and a
   disconnect command together.
