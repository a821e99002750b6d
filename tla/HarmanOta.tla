----------------------------- MODULE HarmanOta ------------------------------
(* Firmware update over BLE (harman/app_harman_ble_ota.c).                  *)
(*                                                                          *)
(* The device pulls the package: it notifies the phone of the next range of *)
(* the file it wants, and the phone sends packets of that range.  A package *)
(* holds the voice prompts (VP) and, unless it is VP only, a compressed     *)
(* image.  Both are written to one download area: the voice prompts are     *)
(* staged there, copied to their own region, and then overwritten by the    *)
(* image.  After every write the position is saved in the NV configuration, *)
(* so that a later session can resume there (the breakpoint).               *)
(*                                                                          *)
(* Writing to flash and to the NV are separate steps: `pc' is what is left  *)
(* of the packet handler, and power may fail before each of them.  A packet *)
(* is handled as it is sent; notifications wait for the phone in `notes'.   *)
EXTENDS Naturals, Sequences

CONSTANTS
  Packages,      \* files the phone has: [ver, vpOnly, pid]
  LocalVersion,  \* version of the running firmware
  LocalPid,      \* app_harman_license_pid_get
  PacketLen,     \* ota_max_size_in_one_pack
  BufferLen,     \* OTA_WRITE_BUFFER_SIZE
  Window,        \* OTA_RECVED_PACKETS_NUM_TO_BE_REPORT
  RetryLimit,    \* the 22 of recved_offset_error_retry
  VpLen, ImgLen, \* sizes of the voice prompts and of the image
  MaxFaults,     \* bound: faults and changes of mind in a behaviour
  None           \* no breakpoint; nothing in a cell or in the VP region

ASSUME OtaAssumption ==
  /\ Packages \subseteq [ver : Nat \ {0}, vpOnly : BOOLEAN, pid : Nat]
  /\ LocalVersion \in Nat /\ LocalPid \in Nat
  /\ PacketLen \in Nat \ {0} /\ BufferLen \in Nat \ {0}
  /\ PacketLen <= BufferLen
  /\ Window \in Nat \ {0} /\ RetryLimit \in Nat \ {0}
  /\ VpLen \in Nat \ {0} /\ ImgLen \in Nat \ {0}
  /\ MaxFaults \in Nat
  /\ None \notin Packages /\ None \notin [image : 0 .. 1, rel : Nat]

VARIABLES
  active, mgr, pc,              \* ota_upgrate_status, harman_ota_mgr, see above
  checkTimer, discTimer, resetTimer,   \* the three timers of the file
  vpKnown,                      \* vp_dest_download_addr # 0, a RAM variable
  bp, record, vpDone,           \* NV: breakpoint, version on record, vp status
  area, vp, ready,              \* flash: download area, VP region, image flag
  link, notes,                  \* the LE link, and notifications not yet read
  pkg, next, left, credit, told,       \* the phone: file, range it is sending
  faults,
  spoilt    \* history: what went wrong, unnoticed by the code, with the
            \* package in flash since its download began:
            \*   "mixed"  a full package resumed the download of another file
            \*   "copy"   its prompts were staged but not copied
            \*   "hole"   an image was written, or ended, past a failed write

device == <<active, mgr, pc>>
timers == <<checkTimer, discTimer, resetTimer>>
nv == <<bp, record, vpDone>>
flash == <<area, vp, ready>>
phone == <<pkg, next, left, credit, told>>
vars == <<device, timers, vpKnown, nv, flash, link, notes, phone, faults, spoilt>>

-----------------------------------------------------------------------------
(* The package file, in units: protocol version and header at 0, firmware   *)
(* table, images.  One packet carries each of the first three.              *)

TableAt == 1
Base(i) == 2 + i * VpLen
FwSize(i) == IF i = 0 THEN VpLen ELSE ImgLen
\* The control header: inside the voice prompts, at the start of the image.
ControlAt(i) == IF i = 0 THEN Base(0) + 1 ELSE Base(1)
Images(p) == IF p.vpOnly THEN 1 ELSE 2
FileEnd == 2 + VpLen + ImgLen
Total(p) == IF p.vpOnly THEN VpLen ELSE VpLen + ImgLen

Cells == 0 .. (IF VpLen > ImgLen THEN VpLen ELSE ImgLen) - 1
Content == (Packages \X (0 .. FileEnd)) \cup {<<None, 0>>}
\* Cells 0 .. n-1 of the download area are those of image i of p.
Holds(p, i, n) == \A k \in 0 .. n - 1 : area[k] = <<p, Base(i) + k>>

\* harman_ota_mgr after its memset.
Zero == [state |-> "protocol", image |-> 0, rel |-> 0, cur |-> 0, need |-> 0,
         packets |-> 0, errors |-> 0, misses |-> 0, buf |-> <<>>, spare |-> <<>>]

States == {"protocol", "header", "table", "control", "payload", "finish"}
Note == [kind : {"want"}, at : 0 .. FileEnd, len : 0 .. FileEnd]
          \cup [kind : {"refused", "stopped", "done"}]

TypeOK ==
  /\ active \in BOOLEAN
  /\ mgr \in [state : States, image : 0 .. 1, rel : 0 .. FwSize(mgr.image),
              cur : 0 .. FileEnd, need : 0 .. FileEnd, packets : 0 .. Window,
              errors : 0 .. RetryLimit, misses : 0 .. 2,
              buf : Seq(0 .. FileEnd), spare : Seq(0 .. FileEnd)]
  /\ Len(mgr.buf) <= BufferLen /\ Len(mgr.spare) < PacketLen
  /\ pc \in {"idle", "vpState", "program", "save", "copy", "copying", "copied",
             "copyFailed", "next", "ready", "clear"}
  /\ checkTimer \in BOOLEAN /\ discTimer \in BOOLEAN /\ resetTimer \in BOOLEAN
  /\ vpKnown \in BOOLEAN /\ vpDone \in BOOLEAN /\ ready \in BOOLEAN
  /\ bp \in [image : 0 .. 1, rel : 1 .. FileEnd] \cup {None}
  /\ record \in {0} \cup {p.ver : p \in Packages}
  /\ area \in [Cells -> Content] /\ vp \in Packages \cup {None}
  /\ link \in {"up", "closing", "down"} /\ notes \in Seq(Note)
  /\ pkg \in Packages /\ next \in 0 .. FileEnd /\ left \in 0 .. FileEnd
  /\ credit \in 0 .. Window /\ told \in BOOLEAN
  /\ faults \in 0 .. MaxFaults
  /\ spoilt \subseteq {"mixed", "copy", "hole"}

Init ==
  /\ active = FALSE /\ mgr = Zero /\ pc = "idle"
  /\ checkTimer = FALSE /\ discTimer = FALSE /\ resetTimer = FALSE
  /\ vpKnown = FALSE /\ bp = None /\ record = 0 /\ vpDone = FALSE
  /\ area = [k \in Cells |-> <<None, 0>>] /\ vp = None /\ ready = FALSE
  /\ link = "up" /\ notes = <<>>
  /\ pkg \in Packages /\ next = 0 /\ left = 0 /\ credit = 0 /\ told = FALSE
  /\ faults = 0 /\ spoilt = {}

Fault == faults < MaxFaults /\ faults' = faults + 1
NoFault == faults' = faults
Spoils(kinds) == spoilt' = spoilt \cup kinds

-----------------------------------------------------------------------------
(* Notifications, the end of a session, the timers.                         *)

Tell(note) == notes' = IF link = "up" THEN Append(notes, note) ELSE notes

\* app_harman_ota_notification_report of a range, from the manager m.
Asking(m, at, len) ==
  [m EXCEPT !.cur = at, !.need = len, !.packets = 0, !.errors = 0]
Ask(m, at, len) ==
  /\ mgr' = Asking(m, at, len)
  /\ Tell([kind |-> "want", at |-> at, len |-> len])

\* harman_ble_ota_state_reset, but for the notification before it.
Reset == active' = FALSE /\ mgr' = Zero /\ checkTimer' = FALSE

\* app_harman_ota_exit.
Exit(kind) == Reset /\ Tell([kind |-> kind])

ClearBreakpoint == bp' = None /\ record' = 0

\* A file that is not taken: app_harman_ota_exit without a breakpoint.
GivenUp ==
  /\ ClearBreakpoint
  /\ active' = FALSE /\ mgr' = Zero /\ Tell([kind |-> "refused"])
  /\ UNCHANGED <<pc, vpDone, spoilt>>

\* (Slip: the second check is never armed.)
CheckTimeoutOnce ==
  /\ pc = "idle" /\ checkTimer
  /\ mgr' = Asking([mgr EXCEPT !.misses = 1], mgr.cur, mgr.need)
  /\ Tell([kind |-> "want", at |-> mgr.cur, len |-> mgr.need])
  /\ checkTimer' = FALSE
  /\ UNCHANGED <<active, pc, discTimer, resetTimer, vpKnown, nv, flash, link,
                 phone, faults, spoilt>>

\* Nothing is on its way to either side: what the phone has to send is sent,
\* or it waits for the next report.
PhoneSilent == notes = <<>> /\ (left = 0 \/ credit = 0)

\* The package check timer (3 s): it outlasts an exchange that makes progress,
\* but for a slow one.
CheckTimeout ==
  /\ pc = "idle" /\ checkTimer
  /\ IF PhoneSilent \/ link # "up" THEN NoFault ELSE Fault
  /\ IF mgr.misses + 1 # 2 /\ active
     THEN /\ Ask([mgr EXCEPT !.misses = @ + 1], mgr.cur, mgr.need)
          /\ checkTimer' = TRUE /\ active' = active
     ELSE Exit("stopped")
  /\ UNCHANGED <<pc, discTimer, resetTimer, vpKnown, nv, flash, link, phone,
                 spoilt>>

\* The delayed disconnection that app_harman_ota_reset asks for.
DiscTimeout ==
  /\ pc = "idle" /\ discTimer
  /\ discTimer' = FALSE /\ resetTimer' = TRUE
  /\ link' = IF link = "up" THEN "closing" ELSE link
  /\ UNCHANGED <<device, checkTimer, vpKnown, nv, flash, notes, phone, faults,
                 spoilt>>

\* What a restart leaves: the NV and the flash.
Restart ==
  /\ Reset /\ pc' = "idle" /\ vpKnown' = FALSE
  /\ discTimer' = FALSE /\ resetTimer' = FALSE
  /\ link' = "down" /\ notes' = <<>> /\ left' = 0
  /\ UNCHANGED <<nv, vp, pkg, next, credit, told, spoilt>>

ChipReset == pc = "idle" /\ resetTimer /\ Restart /\ UNCHANGED <<area, ready, faults>>

WriteAt == mgr.rel - Len(mgr.buf)

\* A write of the buffer that does not come to its end: its sector has been
\* erased, and with the first one the ready flag, and n units are in flash.
Torn(n) ==
  /\ area' = [k \in Cells |->
                IF k < WriteAt \/ k >= mgr.rel THEN area[k]
                ELSE IF k < WriteAt + n THEN <<pkg, mgr.buf[k - WriteAt + 1]>>
                ELSE <<None, 0>>]
  /\ ready' = (ready /\ WriteAt # 0)

\* Power fails between two steps of a handler, or in the middle of a write.
Crash ==
  /\ Fault /\ Restart
  /\ \/ UNCHANGED <<area, ready>>
     \/ pc = "program" /\ \E n \in 0 .. Len(mgr.buf) : Torn(n)

-----------------------------------------------------------------------------
(* The link, and the commands that start and end a session.                 *)

LinkLost ==
  /\ pc = "idle" /\ link # "down"
  /\ IF link = "up" THEN Fault ELSE NoFault
  /\ link' = "down" /\ notes' = <<>> /\ left' = 0
  /\ IF active THEN Reset ELSE UNCHANGED <<active, mgr, checkTimer>>
  /\ UNCHANGED <<pc, discTimer, resetTimer, vpKnown, nv, flash, pkg, next,
                 credit, told, spoilt>>

LinkUp ==
  /\ link = "down" /\ link' = "up"
  /\ UNCHANGED <<device, timers, vpKnown, nv, flash, notes, phone, faults, spoilt>>

\* OTA_STOP from the phone, or a call: the phone is told of the latter.
Interrupted(kind) ==
  /\ pc = "idle" /\ link = "up" /\ active
  /\ Fault
  /\ Reset
  /\ IF kind = "call" THEN Tell([kind |-> "stopped"]) ELSE notes' = notes
  /\ left' = IF kind = "stop" THEN 0 ELSE left
  /\ UNCHANGED <<pc, discTimer, resetTimer, vpKnown, nv, flash, link, pkg, next,
                 credit, told, spoilt>>

Acceptable(p) == p.ver >= LocalVersion /\ (p.vpOnly \/ p.pid = LocalPid)

\* CMD_HARMAN_OTA_START.  The phone starts a session when none makes progress,
\* with the file it had unless it changes its mind (a fault) or that file can
\* never be taken; it forgets what it was asked for before.
Start(p) ==
  /\ pc = "idle" /\ link = "up"
  /\ IF /\ PhoneSilent /\ ~checkTimer /\ ~told
        /\ IF Acceptable(pkg) THEN p = pkg ELSE Acceptable(p)
     THEN NoFault ELSE Fault
  /\ active' = TRUE /\ checkTimer' = FALSE
  /\ mgr' = Asking(Zero, 0, 1)
  /\ notes' = <<[kind |-> "want", at |-> 0, len |-> 1]>>
  /\ pkg' = p /\ left' = 0 /\ told' = FALSE
  /\ UNCHANGED <<pc, discTimer, resetTimer, vpKnown, nv, flash, link, next,
                 credit, spoilt>>

-----------------------------------------------------------------------------
(* CMD_HARMAN_OTA_PACKET: n units of the file from offset `at'.             *)

\* A packet of another range than the one expected.  Enough of them and of
\* packets taken make the device ask again; too many only clear the counts.
Unexpected(at) ==
  LET e == mgr.errors + 1
      m == [mgr EXCEPT !.misses = 0, !.errors = e]
  IN  /\ at # mgr.cur
      /\ IF e < RetryLimit /\ e + mgr.packets = Window
         THEN Ask(m, mgr.cur, mgr.need)
         ELSE /\ mgr' = IF e < RetryLimit THEN m
                        ELSE [m EXCEPT !.packets = 0, !.errors = 0]
              /\ notes' = notes
      /\ UNCHANGED <<active, pc, nv, faults, spoilt>>

\* The manager once a packet has been counted as the one expected.
Counted(at, n) ==
  [mgr EXCEPT !.misses = 0, !.errors = 0, !.cur = at + n,
              !.packets = IF mgr.packets + 1 < Window THEN @ + 1 ELSE Window]

\* Outside a session, or after the last image, a packet is only counted.
Ignored(at, n) ==
  /\ ~active \/ mgr.state = "finish"
  /\ mgr' = IF active /\ mgr.packets + 1 >= Window
            THEN [Counted(at, n) EXCEPT !.packets = 0] ELSE Counted(at, n)
  /\ UNCHANGED <<active, pc, nv, notes, faults, spoilt>>

\* A file without a protocol version is a fault.
ProtocolVersion(at, n) ==
  /\ active /\ mgr.state = "protocol"
  /\ \/ /\ Ask([Counted(at, n) EXCEPT !.state = "header"], 0, 1)
        /\ UNCHANGED <<active, pc, nv, faults, spoilt>>
     \/ GivenUp /\ Fault

\* (Slip: the version on record is not compared.)
RefusedBlind == ~Acceptable(pkg)

\* app_harman_ota_package_ver_check and app_harman_ota_package_pid_check.
Refused == \/ ~Acceptable(pkg)
           \/ ~pkg.vpOnly /\ record # 0 /\ record # pkg.ver

PackageHeader(at, n) ==
  /\ active /\ mgr.state = "header" /\ ~Refused
  /\ Ask([Counted(at, n) EXCEPT !.state = "table", !.rel = 0], TableAt, 1)
  /\ IF pkg.vpOnly THEN ClearBreakpoint
                   ELSE bp' = bp /\ record' = pkg.ver
  /\ Spoils(IF ~pkg.vpOnly /\ bp # None /\ record = 0 THEN {"mixed"} ELSE {})
  /\ UNCHANGED <<active, pc, vpDone, faults>>

\* (Slip: a refused package leaves the breakpoint and the record behind.)
HeaderRefusedKeeps(at, n) ==
  /\ active /\ mgr.state = "header" /\ Refused
  /\ active' = FALSE /\ mgr' = Zero /\ Tell([kind |-> "refused"])
  /\ UNCHANGED <<pc, nv, faults, spoilt>>

HeaderRefused(at, n) ==
  active /\ mgr.state = "header" /\ Refused /\ GivenUp /\ NoFault

\* Where app_harman_ble_ota_end_check begins: whether it copies the prompts.
EndCheck(image) == IF image = 0 /\ vpDone THEN "copy" ELSE "next"

\* There was no memory for the firmware table.
NoFwTable(at, n) == active /\ mgr.state = "table" /\ GivenUp /\ Fault

\* Without a breakpoint the first image is asked for from its control header.
FwTable(at, n) ==
  /\ active /\ mgr.state = "table" /\ bp = None
  /\ Ask([Counted(at, n) EXCEPT !.state = "control"], ControlAt(0), 1)
  /\ UNCHANGED <<active, pc, nv, faults, spoilt>>

\* With one the session goes on where the last one stopped.
Resume(at, n) ==
  LET m == [Counted(at, n) EXCEPT !.image = bp.image, !.rel = bp.rel]
  IN  /\ active /\ mgr.state = "table" /\ bp # None
      /\ IF bp.rel = FwSize(bp.image)
         THEN mgr' = m /\ pc' = EndCheck(bp.image) /\ notes' = notes
         ELSE /\ Ask([m EXCEPT !.state = "payload"],
                     Base(bp.image) + bp.rel, FwSize(bp.image) - bp.rel)
              /\ pc' = pc
      /\ UNCHANGED <<active, nv, faults, spoilt>>

ControlHeader(at, n) ==
  /\ active /\ mgr.state = "control"
  /\ Ask([Counted(at, n) EXCEPT !.state = "payload", !.buf = <<>>],
         Base(mgr.image) + mgr.rel, FwSize(mgr.image))
  /\ UNCHANGED <<active, pc, nv, faults, spoilt>>

\* Every Window packets the phone is asked to go on.
GoOn(m) ==
  IF m.packets >= Window
  THEN Ask(m, Base(m.image) + m.rel, FwSize(m.image) - m.rel)
  ELSE mgr' = m /\ notes' = notes

\* app_harman_ble_ota_write_to_flash begins with the state of the prompts.
WriteOf(image) == IF image = 0 THEN "vpState" ELSE "program"

\* Payload beyond the image is cut off.
Taken(n) ==
  IF mgr.rel + n > FwSize(mgr.image) THEN FwSize(mgr.image) - mgr.rel ELSE n

\* (Slip: the room in the write buffer ignores what it holds.)
RoomWhole == BufferLen

Room == BufferLen - Len(mgr.buf)

\* Payload is gathered in the write buffer; what does not fit waits in spare.
Payload(at, n) ==
  LET data == [i \in 1 .. Taken(n) |-> at + i - 1]
      fits == SubSeq(data, 1, IF Taken(n) > Room THEN Room ELSE Taken(n))
      m == [Counted(at, n) EXCEPT
              !.need = @ - Taken(n),
              !.buf = @ \o fits,
              !.rel = @ + Len(fits),
              !.spare = SubSeq(data, Len(fits) + 1, Len(data))]
  IN  /\ active /\ mgr.state = "payload"
      /\ IF Len(m.buf) = BufferLen \/ m.rel = FwSize(m.image)
         THEN mgr' = m /\ pc' = WriteOf(m.image) /\ notes' = notes
         ELSE GoOn(m) /\ pc' = pc
      /\ UNCHANGED <<active, nv, faults, spoilt>>

Packet(at, n) ==
  /\ \/ Unexpected(at)
     \/ at = mgr.cur /\ Ignored(at, n)
     \/ at = mgr.cur /\ ProtocolVersion(at, n)
     \/ at = mgr.cur /\ PackageHeader(at, n)
     \/ at = mgr.cur /\ HeaderRefused(at, n)
     \/ at = mgr.cur /\ NoFwTable(at, n)
     \/ at = mgr.cur /\ FwTable(at, n)
     \/ at = mgr.cur /\ Resume(at, n)
     \/ at = mgr.cur /\ ControlHeader(at, n)
     \/ at = mgr.cur /\ Payload(at, n)
  /\ checkTimer' = active'

-----------------------------------------------------------------------------
(* The rest of a packet's handler: one step per lasting effect.             *)

VpState ==
  /\ pc = "vpState" /\ pc' = "program"
  /\ vpDone' = (mgr.rel = VpLen) /\ vpKnown' = TRUE
  /\ UNCHANGED <<active, mgr, timers, bp, record, flash, link, notes, phone,
                 faults, spoilt>>

\* A failed write left a hole behind the place of the next one.
Holed == WriteAt # IF bp # None /\ bp.image = mgr.image THEN bp.rel ELSE 0

\* The first cells hold the header of what is in the area: writing them again
\* takes the ready flag with it.
Program ==
  /\ pc = "program" /\ pc' = "save"
  /\ area' = [k \in Cells |->
                IF k >= WriteAt /\ k < mgr.rel
                THEN <<pkg, mgr.buf[k - WriteAt + 1]>> ELSE area[k]]
  /\ ready' = (ready /\ WriteAt # 0)
  /\ spoilt' = IF mgr.image = 0 /\ WriteAt = 0 THEN {}
               ELSE spoilt \cup (IF Holed THEN {"hole"} ELSE {})
  /\ UNCHANGED <<active, mgr, timers, vpKnown, nv, vp, link, notes, phone, faults>>

\* After a write: the data kept aside goes to the buffer, and is written at
\* once when it ends the image.
Written ==
  LET m == [mgr EXCEPT !.buf = mgr.spare, !.spare = <<>>,
                       !.rel = @ + Len(mgr.spare)]
      ends == m.rel = FwSize(m.image)
  IN  IF ends
      THEN /\ mgr' = m /\ notes' = notes
           /\ pc' = IF m.buf # <<>> THEN WriteOf(m.image) ELSE EndCheck(m.image)
      ELSE GoOn(m) /\ pc' = "idle"

\* (Slip: the breakpoint counts what is still in RAM.)
SaveAhead ==
  /\ pc = "save" /\ Written
  /\ bp' = [image |-> mgr.image, rel |-> mgr.rel + Len(mgr.spare)]
  /\ UNCHANGED <<active, timers, vpKnown, record, vpDone, flash, link, phone,
                 faults, spoilt>>

Save ==
  /\ pc = "save" /\ Written
  /\ bp' = [image |-> mgr.image, rel |-> mgr.rel]
  /\ UNCHANGED <<active, timers, vpKnown, record, vpDone, flash, link, phone,
                 faults, spoilt>>

\* A failed write asks for a reset, but neither the session nor the breakpoint
\* takes notice: the handler and the phone go on until the link is closed.
ProgramFails ==
  /\ pc = "program" /\ Fault
  /\ \E n \in 0 .. Len(mgr.buf) : Torn(n)
  /\ Written /\ discTimer' = TRUE
  /\ Spoils(IF mgr.spare = <<>> /\ mgr.rel = FwSize(mgr.image)
            THEN {"hole"} ELSE {})
  /\ UNCHANGED <<active, checkTimer, resetTimer, vpKnown, nv, vp, link, phone>>

\* app_harman_ota_copy_vp.
CopyVp ==
  /\ pc = "copy"
  /\ IF vpKnown /\ area[0][2] = Base(0)
     THEN pc' = "copying" /\ vp' = None
     ELSE pc' = "copyFailed" /\ vp' = vp
  /\ UNCHANGED <<active, mgr, timers, vpKnown, nv, area, ready, link, notes,
                 phone, faults, spoilt>>

CopyEnds ==
  /\ pc = "copying" /\ pc' = "copied"
  /\ vp' = IF \E p \in Packages : Holds(p, 0, VpLen)
           THEN CHOOSE p \in Packages : Holds(p, 0, VpLen) ELSE None
  /\ UNCHANGED <<active, mgr, timers, vpKnown, nv, area, ready, link, notes,
                 phone, faults, spoilt>>

\* One of the writes of the copy fails.
CopyFails ==
  /\ pc = "copying" /\ pc' = "copyFailed" /\ Fault
  /\ UNCHANGED <<active, mgr, timers, vpKnown, nv, flash, link, notes, phone,
                 spoilt>>

\* The prompts count as copied in either case, and the update goes on.
CopyStored ==
  /\ pc \in {"copied", "copyFailed"} /\ pc' = "next"
  /\ vpDone' = FALSE
  /\ discTimer' = (discTimer \/ pc = "copyFailed")
  /\ Spoils(IF pc = "copyFailed" THEN {"copy"} ELSE {})
  /\ UNCHANGED <<active, mgr, checkTimer, resetTimer, vpKnown, bp, record, flash,
                 link, notes, phone, faults>>

NextImage ==
  /\ pc = "next" /\ mgr.image + 1 < Images(pkg) /\ pc' = "idle"
  /\ Ask([mgr EXCEPT !.rel = 0, !.image = @ + 1, !.state = "control"],
         ControlAt(mgr.image + 1), 1)
  /\ UNCHANGED <<active, timers, vpKnown, nv, flash, link, phone, faults, spoilt>>

LastImage ==
  /\ pc = "next" /\ mgr.image + 1 = Images(pkg) /\ pc' = "ready"
  /\ checkTimer' = FALSE
  /\ mgr' = [Asking(mgr, Total(pkg), 0) EXCEPT !.rel = 0, !.image = 0]
  /\ Tell([kind |-> "done"])
  /\ UNCHANGED <<active, discTimer, resetTimer, vpKnown, nv, flash, link, phone,
                 faults, spoilt>>

\* app_harman_ota_clear_notready_flag: what begins like the image may be
\* started at next boot.
ClearNotReady ==
  /\ pc = "ready" /\ pc' = "clear"
  /\ ready' = (ready \/ (~pkg.vpOnly /\ area[0][2] = Base(1)))
  /\ mgr' = [mgr EXCEPT !.state = "finish"]
  /\ UNCHANGED <<active, timers, vpKnown, nv, area, vp, link, notes, phone, faults,
                 spoilt>>

Finish ==
  /\ pc = "clear" /\ pc' = "idle"
  /\ ClearBreakpoint /\ discTimer' = TRUE
  /\ UNCHANGED <<active, mgr, checkTimer, resetTimer, vpKnown, vpDone, flash, link,
                 notes, phone, faults, spoilt>>

-----------------------------------------------------------------------------
(* The phone.                                                               *)

PhoneReads ==
  /\ link = "up" /\ notes # <<>> /\ pc = "idle"
  /\ notes' = Tail(notes)
  /\ LET note == Head(notes)
     IN  IF note.kind = "want"
         THEN next' = note.at /\ left' = note.len /\ credit' = Window /\ told' = told
         ELSE left' = 0 /\ told' = (note.kind = "done") /\ UNCHANGED <<next, credit>>
  /\ UNCHANGED <<device, timers, vpKnown, nv, flash, link, pkg, faults, spoilt>>

NoteLost ==
  /\ link = "up" /\ notes # <<>> /\ pc = "idle"
  /\ Fault /\ notes' = Tail(notes)
  /\ UNCHANGED <<device, timers, vpKnown, nv, flash, link, phone, spoilt>>

\* The phone sends the next packet of the range it was asked for.
Sends ==
  LET n == IF left < PacketLen THEN left ELSE PacketLen
  IN  /\ pc = "idle" /\ link = "up" /\ left > 0 /\ credit > 0
      /\ next' = next + n /\ left' = left - n /\ credit' = credit - 1
      /\ UNCHANGED <<pkg, told, discTimer, resetTimer, vpKnown, flash, link>>

PhoneSends ==
  Sends /\ Packet(next, IF left < PacketLen THEN left ELSE PacketLen)

PacketLost ==
  /\ Sends /\ Fault
  /\ UNCHANGED <<device, checkTimer, nv, notes, spoilt>>

-----------------------------------------------------------------------------
Handler ==
  VpState \/ Program \/ Save \/ ProgramFails
    \/ CopyVp \/ CopyEnds \/ CopyFails \/ CopyStored
    \/ NextImage \/ LastImage \/ ClearNotReady \/ Finish

Next ==
  \/ Handler
  \/ PhoneReads \/ PhoneSends \/ NoteLost \/ PacketLost
  \/ \E p \in Packages : Start(p)
  \/ \E kind \in {"stop", "call"} : Interrupted(kind)
  \/ CheckTimeout \/ DiscTimeout \/ ChipReset \/ Crash
  \/ LinkLost \/ LinkUp

Spec == Init /\ [][Next]_vars

\* The phone keeps at it, timers expire, and a handler runs to its end.
FairSpec ==
  /\ Spec
  /\ WF_vars(Handler /\ faults' = faults)
  /\ WF_vars(PhoneReads) /\ WF_vars(PhoneSends /\ faults' = faults)
  /\ WF_vars(\E p \in Packages : faults' = faults /\ Start(p))
  /\ WF_vars(CheckTimeout /\ faults' = faults)
  /\ WF_vars(DiscTimeout) /\ WF_vars(ChipReset)
  /\ WF_vars(LinkLost /\ faults' = faults) /\ WF_vars(LinkUp)

-----------------------------------------------------------------------------
(* What may be started after an update is one whole package: when a session *)
(* ends the voice prompts are those of its package, and an image that is    *)
(* flagged as ready is whole and goes with the voice prompts in place.  It  *)
(* holds for every loss, restart and torn or failed write but three, each   *)
(* in `spoilt': prompts that are not copied, because a write of the copy    *)
(* failed or the device restarted before vp_ota_status was cleared; a write *)
(* past a failed one, or an image that ends with a failed write; and a full *)
(* package after an unfinished VP only one.  The first write of a download  *)
(* from scratch ends them.                                                  *)
(* (app_harman_ble_ota_end_check; the code checks no digest)                *)
DoneIsWhole ==
  spoilt = {} =>
    /\ mgr.state = "finish" /\ active => vp = pkg
    /\ ready => \E p \in Packages : ~p.vpOnly /\ Holds(p, 1, ImgLen) /\ vp = p

(* The breakpoint promises no more than the flash holds, also when power    *)
(* fails at any step or in a write: what precedes it is of one package,     *)
(* that of the version on record when there is one, and the voice prompts   *)
(* of an image are in place, or staged and still to be copied.  The three   *)
(* exceptions are those of DoneIsWhole.                                     *)
(* (app_harman_ota_breakpoint_save, app_harman_ota_package_ver_check)       *)
BreakpointIsBacked ==
  spoilt = {} /\ bp # None => \E p \in Packages :
    /\ IF record = 0 THEN p.vpOnly ELSE ~p.vpOnly /\ p.ver = record
    /\ IF bp.image = 0 /\ (bp.rel < VpLen \/ vpDone)
       THEN Holds(p, 0, bp.rel)
       ELSE vp = p /\ (bp.image = 1 => Holds(p, 1, bp.rel))

(* Between two packets of a session a lost one is noticed: the check timer  *)
(* runs from the first packet until the last image.                         *)
(* (app_harman_ble_ota_package_check_timer_start)                           *)
SessionIsTimed ==
  active /\ mgr.state \notin {"protocol", "finish"} /\ pc = "idle" => checkTimer

(* With finitely many faults, and a phone that starts again, an update is   *)
(* completed: no loss, refusal, call or restart leaves a state that neither *)
(* side gets out of.                                                        *)
Completes == <>(mgr.state = "finish")

(* The comments of app_harman_ota_package_ver_check say that an update that *)
(* resumes is checked to be that of the last time ("same with last OTA"):   *)
(* what is in flash before the breakpoint is of the package that resumes.   *)
ResumesItsOwn ==
  /\ active /\ mgr.state = "payload" /\ bp # None /\ bp.image = mgr.image
  /\ spoilt \subseteq {"mixed"}
  => Holds(pkg, bp.image, bp.rel)

=============================================================================
