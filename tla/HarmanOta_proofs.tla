-------------------------- MODULE HarmanOta_proofs --------------------------
(* The safety properties of the firmware update, for any packages, sizes,   *)
(* windows and number of faults.  OtaInv has two halves.  One holds always: *)
(* it ties the manager and its buffers to what is left of the packet        *)
(* handler, and the breakpoint in the NV to the place of the next write.    *)
(* The other holds while nothing has spoilt the package in flash (see       *)
(* `spoilt'), and the first write of a download from scratch restores it    *)
(* from the first half: the breakpoint is backed by the flash, so that      *)
(* power may fail before any step of the handler or in the middle of a      *)
(* write.                                                                   *)
EXTENDS HarmanOta, Integers, TLAPS

Writing == {"vpState", "program", "save"}
Copying == {"copy", "copying", "copied", "copyFailed"}

\* What the manager is in each state of a session.
Phases ==
  /\ pc # "idle" => active
  /\ ~active => mgr.state = "protocol"
  /\ ~active \/ mgr.state = "finish" => mgr.need = 0
  /\ mgr.state # "payload" => mgr.buf = <<>> /\ mgr.spare = <<>>
  /\ mgr.state \in {"protocol", "header"} => pc = "idle"
  /\ mgr.state \in {"protocol", "header", "table"} /\ pc = "idle" =>
       mgr.image = 0 /\ mgr.rel = 0
  /\ mgr.state = "control" => pc = "idle" /\ mgr.rel = 0
  /\ mgr.state = "payload" => pc # "clear"
  /\ mgr.state = "table" => pc \notin Writing \cup {"clear"}
  /\ mgr.state = "finish" => pc \in {"idle", "clear"}
  /\ mgr.image = 1 => ~pkg.vpOnly
  /\ pc = "ready" => mgr.need = 0
  /\ pc \notin {"idle", "ready", "clear"} => checkTimer
  /\ SessionIsTimed

\* The buffers hold what follows the part of the image that is written.
Buffers ==
  mgr.state = "payload" =>
    /\ Len(mgr.buf) <= mgr.rel
    /\ \A k \in 1 .. Len(mgr.buf) : mgr.buf[k] = Base(mgr.image) + WriteAt + k - 1
    /\ \A k \in 1 .. Len(mgr.spare) : mgr.spare[k] = Base(mgr.image) + mgr.rel + k - 1
    /\ pc \in Writing \cup {"idle"} =>
         /\ mgr.rel + Len(mgr.spare) + mgr.need = FwSize(mgr.image)
         /\ mgr.need # 0 =>
              mgr.cur = Base(mgr.image) + mgr.rel + Len(mgr.spare)
    /\ pc = "idle" => /\ mgr.need # 0 /\ mgr.spare = <<>>
                      /\ Len(mgr.buf) < BufferLen
    /\ pc \in Writing => mgr.buf # <<>>
    /\ pc \notin Writing \cup {"idle"} => mgr.buf = <<>> /\ mgr.spare = <<>>

\* What holds of the record, the breakpoint and the prompts in any session.
Steady ==
  /\ bp # None => bp.rel <= FwSize(bp.image)
  /\ mgr.state \in {"table", "control", "payload"} \/ pc = "clear" =>
        IF pkg.vpOnly THEN record = 0 ELSE record = pkg.ver /\ pkg.pid = LocalPid
  /\ mgr.state = "table" /\ pkg.vpOnly => bp = None
  /\ mgr.state = "control" /\ mgr.image = 0 => bp = None
  /\ mgr.state = "control" \/ (pc \in Copying \cup {"next"} /\ mgr.image = 0) =>
        bp = None \/ bp.image = 0
  /\ mgr.state = "payload" /\ pc \in Writing \cup {"idle"} /\ bp # None =>
       \/ bp.image = mgr.image /\ bp.rel <= WriteAt
       \/ bp.image = 0 /\ mgr.image = 1
  /\ pc = "vpState" => mgr.image = 0
  /\ pc \in {"program", "save"} /\ mgr.image = 0 =>
       vpKnown /\ vpDone = (mgr.rel = VpLen)
  /\ pc \in Copying => mgr.image = 0 /\ mgr.rel = VpLen /\ vpDone

\* What the breakpoint promises, as the breakpoint of p.
BackedBy(p) ==
  /\ IF record = 0 THEN p.vpOnly
                   ELSE ~p.vpOnly /\ p.ver = record /\ p.pid = LocalPid
  /\ IF bp.image = 0 /\ (bp.rel < VpLen \/ vpDone)
     THEN Holds(p, 0, bp.rel)
     ELSE vp = p /\ (bp.image = 1 => Holds(p, 1, bp.rel))

At(i, r) == bp # None /\ bp.image = i /\ bp.rel = r

Owned ==
  /\ bp # None => \E p \in Packages : BackedBy(p)
  /\ mgr.state \in {"table", "control", "payload"} \/ pc = "clear" =>
        (bp # None => BackedBy(pkg))

\* How far the session is, and how far the breakpoint.
Progress ==
  /\ mgr.state = "control" /\ mgr.image = 1 => At(0, VpLen) /\ ~vpDone
  /\ mgr.state = "payload" /\ pc \in Writing \cup {"idle"} =>
       /\ mgr.image = 1 => \/ At(0, VpLen) /\ ~vpDone
                           \/ bp # None /\ bp.image = 1 /\ bp.rel < ImgLen
       /\ ready => WriteAt = 0
  /\ pc = "save" => Holds(pkg, mgr.image, mgr.rel) /\ ~ready
  /\ pc \in Copying => At(0, VpLen)
  /\ pc = "copied" => vp = pkg
  /\ pc = "next" => /\ At(mgr.image, FwSize(mgr.image))
                    /\ mgr.image = 0 => ~vpDone
  /\ pc \in {"ready", "clear"} =>
       /\ At(Images(pkg) - 1, FwSize(Images(pkg) - 1))
       /\ pkg.vpOnly => ~vpDone

Whole ==
  /\ mgr.state = "finish" => vp = pkg
  /\ ready => /\ \E p \in Packages : ~p.vpOnly /\ Holds(p, 1, ImgLen) /\ vp = p
              /\ bp = None \/ At(1, ImgLen)

Clean == spoilt = {} => Owned /\ Progress /\ Whole

-----------------------------------------------------------------------------
(* The package file *)

\* The offsets of the file as numbers.
LEMMA Sizes ==
  /\ VpLen \in Nat /\ VpLen > 0 /\ ImgLen \in Nat /\ ImgLen > 0
  /\ FileEnd = 2 + VpLen + ImgLen
  /\ Base(0) = 2 /\ Base(1) = 2 + VpLen
  /\ FwSize(0) = VpLen /\ FwSize(1) = ImgLen
  /\ 0 .. VpLen - 1 \subseteq Cells /\ 0 .. ImgLen - 1 \subseteq Cells
  /\ 0 \in Cells
<1>1. VpLen \in Nat /\ VpLen > 0 /\ ImgLen \in Nat /\ ImgLen > 0
  BY OtaAssumption
<1> QED
  BY <1>1 DEF FileEnd, Base, FwSize, Cells

\* An image lies in the file and fits the download area.
LEMMA ImageFacts ==
  ASSUME NEW i \in 0 .. 1
  PROVE  /\ FwSize(i) \in Nat /\ FwSize(i) > 0
         /\ Base(i) \in Nat /\ Base(i) >= 2
         /\ Base(i) + FwSize(i) <= FileEnd /\ FileEnd \in Nat
         /\ 0 .. FwSize(i) - 1 \subseteq Cells
         /\ ControlAt(i) \in Nat /\ ControlAt(i) + 1 <= FileEnd
<1>1. i = 0 \/ i = 1
  OBVIOUS
<1> QED
  BY <1>1, Sizes DEF ControlAt

-----------------------------------------------------------------------------
(* Parts of the invariant *)

Mgr == [state : States, image : 0 .. 1, rel : Nat, cur : 0 .. FileEnd,
        need : 0 .. FileEnd, packets : 0 .. Window, errors : 0 .. RetryLimit,
        misses : 0 .. 2, buf : Seq(0 .. FileEnd), spare : Seq(0 .. FileEnd)]

MgrOK(m) ==
  /\ m \in Mgr /\ m.misses <= 1 /\ m.rel <= FwSize(m.image)
  /\ Len(m.buf) <= BufferLen /\ Len(m.spare) < PacketLen

NotesOK ==
  /\ notes \in Seq(Note)
  /\ \A i \in 1 .. Len(notes) :
       notes[i].kind = "want" => notes[i].at + notes[i].len <= FileEnd

FlagsOK ==
  /\ active \in BOOLEAN
  /\ pc \in {"idle", "vpState", "program", "save", "copy", "copying", "copied",
             "copyFailed", "next", "ready", "clear"}
  /\ checkTimer \in BOOLEAN /\ discTimer \in BOOLEAN /\ resetTimer \in BOOLEAN
  /\ vpKnown \in BOOLEAN

KeptOK ==
  /\ vpDone \in BOOLEAN /\ ready \in BOOLEAN
  /\ bp \in [image : 0 .. 1, rel : 1 .. FileEnd] \cup {None}
  /\ record \in {0} \cup {p.ver : p \in Packages}
  /\ area \in [Cells -> Content] /\ vp \in Packages \cup {None}
  /\ spoilt \subseteq {"mixed", "copy", "hole"}

PhoneOK ==
  /\ link \in {"up", "closing", "down"} /\ pkg \in Packages
  /\ next \in 0 .. FileEnd /\ left \in 0 .. FileEnd /\ next + left <= FileEnd
  /\ credit \in 0 .. Window /\ told \in BOOLEAN
  /\ faults \in 0 .. MaxFaults

Types == MgrOK(mgr) /\ NotesOK /\ FlagsOK /\ KeptOK /\ PhoneOK

WithinFile == pc \in Writing \cup {"idle"} => mgr.cur + mgr.need <= FileEnd

Core == Phases /\ Buffers /\ Steady /\ Clean

OtaInv == Types /\ WithinFile /\ Core

\* The types of the invariant are those of the specification.
LEMMA TypesSuffice == Types => TypeOK
<1> SUFFICES ASSUME Types PROVE TypeOK
  OBVIOUS
<1>1. /\ mgr \in Mgr /\ mgr.image \in 0 .. 1
      /\ mgr.rel \in Nat /\ mgr.rel <= FwSize(mgr.image)
  BY DEF Types, MgrOK, Mgr
<1>2. mgr.rel \in 0 .. FwSize(mgr.image)
  BY <1>1, ImageFacts
<1>3. mgr \in [state : States, image : 0 .. 1, rel : 0 .. FwSize(mgr.image),
              cur : 0 .. FileEnd, need : 0 .. FileEnd, packets : 0 .. Window,
              errors : 0 .. RetryLimit, misses : 0 .. 2,
              buf : Seq(0 .. FileEnd), spare : Seq(0 .. FileEnd)]
  BY <1>1, <1>2 DEF Mgr
<1> QED
  BY <1>3 DEF TypeOK, Types, MgrOK, NotesOK, FlagsOK, KeptOK, PhoneOK

\* The manager after its memset.
LEMMA ZeroFacts ==
  /\ MgrOK(Zero)
  /\ Zero.state = "protocol" /\ Zero.image = 0 /\ Zero.rel = 0 /\ Zero.need = 0
  /\ Zero.cur = 0 /\ Zero.buf = <<>> /\ Zero.spare = <<>>
<1>1. /\ Zero.state = "protocol" /\ Zero.image = 0 /\ Zero.rel = 0 /\ Zero.need = 0
      /\ Zero.cur = 0 /\ Zero.buf = <<>> /\ Zero.spare = <<>> /\ Zero.misses = 0
  BY DEF Zero
<1>2. Zero \in Mgr
  <2>1. FileEnd \in Nat /\ Window \in Nat /\ RetryLimit \in Nat
    BY Sizes, OtaAssumption
  <2>2. <<>> \in Seq(0 .. FileEnd)
    OBVIOUS
  <2> QED
    BY <2>1, <2>2 DEF Zero, Mgr, States
<1>3. Zero.rel <= FwSize(Zero.image)
  BY <1>1, Sizes
<1>4. Len(Zero.buf) = 0 /\ Len(Zero.spare) = 0
  BY <1>1
<1> QED
  BY <1>1, <1>2, <1>3, <1>4, OtaAssumption DEF MgrOK

\* Clearing the manager keeps its types.
LEMMA Zeroed ==
  ASSUME mgr' = Zero
  PROVE  MgrOK(mgr)' /\ WithinFile'
<1>1. MgrOK(mgr)'
  BY ZeroFacts DEF MgrOK
<1>2. mgr'.cur + mgr'.need <= FileEnd
  BY ZeroFacts, Sizes
<1> QED
  BY <1>1, <1>2 DEF WithinFile

\* Faults are counted up to their bound.
LEMMA FaultBound ==
  ASSUME PhoneOK, Fault \/ NoFault
  PROVE  faults' \in 0 .. MaxFaults
BY OtaAssumption DEF PhoneOK, Fault, NoFault

\* A notification of a range of the file joins the others.
LEMMA TellKeeps ==
  ASSUME NotesOK, NEW note \in Note, Tell(note),
         note.kind = "want" => note.at + note.len <= FileEnd
  PROVE  NotesOK'
<1>1. CASE notes' = notes
  BY <1>1 DEF NotesOK
<1>2. CASE notes' = Append(notes, note)
  BY <1>2 DEF NotesOK
<1> QED
  BY <1>1, <1>2 DEF Tell

\* What a request for a range changes of the manager.
LEMMA AskingFacts ==
  ASSUME NEW m, MgrOK(m), NEW at \in 0 .. FileEnd, NEW len \in 0 .. FileEnd
  PROVE  /\ MgrOK(Asking(m, at, len))
         /\ Asking(m, at, len).cur = at /\ Asking(m, at, len).need = len
         /\ Asking(m, at, len).state = m.state /\ Asking(m, at, len).rel = m.rel
         /\ Asking(m, at, len).image = m.image /\ Asking(m, at, len).buf = m.buf
         /\ Asking(m, at, len).spare = m.spare
<1> DEFINE r == Asking(m, at, len)
<1>1. m \in Mgr /\ 0 \in 0 .. Window /\ 0 \in 0 .. RetryLimit
  BY OtaAssumption DEF MgrOK
<1>2. r = [m EXCEPT !.cur = at, !.need = len, !.packets = 0, !.errors = 0]
  BY DEF Asking
<1> HIDE DEF r
<1>3. /\ r.cur = at /\ r.need = len /\ r.state = m.state /\ r.rel = m.rel
      /\ r.image = m.image /\ r.buf = m.buf /\ r.spare = m.spare
      /\ r.misses = m.misses /\ r \in Mgr
  BY <1>1, <1>2 DEF Mgr
<1> QED
  BY <1>3 DEF MgrOK, r

\* A request for a range of the file.
LEMMA AskFacts ==
  ASSUME NotesOK, NEW m, MgrOK(m), NEW at \in 0 .. FileEnd, NEW len \in 0 .. FileEnd,
         at + len <= FileEnd, Ask(m, at, len)
  PROVE  /\ MgrOK(mgr)' /\ NotesOK'
         /\ mgr'.cur = at /\ mgr'.need = len
         /\ mgr'.state = m.state /\ mgr'.rel = m.rel /\ mgr'.image = m.image
         /\ mgr'.buf = m.buf /\ mgr'.spare = m.spare
<1>1. mgr' = Asking(m, at, len) /\ Tell([kind |-> "want", at |-> at, len |-> len])
  BY DEF Ask
<1>2. [kind |-> "want", at |-> at, len |-> len] \in Note
  BY DEF Note
<1>3. NotesOK'
  BY <1>1, <1>2, TellKeeps
<1>4. MgrOK(mgr)'
  <2>1. MgrOK(Asking(m, at, len))
    BY AskingFacts
  <2> QED
    BY <1>1, <2>1 DEF MgrOK
<1> QED
  BY <1>1, <1>3, <1>4, AskingFacts

\* The invariant holds when the bud is switched on.
LEMMA InitInv == Init => OtaInv
<1> SUFFICES ASSUME Init PROVE OtaInv
  OBVIOUS
<1>1. Types
  <2>1. MgrOK(mgr) /\ FlagsOK
    BY ZeroFacts DEF Init, FlagsOK
  <2>2. KeptOK
    BY DEF Init, KeptOK, Content
  <2>3. NotesOK
    BY DEF Init, NotesOK
  <2>4. PhoneOK
    <3>1. FileEnd \in Nat /\ Window \in Nat /\ MaxFaults \in Nat
      BY Sizes, OtaAssumption
    <3>2. /\ 0 \in 0 .. FileEnd /\ 0 \in 0 .. Window /\ 0 \in 0 .. MaxFaults
          /\ 0 + 0 <= FileEnd
      BY <3>1
    <3> QED
      BY <3>2 DEF Init, PhoneOK
  <2> QED
    BY <2>1, <2>2, <2>3, <2>4 DEF Types
<1>2. WithinFile /\ Phases /\ Buffers
  BY ZeroFacts, Sizes DEF Init, WithinFile, Phases, Buffers, SessionIsTimed
<1>3. Steady
  BY ZeroFacts DEF Init, Steady, Copying
<1>4. Owned /\ Progress /\ Whole
  BY ZeroFacts DEF Init, Owned, Progress, Whole, Copying
<1> QED
  BY <1>1, <1>2, <1>3, <1>4 DEF OtaInv, Core, Clean

\* Steps that leave the session, the NV and the flash alone, but for counts.
LEMMA Aside ==
  ASSUME Core, UNCHANGED <<active, pc, vpKnown, nv, flash, pkg, spoilt>>,
         mgr'.state = mgr.state, mgr'.image = mgr.image, mgr'.rel = mgr.rel,
         mgr.state = "payload" => mgr'.cur = mgr.cur,
         mgr'.need = mgr.need, mgr'.buf = mgr.buf,
         mgr'.spare = mgr.spare,
         checkTimer' \/ checkTimer' = checkTimer \/ (pc = "idle" /\ ~active)
  PROVE  Core'
<1>1. Phases'
  BY DEF Core, Phases, SessionIsTimed
<1>2. Buffers'
  BY DEF Core, Buffers, WriteAt
<1>3. Steady'
  BY DEF Core, Steady, nv, WriteAt
<1>4. Owned <=> Owned'
  BY DEF Owned, BackedBy, Holds, nv, flash
<1>5. Progress => Progress'
  BY DEF Progress, Holds, nv, flash, At, WriteAt
<1>6. Whole => Whole'
  BY DEF Whole, Holds, nv, flash, At
<1> QED
  BY <1>1, <1>2, <1>3, <1>4, <1>5, <1>6 DEF Core, Clean

\* What the end of a session in the middle of a step leaves: all that the
\* breakpoint promises, and nothing that is flagged as ready but was not.
Preserves ==
  /\ \A p \in Packages : bp # None /\ BackedBy(p) => BackedBy(p)'
  /\ ready' => ready /\ UNCHANGED <<area, vp>>

\* The session ends, in the middle of a step or between two.
LEMMA Stops ==
  ASSUME Core, active' = FALSE, mgr' = Zero, pc' = "idle",
         UNCHANGED <<nv, pkg, spoilt>>, spoilt = {} => Preserves
  PROVE  Core'
<1>1. Phases' /\ Buffers'
  BY ZeroFacts DEF Phases, Buffers, SessionIsTimed
<1>2. Steady'
  BY ZeroFacts DEF Core, Steady, Copying, nv
<1>3. spoilt = {} => Owned /\ Whole /\ Preserves
  BY DEF Core, Clean
<1>4. spoilt = {} => Owned'
  BY <1>3, ZeroFacts DEF Owned, Preserves, nv
<1>5. Progress'
  BY ZeroFacts DEF Progress, Copying
<1>6. spoilt = {} => Whole'
  BY <1>3, ZeroFacts DEF Whole, Holds, nv, At, Preserves
<1> QED
  BY <1>1, <1>2, <1>4, <1>5, <1>6 DEF Core, Clean

\* Between two steps the flash is left as it is.
LEMMA Ends ==
  ASSUME Core, active' = FALSE, mgr' = Zero, pc' = "idle",
         UNCHANGED <<nv, flash, pkg, spoilt>>
  PROVE  Core'
<1>1. Preserves
  BY DEF Preserves, BackedBy, Holds, nv, flash
<1> QED
  BY <1>1, Stops

-----------------------------------------------------------------------------
(* The timers, the link and the phone *)

\* The check timer asks again, or ends the session.
LEMMA CheckTimeoutInv == OtaInv /\ CheckTimeout => OtaInv'
<1> SUFFICES ASSUME OtaInv, CheckTimeout PROVE OtaInv'
  OBVIOUS
<1>1. /\ pc = "idle" /\ pc' = "idle"
      /\ UNCHANGED <<discTimer, resetTimer, vpKnown, nv, flash, link, phone,
                     spoilt>>
      /\ faults' \in 0 .. MaxFaults
  BY FaultBound DEF CheckTimeout, OtaInv, Types
<1>2. CASE mgr.misses + 1 # 2 /\ active
  <2> DEFINE m == [mgr EXCEPT !.misses = @ + 1]
  <2>1. Ask(m, mgr.cur, mgr.need) /\ checkTimer' = TRUE /\ active' = active
    BY <1>2 DEF CheckTimeout
  <2>2. /\ MgrOK(mgr) /\ NotesOK /\ mgr.cur + mgr.need <= FileEnd
        /\ mgr.cur \in 0 .. FileEnd /\ mgr.need \in 0 .. FileEnd
    BY <1>1 DEF OtaInv, Types, WithinFile, MgrOK, Mgr
  <2>3. /\ MgrOK(m) /\ m.state = mgr.state /\ m.image = mgr.image
        /\ m.rel = mgr.rel /\ m.buf = mgr.buf /\ m.spare = mgr.spare
    <3>1. mgr.misses \in 0 .. 1 /\ mgr.misses # 1 /\ mgr \in Mgr
      BY <1>2, <2>2 DEF MgrOK, Mgr
    <3>2. mgr.misses + 1 = 1
      BY <3>1
    <3>3. m = [mgr EXCEPT !.misses = 1]
      BY <3>2
    <3> QED
      BY <3>1, <3>3, <2>2 DEF MgrOK, Mgr
  <2> HIDE DEF m
  <2>4. /\ MgrOK(mgr)' /\ NotesOK' /\ mgr'.cur = mgr.cur /\ mgr'.need = mgr.need
        /\ mgr'.state = mgr.state /\ mgr'.rel = mgr.rel /\ mgr'.image = mgr.image
        /\ mgr'.buf = mgr.buf /\ mgr'.spare = mgr.spare
    BY <2>1, <2>2, <2>3, AskFacts
  <2>5. Core'
    BY <1>1, <2>1, <2>4, Aside DEF OtaInv, phone
  <2>6. Types' /\ WithinFile'
    BY <1>1, <2>1, <2>2, <2>4 DEF OtaInv, Types, FlagsOK, KeptOK, PhoneOK, nv, flash,
      phone, WithinFile
  <2> QED
    BY <2>5, <2>6 DEF OtaInv
<1>3. CASE ~(mgr.misses + 1 # 2 /\ active)
  <2>1. active' = FALSE /\ mgr' = Zero /\ checkTimer' = FALSE
        /\ Tell([kind |-> "stopped"])
    BY <1>3 DEF CheckTimeout, Exit, Reset
  <2>2. [kind |-> "stopped"] \in Note
    BY DEF Note
  <2>3. NotesOK'
    BY <2>1, <2>2, TellKeeps DEF OtaInv, Types
  <2>4. Core'
    BY <1>1, <2>1, Ends DEF OtaInv, phone
  <2>5. Types' /\ WithinFile'
    BY <1>1, <2>1, <2>3, Zeroed DEF OtaInv, Types, FlagsOK, KeptOK, PhoneOK, nv,
      flash, phone
  <2> QED
    BY <2>4, <2>5 DEF OtaInv
<1> QED
  BY <1>2, <1>3

\* A write in the middle of which power fails, or flash, tears only what the
\* breakpoint does not promise, and takes the ready flag with it.
LEMMA TornKeeps ==
  ASSUME OtaInv, pc = "program", NEW n \in 0 .. Len(mgr.buf), Torn(n),
         UNCHANGED <<bp, record, vpDone, vp>>
  PROVE  /\ area' \in [Cells -> Content] /\ ready' \in BOOLEAN
         /\ spoilt = {} => Preserves
<1>1. /\ mgr.image \in 0 .. 1 /\ mgr.rel \in Nat /\ mgr.buf \in Seq(0 .. FileEnd)
      /\ Len(mgr.buf) \in Nat /\ pkg \in Packages /\ ready \in BOOLEAN
      /\ area \in [Cells -> Content] /\ FileEnd \in Nat /\ Cells \subseteq Nat
  <2>1. FileEnd \in Nat /\ Cells \subseteq Nat
    BY Sizes DEF Cells
  <2> QED
    BY <2>1 DEF OtaInv, Types, MgrOK, Mgr, KeptOK, PhoneOK
<1>2. mgr.state = "payload" /\ Len(mgr.buf) <= mgr.rel
  <2>1. mgr.state \in States
    BY DEF OtaInv, Types, MgrOK, Mgr
  <2>2. mgr.state = "payload"
    BY <2>1 DEF OtaInv, Core, Phases, States, Writing
  <2> QED
    BY <2>2 DEF OtaInv, Core, Buffers
<1>3. WriteAt \in Nat /\ WriteAt <= mgr.rel /\ mgr.rel = WriteAt + Len(mgr.buf)
  BY <1>1, <1>2 DEF WriteAt
<1>4. ready' = (ready /\ WriteAt # 0) /\ ready' \in BOOLEAN
  BY <1>1 DEF Torn
<1>5. /\ area' = [k \in Cells |->
                    IF k < WriteAt \/ k >= mgr.rel THEN area[k]
                    ELSE IF k < WriteAt + n THEN <<pkg, mgr.buf[k - WriteAt + 1]>>
                    ELSE <<None, 0>>]
  BY DEF Torn
<1>6. area' \in [Cells -> Content]
  <2>1. <<None, 0>> \in Content
    BY DEF Content
  <2>2. ASSUME NEW k \in Cells, ~(k < WriteAt \/ k >= mgr.rel)
        PROVE  <<pkg, mgr.buf[k - WriteAt + 1]>> \in Content
    <3>1. k - WriteAt + 1 \in 1 .. Len(mgr.buf)
      BY <1>1, <1>3, <2>2
    <3>2. mgr.buf[k - WriteAt + 1] \in 0 .. FileEnd
      BY <1>1, <3>1
    <3> QED
      BY <1>1, <3>2 DEF Content
  <2> QED
    BY <1>1, <1>5, <2>1, <2>2
<1>7. ASSUME spoilt = {} PROVE Preserves
  <2>1. Progress
    BY <1>7 DEF OtaInv, Core, Clean
  <2>2. ~ready'
    BY <1>2, <1>4, <2>1 DEF Progress, Writing
  <2>3. ASSUME NEW p \in Packages, bp # None, BackedBy(p) PROVE BackedBy(p)'
    <3>1. /\ bp.image \in 0 .. 1 /\ bp.rel \in Nat /\ bp.rel <= FwSize(bp.image)
      BY <2>3 DEF OtaInv, Types, KeptOK, Core, Steady
    <3>2. CASE bp.image = mgr.image /\ bp.rel <= WriteAt
      <4>1. ASSUME NEW k \in 0 .. bp.rel - 1 PROVE area'[k] = area[k]
        <5>1. k \in Cells /\ k < WriteAt
          <6>1. /\ FwSize(bp.image) \in Nat
                /\ 0 .. FwSize(bp.image) - 1 \subseteq Cells
            BY <3>1, ImageFacts
          <6>2. k \in 0 .. FwSize(bp.image) - 1 /\ k < WriteAt
            BY <1>3, <3>1, <3>2, <4>1, <6>1
          <6> QED
            BY <6>1, <6>2
        <5> QED
          BY <1>5, <5>1
      <4>2. \A i \in 0 .. 1 : Holds(p, i, bp.rel) => Holds(p, i, bp.rel)'
        BY <4>1 DEF Holds
      <4> QED
        BY <2>3, <3>1, <4>2 DEF BackedBy
    <3>3. CASE ~(bp.image = mgr.image /\ bp.rel <= WriteAt)
      <4>1. bp.image = 0 /\ mgr.image = 1
        BY <1>2, <2>3, <3>3 DEF OtaInv, Core, Steady, Writing
      <4>2. bp.rel = VpLen /\ ~vpDone
        BY <1>2, <2>1, <4>1 DEF Progress, Writing, At
      <4> QED
        BY <2>3, <4>1, <4>2, Sizes DEF BackedBy
    <3> QED
      BY <3>2, <3>3
  <2> QED
    BY <2>2, <2>3 DEF Preserves
<1> QED
  BY <1>4, <1>6, <1>7

\* The session ends with the bud off.
LEMMA RestartInv ==
  ASSUME OtaInv, Restart, faults' \in 0 .. MaxFaults,
         area' \in [Cells -> Content], ready' \in BOOLEAN, spoilt = {} => Preserves
  PROVE  OtaInv'
<1>1. Core'
  BY Stops DEF OtaInv, Restart, Reset
<1>2. Types' /\ WithinFile'
  <2>1. MgrOK(mgr)' /\ WithinFile' /\ FlagsOK'
    BY Zeroed DEF Restart, Reset, FlagsOK
  <2>2. NotesOK' /\ KeptOK' /\ PhoneOK'
    BY Sizes DEF OtaInv, Types, NotesOK, KeptOK, PhoneOK, Restart, nv
  <2> QED
    BY <2>1, <2>2 DEF Types
<1> QED
  BY <1>1, <1>2 DEF OtaInv

\* A reset, or a power failure before any step of the handler or in a write.
LEMMA OffInv == OtaInv /\ (ChipReset \/ Crash) => OtaInv'
<1> SUFFICES ASSUME OtaInv, ChipReset \/ Crash PROVE OtaInv'
  OBVIOUS
<1>1. Restart /\ faults' \in 0 .. MaxFaults /\ UNCHANGED <<nv, vp>>
  BY FaultBound DEF OtaInv, Types, PhoneOK, ChipReset, Crash, Restart
<1>2. CASE UNCHANGED <<area, ready>>
  <2>1. Preserves
    BY <1>1, <1>2 DEF Preserves, BackedBy, Holds, nv
  <2> QED
    BY <1>1, <1>2, <2>1, RestartInv DEF OtaInv, Types, KeptOK
<1>3. CASE pc = "program" /\ \E n \in 0 .. Len(mgr.buf) : Torn(n)
  <2>1. PICK n \in 0 .. Len(mgr.buf) : Torn(n)
    BY <1>3
  <2>2. /\ area' \in [Cells -> Content] /\ ready' \in BOOLEAN
        /\ spoilt = {} => Preserves
    BY <1>1, <1>3, <2>1, TornKeeps DEF nv
  <2> QED
    BY <1>1, <2>2, RestartInv
<1> QED
  BY <1>2, <1>3 DEF ChipReset, Crash

\* The link is lost, with the session.
LEMMA LinkLostInv == OtaInv /\ LinkLost => OtaInv'
<1> SUFFICES ASSUME OtaInv, LinkLost PROVE OtaInv'
  OBVIOUS
<1>1. /\ pc = "idle" /\ notes' = <<>> /\ left' = 0 /\ link' = "down"
      /\ UNCHANGED <<pc, discTimer, resetTimer, vpKnown, nv, flash, pkg, next,
                     credit, told, spoilt>>
      /\ faults' \in 0 .. MaxFaults
  BY FaultBound DEF LinkLost, OtaInv, Types
<1>2. NotesOK' /\ KeptOK' /\ PhoneOK'
  BY <1>1, Sizes DEF OtaInv, Types, NotesOK, KeptOK, PhoneOK, nv, flash
<1>3. CASE active
  <2>1. active' = FALSE /\ mgr' = Zero /\ checkTimer' = FALSE
    BY <1>3 DEF LinkLost, Reset
  <2>2. Core'
    BY <1>1, <2>1, Ends DEF OtaInv
  <2>3. MgrOK(mgr)' /\ FlagsOK' /\ WithinFile'
    BY <1>1, <2>1, Zeroed DEF OtaInv, Types, FlagsOK
  <2> QED
    BY <1>2, <2>2, <2>3 DEF OtaInv, Types
<1>4. CASE ~active
  <2>1. UNCHANGED <<active, mgr, checkTimer>>
    BY <1>4 DEF LinkLost
  <2>2. Core'
    BY <1>1, <2>1, Aside DEF OtaInv
  <2>3. MgrOK(mgr)' /\ FlagsOK' /\ WithinFile'
    BY <1>1, <2>1 DEF OtaInv, Types, FlagsOK, WithinFile, MgrOK
  <2> QED
    BY <1>2, <2>2, <2>3 DEF OtaInv, Types
<1> QED
  BY <1>3, <1>4

\* The phone or a call stops the session.
LEMMA InterruptedInv ==
  ASSUME OtaInv, NEW kind, Interrupted(kind)
  PROVE  OtaInv'
<1>1. /\ pc = "idle" /\ pc' = "idle" /\ active' = FALSE /\ mgr' = Zero
      /\ checkTimer' = FALSE /\ left' \in {0, left}
      /\ UNCHANGED <<discTimer, resetTimer, vpKnown, nv, flash, link, pkg, next,
                     credit, told, spoilt>>
      /\ faults' \in 0 .. MaxFaults
      /\ Tell([kind |-> "stopped"]) \/ notes' = notes
  BY FaultBound DEF Interrupted, Reset, OtaInv, Types
<1>2. NotesOK'
  <2>1. [kind |-> "stopped"] \in Note
    BY DEF Note
  <2>2. CASE Tell([kind |-> "stopped"])
    BY <2>1, <2>2, TellKeeps DEF OtaInv, Types
  <2>3. CASE notes' = notes
    BY <2>3 DEF OtaInv, Types, NotesOK
  <2> QED
    BY <1>1, <2>2, <2>3
<1>3. PhoneOK'
  <2>1. next \in 0 .. FileEnd /\ left \in 0 .. FileEnd /\ next + left <= FileEnd
    BY DEF OtaInv, Types, PhoneOK
  <2>2. left' \in 0 .. FileEnd /\ next + left' <= FileEnd
    <3>1. CASE left' = 0
      BY <2>1, <3>1, Sizes
    <3>2. CASE left' = left
      BY <2>1, <3>2
    <3> QED
      BY <1>1, <3>1, <3>2
  <2> QED
    BY <1>1, <2>2 DEF OtaInv, Types, PhoneOK
<1>4. Core'
  BY <1>1, Ends DEF OtaInv
<1>5. MgrOK(mgr)' /\ FlagsOK' /\ WithinFile' /\ KeptOK'
  BY <1>1, Zeroed DEF OtaInv, Types, FlagsOK, KeptOK, nv, flash
<1> QED
  BY <1>2, <1>3, <1>4, <1>5 DEF OtaInv, Types

\* A session starts, with any file.
LEMMA StartInv ==
  ASSUME OtaInv, NEW p \in Packages, Start(p)
  PROVE  OtaInv'
<1>1. /\ pc = "idle" /\ pc' = "idle" /\ active' = TRUE /\ checkTimer' = FALSE
      /\ mgr' = Asking(Zero, 0, 1)
      /\ notes' = <<[kind |-> "want", at |-> 0, len |-> 1]>>
      /\ pkg' = p /\ left' = 0 /\ told' = FALSE
      /\ UNCHANGED <<discTimer, resetTimer, vpKnown, nv, flash, link, next, credit,
                     spoilt>>
      /\ faults' \in 0 .. MaxFaults
  BY FaultBound DEF Start, OtaInv, Types
<1>2. 0 \in 0 .. FileEnd /\ 1 \in 0 .. FileEnd /\ 0 + 1 <= FileEnd
  BY Sizes
<1>3. /\ MgrOK(mgr)' /\ mgr'.state = "protocol" /\ mgr'.image = 0 /\ mgr'.rel = 0
      /\ mgr'.cur = 0 /\ mgr'.need = 1 /\ mgr'.buf = <<>> /\ mgr'.spare = <<>>
  <2>1. MgrOK(Zero)
    BY ZeroFacts
  <2>2. MgrOK(Asking(Zero, 0, 1))
    BY <1>2, <2>1, AskingFacts
  <2>3. MgrOK(mgr)'
    BY <1>1, <2>2 DEF MgrOK
  <2> QED
    BY <1>1, <1>2, <2>1, <2>3, ZeroFacts, AskingFacts
<1>4. NotesOK'
  <2>1. [kind |-> "want", at |-> 0, len |-> 1] \in Note
    BY <1>2 DEF Note
  <2> QED
    BY <1>1, <1>2, <2>1 DEF NotesOK
<1>5. PhoneOK' /\ FlagsOK' /\ KeptOK' /\ WithinFile'
  <2>1. next \in 0 .. FileEnd /\ next + 0 <= FileEnd
    BY DEF OtaInv, Types, PhoneOK
  <2>2. PhoneOK'
    BY <1>1, <1>2, <2>1 DEF OtaInv, Types, PhoneOK
  <2> QED
    BY <1>1, <1>2, <1>3, <2>2 DEF OtaInv, Types, FlagsOK, KeptOK, WithinFile, nv, flash
<1>6. Phases' /\ Buffers'
  BY <1>1, <1>3 DEF Phases, Buffers, SessionIsTimed
<1>7. Steady'
  BY <1>1, <1>3 DEF OtaInv, Core, Steady, Copying, nv
<1>8. Owned => Owned'
  BY <1>1, <1>3 DEF Owned, BackedBy, Holds, nv, flash
<1>9. Progress' /\ (Whole => Whole')
  BY <1>1, <1>3 DEF Progress, Whole, Copying, Holds, nv, flash, At
<1> QED
  BY <1>1, <1>3, <1>4, <1>5, <1>6, <1>7, <1>8, <1>9 DEF OtaInv, Core, Clean, Types

\* Steps beside the session: a timer, the link, and what the phone reads.
LEMMA BesideInv ==
  ASSUME OtaInv, UNCHANGED <<device, checkTimer, vpKnown, nv, flash, pkg, spoilt>>,
         NotesOK', PhoneOK', discTimer' \in BOOLEAN, resetTimer' \in BOOLEAN
  PROVE  OtaInv'
<1>1. Core'
  BY Aside DEF OtaInv, device
<1>2. MgrOK(mgr)' /\ FlagsOK' /\ KeptOK' /\ WithinFile'
  BY DEF OtaInv, Types, MgrOK, FlagsOK, KeptOK, WithinFile, device, nv, flash
<1> QED
  BY <1>1, <1>2 DEF OtaInv, Types

\* The delayed disconnection, the link, and what the phone reads or loses.
LEMMA BesideSteps ==
  ASSUME OtaInv, DiscTimeout \/ LinkUp \/ NoteLost \/ PhoneReads \/ PacketLost
  PROVE  OtaInv'
<1>1. NotesOK /\ PhoneOK /\ discTimer \in BOOLEAN /\ resetTimer \in BOOLEAN
  BY DEF OtaInv, Types, FlagsOK
<1>2. CASE DiscTimeout \/ LinkUp
  <2>1. /\ UNCHANGED <<device, checkTimer, vpKnown, nv, flash, notes, phone, faults,
                       spoilt>>
        /\ link' \in {"up", "closing", "down"}
        /\ discTimer' \in BOOLEAN /\ resetTimer' \in BOOLEAN
    BY <1>1, <1>2 DEF DiscTimeout, LinkUp, timers, PhoneOK
  <2>2. NotesOK' /\ PhoneOK' /\ pkg' = pkg
    BY <1>1, <2>1 DEF NotesOK, PhoneOK, phone
  <2> QED
    BY <2>1, <2>2, BesideInv
<1>3. ASSUME notes # <<>> PROVE /\ Head(notes) \in Note /\ Tail(notes) \in Seq(Note)
                                /\ Head(notes).kind = "want" =>
                                     Head(notes).at + Head(notes).len <= FileEnd
                                /\ \A i \in 1 .. Len(Tail(notes)) :
                                     Tail(notes)[i].kind = "want" =>
                                       Tail(notes)[i].at + Tail(notes)[i].len <= FileEnd
  <2>1. notes \in Seq(Note) /\ Len(notes) \in Nat /\ Len(notes) > 0
    BY <1>1, <1>3 DEF NotesOK
  <2>2. Head(notes) = notes[1] /\ Head(notes) \in Note
    BY <1>3, <2>1
  <2>3. /\ Tail(notes) \in Seq(Note) /\ Len(Tail(notes)) = Len(notes) - 1
        /\ \A i \in 1 .. Len(Tail(notes)) : Tail(notes)[i] = notes[i + 1]
    BY <1>3, <2>1
  <2>4. \A i \in 1 .. Len(Tail(notes)) : i + 1 \in 1 .. Len(notes)
    BY <2>1, <2>3
  <2>5. 1 \in 1 .. Len(notes)
    BY <2>1
  <2> QED
    BY <1>1, <2>2, <2>3, <2>4, <2>5 DEF NotesOK
<1>4. CASE NoteLost
  <2>1. /\ UNCHANGED <<device, timers, vpKnown, nv, flash, link, phone, spoilt>>
        /\ notes # <<>> /\ notes' = Tail(notes) /\ faults' \in 0 .. MaxFaults
    BY <1>1, <1>4, FaultBound DEF NoteLost
  <2>2. NotesOK' /\ PhoneOK' /\ pkg' = pkg
    BY <1>1, <1>3, <2>1 DEF NotesOK, PhoneOK, phone
  <2> QED
    BY <1>1, <2>1, <2>2, BesideInv DEF timers
<1>5. CASE PhoneReads
  <2>1. /\ UNCHANGED <<device, timers, vpKnown, nv, flash, link, pkg, faults, spoilt>>
        /\ notes # <<>> /\ notes' = Tail(notes)
    BY <1>5 DEF PhoneReads
  <2>2. NotesOK'
    BY <1>3, <2>1 DEF NotesOK
  <2>3. PhoneOK'
    <3>1. CASE Head(notes).kind = "want"
      <4>1. /\ next' = Head(notes).at /\ left' = Head(notes).len
            /\ credit' = Window /\ told' = told
        BY <1>5, <3>1 DEF PhoneReads
      <4>2. /\ Head(notes).at \in 0 .. FileEnd /\ Head(notes).len \in 0 .. FileEnd
            /\ Head(notes).at + Head(notes).len <= FileEnd
        BY <1>3, <2>1, <3>1 DEF Note
      <4>3. Window \in 0 .. Window
        BY OtaAssumption
      <4> QED
        BY <1>1, <2>1, <4>1, <4>2, <4>3 DEF PhoneOK
    <3>2. CASE Head(notes).kind # "want"
      <4>1. left' = 0 /\ told' \in BOOLEAN /\ UNCHANGED <<next, credit>>
        BY <1>5, <3>2 DEF PhoneReads
      <4> QED
        BY <1>1, <2>1, <4>1, Sizes DEF PhoneOK
    <3> QED
      BY <3>1, <3>2
  <2> QED
    BY <1>1, <2>1, <2>2, <2>3, BesideInv DEF timers
<1>6. CASE PacketLost
  <2>1. /\ UNCHANGED <<device, checkTimer, nv, notes, spoilt>>
        /\ UNCHANGED <<pkg, told, discTimer, resetTimer, vpKnown, flash, link>>
        /\ faults' \in 0 .. MaxFaults
    BY <1>1, <1>6, FaultBound DEF PacketLost, Sends
  <2>2. next' \in 0 .. FileEnd /\ left' \in 0 .. FileEnd /\ next' + left' <= FileEnd
        /\ credit' \in 0 .. Window
    BY <1>1, <1>6, Sizes, OtaAssumption DEF PacketLost, Sends, PhoneOK
  <2>3. NotesOK' /\ PhoneOK'
    BY <1>1, <2>1, <2>2 DEF NotesOK, PhoneOK
  <2> QED
    BY <1>1, <2>1, <2>3, BesideInv
<1> QED
  BY <1>2, <1>4, <1>5, <1>6

-----------------------------------------------------------------------------
(* A packet *)

\* The packet handler runs between two events, on n units of the file.
Arrives(at, n) ==
  /\ at \in Nat /\ n \in Nat /\ n > 0 /\ n <= PacketLen /\ at + n \in 0 .. FileEnd
  /\ pc = "idle"
  /\ checkTimer' = active'
  /\ UNCHANGED <<vpKnown, flash, pkg>>

\* What the handler's steps have to keep.
Kept ==
  /\ MgrOK(mgr) /\ NotesOK /\ KeptOK /\ WithinFile /\ Core
  /\ active \in BOOLEAN
  /\ pc \in {"idle", "vpState", "program", "save", "copy", "copying", "copied",
             "copyFailed", "next", "ready", "clear"}

\* What counting a packet changes of the manager.
LEMMA CountedFacts ==
  ASSUME MgrOK(mgr), NEW at \in Nat, NEW n \in Nat, at + n \in 0 .. FileEnd
  PROVE  /\ MgrOK(Counted(at, n)) /\ Counted(at, n).cur = at + n
         /\ Counted(at, n).need = mgr.need /\ Counted(at, n).state = mgr.state
         /\ Counted(at, n).rel = mgr.rel /\ Counted(at, n).image = mgr.image
         /\ Counted(at, n).buf = mgr.buf /\ Counted(at, n).spare = mgr.spare
<1> DEFINE c == IF mgr.packets + 1 < Window THEN mgr.packets + 1 ELSE Window
           r == Counted(at, n)
<1>1. mgr \in Mgr /\ c \in 0 .. Window /\ 0 \in 0 .. RetryLimit /\ 0 \in 0 .. 2
  <2>1. mgr \in Mgr /\ mgr.packets \in 0 .. Window
    BY DEF MgrOK, Mgr
  <2> QED
    BY <2>1, OtaAssumption
<1>2. r = [mgr EXCEPT !.misses = 0, !.errors = 0, !.cur = at + n, !.packets = c]
  BY DEF Counted
<1> HIDE DEF c, r
<1>3. /\ r.cur = at + n /\ r.need = mgr.need /\ r.state = mgr.state
      /\ r.rel = mgr.rel /\ r.image = mgr.image /\ r.buf = mgr.buf
      /\ r.spare = mgr.spare /\ r.misses = 0 /\ r \in Mgr
  BY <1>1, <1>2 DEF Mgr
<1> QED
  BY <1>3 DEF MgrOK, r

\* A packet of another range.
LEMMA UnexpectedKept ==
  ASSUME OtaInv, NEW at, NEW n, Arrives(at, n), Unexpected(at)
  PROVE  Kept'
<1> DEFINE e == mgr.errors + 1
           m == [mgr EXCEPT !.misses = 0, !.errors = e]
           z == [m EXCEPT !.packets = 0, !.errors = 0]
<1>1. /\ UNCHANGED <<active, pc, nv, vpKnown, flash, pkg, spoilt>> /\ pc = "idle"
      /\ checkTimer' = active'
  BY DEF Unexpected, Arrives
<1>2. /\ MgrOK(mgr) /\ mgr \in Mgr /\ NotesOK /\ mgr.errors \in 0 .. RetryLimit
      /\ mgr.cur \in 0 .. FileEnd /\ mgr.need \in 0 .. FileEnd
      /\ mgr.cur + mgr.need <= FileEnd /\ active \in BOOLEAN
  BY <1>1 DEF OtaInv, Types, MgrOK, Mgr, WithinFile, FlagsOK
<1>3. e < RetryLimit => e \in 0 .. RetryLimit
  BY <1>2, OtaAssumption
<1>4. e < RetryLimit => MgrOK(m)
  <2> SUFFICES ASSUME e < RetryLimit PROVE MgrOK(m)
    OBVIOUS
  <2>1. e \in 0 .. RetryLimit /\ 0 \in 0 .. 2
    BY <1>3
  <2> HIDE DEF e
  <2>2. /\ m \in Mgr /\ m.misses = 0 /\ m.rel = mgr.rel /\ m.image = mgr.image
        /\ m.buf = mgr.buf /\ m.spare = mgr.spare
    BY <1>2, <2>1 DEF Mgr
  <2> QED
    BY <1>2, <2>2 DEF MgrOK
<1>5. /\ m.state = mgr.state /\ m.rel = mgr.rel /\ m.image = mgr.image
      /\ m.cur = mgr.cur /\ m.need = mgr.need
      /\ m.buf = mgr.buf /\ m.spare = mgr.spare
  BY <1>2 DEF Mgr
<1>6. /\ MgrOK(z) /\ z.state = mgr.state /\ z.rel = mgr.rel /\ z.image = mgr.image
      /\ z.cur = mgr.cur /\ z.need = mgr.need
      /\ z.buf = mgr.buf /\ z.spare = mgr.spare
  <2>1. z = [mgr EXCEPT !.misses = 0, !.packets = 0, !.errors = 0]
    BY <1>2 DEF Mgr
  <2>2. 0 \in 0 .. Window /\ 0 \in 0 .. RetryLimit /\ 0 \in 0 .. 2
    BY OtaAssumption
  <2> HIDE DEF z
  <2>3. /\ z.state = mgr.state /\ z.rel = mgr.rel /\ z.image = mgr.image
        /\ z.cur = mgr.cur /\ z.need = mgr.need /\ z.misses = 0
        /\ z.buf = mgr.buf /\ z.spare = mgr.spare /\ z \in Mgr
    BY <1>2, <2>1, <2>2 DEF Mgr
  <2> QED
    BY <1>2, <2>3 DEF MgrOK
<1>7. /\ MgrOK(mgr)' /\ NotesOK'
      /\ mgr'.state = mgr.state /\ mgr'.rel = mgr.rel /\ mgr'.image = mgr.image
      /\ mgr'.cur = mgr.cur /\ mgr'.need = mgr.need
      /\ mgr'.buf = mgr.buf /\ mgr'.spare = mgr.spare
  <2>1. CASE e < RetryLimit /\ e + mgr.packets = Window
    <3>1. Ask(m, mgr.cur, mgr.need)
      BY <2>1 DEF Unexpected
    <3> HIDE DEF m
    <3> QED
      BY <1>2, <1>4, <1>5, <2>1, <3>1, AskFacts
  <2>2. CASE ~(e < RetryLimit /\ e + mgr.packets = Window)
    <3>1. mgr' = (IF e < RetryLimit THEN m ELSE z) /\ notes' = notes
      BY <2>2 DEF Unexpected
    <3> HIDE DEF m, z
    <3> QED
      BY <1>2, <1>4, <1>5, <1>6, <3>1 DEF MgrOK, NotesOK
  <2> QED
    BY <2>1, <2>2
<1>8. Core'
  BY <1>1, <1>2, <1>7, Aside DEF OtaInv
<1>9. KeptOK' /\ WithinFile'
  BY <1>1, <1>2, <1>7 DEF OtaInv, Types, KeptOK, WithinFile, nv, flash
<1> QED
  BY <1>1, <1>2, <1>7, <1>8, <1>9 DEF Kept

\* A packet outside a session.
LEMMA IgnoredKept ==
  ASSUME OtaInv, NEW at, NEW n, Arrives(at, n), Ignored(at, n)
  PROVE  Kept'
<1> DEFINE m == Counted(at, n)
<1>1. /\ UNCHANGED <<active, pc, nv, notes, vpKnown, flash, pkg, spoilt>>
      /\ pc = "idle" /\ checkTimer' = active' /\ (~active \/ mgr.state = "finish")
      /\ mgr' = m \/ mgr' = [m EXCEPT !.packets = 0]
  BY DEF Ignored, Arrives
<1>2. /\ MgrOK(m) /\ m.cur = at + n /\ m.need = mgr.need /\ m.state = mgr.state
      /\ m.rel = mgr.rel /\ m.image = mgr.image
      /\ m.buf = mgr.buf /\ m.spare = mgr.spare
  BY CountedFacts DEF OtaInv, Types, Arrives
<1>3. /\ mgr.need = 0 /\ mgr.state # "payload"
      /\ at + n \in 0 .. FileEnd /\ active \in BOOLEAN
  BY <1>1 DEF OtaInv, Core, Phases, Arrives, Types, FlagsOK
<1> HIDE DEF m
<1>4. /\ MgrOK(mgr)' /\ mgr'.cur = at + n /\ mgr'.need = 0 /\ mgr'.state = mgr.state
      /\ mgr'.rel = mgr.rel /\ mgr'.image = mgr.image
      /\ mgr'.buf = mgr.buf /\ mgr'.spare = mgr.spare
  <2>1. 0 \in 0 .. Window /\ m \in Mgr
    BY <1>2, OtaAssumption DEF MgrOK
  <2>2. CASE mgr' = m
    BY <1>2, <1>3, <2>2 DEF MgrOK
  <2>3. CASE mgr' = [m EXCEPT !.packets = 0]
    <3>1. /\ mgr' \in Mgr /\ mgr'.cur = m.cur /\ mgr'.need = m.need
          /\ mgr'.state = m.state /\ mgr'.rel = m.rel /\ mgr'.image = m.image
          /\ mgr'.buf = m.buf /\ mgr'.spare = m.spare /\ mgr'.misses = m.misses
      BY <2>1, <2>3 DEF Mgr
    <3> QED
      BY <1>2, <1>3, <3>1 DEF MgrOK
  <2> QED
    BY <1>1, <2>2, <2>3
<1>5. Core'
  BY <1>1, <1>3, <1>4, Aside DEF OtaInv
<1>6. KeptOK' /\ NotesOK' /\ WithinFile'
  BY <1>1, <1>3, <1>4 DEF OtaInv, Types, KeptOK, NotesOK, WithinFile, nv, flash
<1> QED
  BY <1>1, <1>3, <1>4, <1>5, <1>6 DEF Kept

\* What the manager asks for after a packet of the first states.
LEMMA EarlyAsk ==
  ASSUME OtaInv, NEW at, NEW n, Arrives(at, n), NEW st \in States,
         NEW m, m = [Counted(at, n) EXCEPT !.state = st], NEW off \in Nat, off + 1 <= FileEnd,
         Ask(m, off, 1)
  PROVE  /\ MgrOK(mgr)' /\ NotesOK' /\ mgr'.cur = off /\ mgr'.need = 1
         /\ mgr'.state = st /\ mgr'.rel = mgr.rel /\ mgr'.image = mgr.image
         /\ mgr'.buf = mgr.buf /\ mgr'.spare = mgr.spare
<1> DEFINE c == Counted(at, n)
<1>1. /\ MgrOK(c) /\ c.rel = mgr.rel /\ c.image = mgr.image
      /\ c.buf = mgr.buf /\ c.spare = mgr.spare
  BY CountedFacts DEF OtaInv, Types, Arrives
<1>2. m = [c EXCEPT !.state = st]
  OBVIOUS
<1> HIDE DEF c
<1>3. /\ m \in Mgr /\ m.state = st /\ m.rel = c.rel /\ m.image = c.image
      /\ m.buf = c.buf /\ m.spare = c.spare /\ m.misses = c.misses
  BY <1>1, <1>2 DEF MgrOK, Mgr
<1>4. MgrOK(m)
  BY <1>1, <1>3 DEF MgrOK
<1>5. off \in 0 .. FileEnd /\ 1 \in 0 .. FileEnd
  BY Sizes
<1> QED
  BY <1>1, <1>3, <1>4, <1>5, AskFacts DEF OtaInv, Types

\* A file is not taken: the session ends, and the breakpoint goes.
LEMMA GivenUpKept ==
  ASSUME OtaInv, NEW at, NEW n, Arrives(at, n), GivenUp
  PROVE  Kept'
<1>1. /\ pc = "idle" /\ pc' = "idle" /\ active' = FALSE /\ mgr' = Zero
      /\ bp' = None /\ record' = 0 /\ Tell([kind |-> "refused"])
      /\ UNCHANGED <<vpDone, vpKnown, flash, pkg, spoilt>>
  BY DEF GivenUp, Arrives, ClearBreakpoint
<1>2. [kind |-> "refused"] \in Note
  BY DEF Note
<1>3. NotesOK' /\ MgrOK(mgr)' /\ WithinFile'
  BY <1>1, <1>2, TellKeeps, Zeroed DEF OtaInv, Types
<1>4. KeptOK'
  BY <1>1 DEF OtaInv, Types, KeptOK, flash
<1>5. Phases' /\ Buffers' /\ Steady' /\ Owned' /\ Progress'
  BY <1>1, ZeroFacts DEF Phases, Buffers, Steady, Owned, Progress, SessionIsTimed, Copying
<1>6. Whole => Whole'
  BY <1>1, ZeroFacts DEF Whole, Holds, flash
<1> QED
  BY <1>1, <1>3, <1>4, <1>5, <1>6 DEF OtaInv, Kept, Core, Clean

\* The first packet of the package.
LEMMA ProtocolVersionKept ==
  ASSUME OtaInv, NEW at, NEW n, Arrives(at, n), ProtocolVersion(at, n)
  PROVE  Kept'
<1> SUFFICES ASSUME ~GivenUp PROVE Kept'
  BY GivenUpKept
<1>1. /\ active /\ mgr.state = "protocol" /\ pc = "idle" /\ checkTimer' = active'
      /\ UNCHANGED <<active, pc, nv, vpKnown, flash, pkg, spoilt>>
      /\ Ask([Counted(at, n) EXCEPT !.state = "header"], 0, 1)
  BY DEF ProtocolVersion, Arrives
<1>2. /\ MgrOK(mgr)' /\ NotesOK' /\ mgr'.cur = 0 /\ mgr'.need = 1
      /\ mgr'.state = "header" /\ mgr'.rel = mgr.rel /\ mgr'.image = mgr.image
      /\ mgr'.buf = mgr.buf /\ mgr'.spare = mgr.spare
  BY <1>1, EarlyAsk, Sizes DEF States
<1>3. KeptOK' /\ WithinFile'
  BY <1>1, <1>2, Sizes DEF OtaInv, Types, KeptOK, WithinFile, nv, flash
<1>4. Phases' /\ Buffers'
  BY <1>1, <1>2 DEF OtaInv, Core, Phases, Buffers, SessionIsTimed
<1>5. Steady'
  BY <1>1, <1>2 DEF OtaInv, Core, Steady, Copying, nv
<1>6. Owned => Owned'
  BY <1>1, <1>2 DEF Owned, BackedBy, Holds, nv, flash
<1>7. Progress' /\ (Whole => Whole')
  BY <1>1, <1>2 DEF Progress, Whole, Copying, Holds, At, nv, flash
<1> QED
  BY <1>1, <1>2, <1>3, <1>4, <1>5, <1>6, <1>7 DEF OtaInv, Kept, Core, Clean

\* Files of one version, kind and product are one file.
LEMMA SamePackage ==
  ASSUME NEW p \in Packages, NEW q \in Packages,
         p.ver = q.ver, p.vpOnly = q.vpOnly, p.pid = q.pid
  PROVE  p = q
<1>1. /\ p \in [ver : Nat \ {0}, vpOnly : BOOLEAN, pid : Nat]
      /\ q \in [ver : Nat \ {0}, vpOnly : BOOLEAN, pid : Nat]
  BY OtaAssumption
<1>2. p = [ver |-> p.ver, vpOnly |-> p.vpOnly, pid |-> p.pid]
  BY <1>1
<1>3. q = [ver |-> q.ver, vpOnly |-> q.vpOnly, pid |-> q.pid]
  BY <1>1
<1> QED
  BY <1>2, <1>3

\* A package is accepted: a breakpoint that stays is its own.
LEMMA PackageHeaderKept ==
  ASSUME OtaInv, NEW at, NEW n, Arrives(at, n), PackageHeader(at, n)
  PROVE  Kept'
<1>1. /\ active /\ mgr.state = "header" /\ ~Refused /\ pc = "idle"
      /\ checkTimer' = active'
      /\ UNCHANGED <<active, pc, vpDone, vpKnown, flash, pkg>>
      /\ IF pkg.vpOnly THEN bp' = None /\ record' = 0
                       ELSE bp' = bp /\ record' = pkg.ver
      /\ spoilt' = spoilt \cup
           IF ~pkg.vpOnly /\ bp # None /\ record = 0 THEN {"mixed"} ELSE {}
  BY DEF PackageHeader, Arrives, ClearBreakpoint, Spoils
<1>2. mgr.rel = 0 /\ mgr.image = 0 /\ mgr.buf = <<>> /\ mgr.spare = <<>>
  BY <1>1 DEF OtaInv, Core, Phases
<1> DEFINE c == Counted(at, n)
           m == [c EXCEPT !.state = "table"]
<1>3. c.rel = 0 /\ c \in Mgr
  BY <1>2, CountedFacts DEF OtaInv, Types, Arrives, MgrOK
<1>4. [c EXCEPT !.state = "table", !.rel = 0] = m
  <2> HIDE DEF c
  <2> QED
    BY <1>3 DEF Mgr
<1>5. Ask(m, TableAt, 1)
  BY <1>4 DEF PackageHeader
<1>6. /\ MgrOK(mgr)' /\ NotesOK' /\ mgr'.cur = 1 /\ mgr'.need = 1
      /\ mgr'.state = "table" /\ mgr'.rel = 0 /\ mgr'.image = 0
      /\ mgr'.buf = <<>> /\ mgr'.spare = <<>>
  <2>1. "table" \in States /\ TableAt \in Nat /\ TableAt + 1 <= FileEnd /\ TableAt = 1
    BY Sizes DEF States, TableAt
  <2> HIDE DEF TableAt
  <2> QED
    BY <1>2, <1>5, <2>1, EarlyAsk
<1>7. pkg \in Packages /\ bp \in [image : 0 .. 1, rel : 1 .. FileEnd] \cup {None}
  BY DEF OtaInv, Types, PhoneOK, KeptOK
<1>8. KeptOK' /\ WithinFile'
  <2>1. record' \in {0} \cup {p.ver : p \in Packages}
    BY <1>1, <1>7
  <2>2. bp' \in [image : 0 .. 1, rel : 1 .. FileEnd] \cup {None}
    BY <1>1, <1>7
  <2>3. spoilt' \subseteq {"mixed", "copy", "hole"}
    BY <1>1 DEF OtaInv, Types, KeptOK
  <2>4. KeptOK'
    BY <1>1, <2>1, <2>2, <2>3 DEF OtaInv, Types, KeptOK, flash
  <2> QED
    BY <1>6, <2>4, Sizes DEF WithinFile
<1>9. Phases' /\ Buffers'
  BY <1>1, <1>6 DEF Phases, Buffers, SessionIsTimed, Writing
<1>10. Steady'
  <2>1. pkg.vpOnly \in BOOLEAN
    BY <1>7, OtaAssumption
  <2>2. ~pkg.vpOnly => pkg.pid = LocalPid
    BY <1>1 DEF Refused, Acceptable
  <2> QED
    BY <1>1, <1>6, <2>1, <2>2 DEF OtaInv, Core, Steady, Copying
<1>11. ASSUME spoilt' = {} PROVE /\ Owned /\ Whole
                                 /\ ~pkg.vpOnly /\ bp # None => record # 0
  BY <1>1, <1>11 DEF OtaInv, Core, Clean
<1>12. spoilt' = {} => Owned'
  <2> SUFFICES ASSUME spoilt' = {} PROVE Owned'
    OBVIOUS
  <2>1. CASE pkg.vpOnly
    BY <1>1, <1>6, <2>1 DEF Owned
  <2>2. CASE ~pkg.vpOnly
    <3>1. pkg.pid = LocalPid /\ (record = 0 \/ record = pkg.ver)
      BY <1>1, <2>2 DEF Refused, Acceptable
    <3>2. ASSUME bp # None PROVE BackedBy(pkg) /\ record = pkg.ver
      <4>1. record # 0
        BY <1>11, <2>2, <3>2
      <4>2. PICK q \in Packages : BackedBy(q)
        BY <1>11, <3>2 DEF Owned
      <4>3. q.vpOnly = FALSE /\ q.ver = record /\ q.pid = LocalPid /\ pkg.vpOnly = FALSE
        <5>1. q.vpOnly \in BOOLEAN /\ pkg.vpOnly \in BOOLEAN
          BY <1>7, OtaAssumption
        <5> QED
          BY <2>2, <4>1, <4>2, <5>1 DEF BackedBy
      <4>4. q = pkg
        BY <1>7, <3>1, <4>1, <4>3, SamePackage
      <4> QED
        BY <3>1, <4>1, <4>2, <4>4
    <3>3. bp' # None => BackedBy(pkg)'
      <4>1. bp' = bp /\ record' = pkg.ver
        BY <1>1, <2>2
      <4> QED
        BY <1>1, <3>2, <4>1 DEF BackedBy, Holds, flash
    <3> QED
      BY <1>1, <1>6, <1>7, <2>2, <3>1, <3>3 DEF Owned
  <2> QED
    BY <2>1, <2>2
<1>13. Progress'
  BY <1>1, <1>6 DEF Progress, Copying
<1>14. spoilt' = {} => Whole'
  BY <1>1, <1>6, <1>11 DEF Whole, Holds, At, flash
<1> QED
  BY <1>1, <1>6, <1>8, <1>9, <1>12, <1>13, <1>14, <1>10 DEF Kept, Core, Clean

\* The firmware table, without a breakpoint.
LEMMA FwTableKept ==
  ASSUME OtaInv, NEW at, NEW n, Arrives(at, n), FwTable(at, n)
  PROVE  Kept'
<1>1. /\ active /\ mgr.state = "table" /\ bp = None /\ pc = "idle"
      /\ checkTimer' = active'
      /\ UNCHANGED <<active, pc, nv, vpKnown, flash, pkg, spoilt>>
  BY DEF FwTable, Arrives
<1>2. mgr.rel = 0 /\ mgr.image = 0 /\ mgr.buf = <<>> /\ mgr.spare = <<>>
  BY <1>1 DEF OtaInv, Core, Phases
<1>3. /\ MgrOK(mgr)' /\ NotesOK' /\ mgr'.cur = ControlAt(0) /\ mgr'.need = 1
      /\ mgr'.state = "control" /\ mgr'.rel = 0 /\ mgr'.image = 0
      /\ mgr'.buf = <<>> /\ mgr'.spare = <<>>
  <2>1. "control" \in States /\ ControlAt(0) \in Nat /\ ControlAt(0) + 1 <= FileEnd
    BY ImageFacts DEF States
  <2> QED
    BY <1>2, <2>1, EarlyAsk DEF FwTable
<1>4. KeptOK' /\ WithinFile'
  <2>1. ControlAt(0) + 1 <= FileEnd
    BY ImageFacts
  <2> QED
    BY <1>1, <1>3, <2>1 DEF OtaInv, Types, KeptOK, WithinFile, nv, flash
<1>5. Phases' /\ Buffers'
  BY <1>1, <1>3 DEF OtaInv, Core, Phases, Buffers, SessionIsTimed
<1>6. Steady' /\ Owned' /\ Progress'
  BY <1>1, <1>3 DEF OtaInv, Core, Steady, Owned, Progress, Copying, nv
<1>7. Whole => Whole'
  BY <1>1, <1>3 DEF Whole, Holds, At, nv, flash
<1> QED
  BY <1>1, <1>3, <1>4, <1>5, <1>6, <1>7 DEF OtaInv, Kept, Core, Clean

\* A session goes on where the breakpoint of its package is.
LEMMA ResumeKept ==
  ASSUME OtaInv, NEW at, NEW n, Arrives(at, n), Resume(at, n)
  PROVE  Kept'
<1> DEFINE c == Counted(at, n)
           m == [c EXCEPT !.image = bp.image, !.rel = bp.rel]
<1>1. /\ active /\ mgr.state = "table" /\ bp # None /\ pc = "idle"
      /\ checkTimer' = active'
      /\ UNCHANGED <<active, nv, vpKnown, flash, pkg, spoilt>>
  BY DEF Resume, Arrives
<1>2. /\ pkg.vpOnly = FALSE /\ pkg \in Packages
      /\ record = pkg.ver /\ pkg.pid = LocalPid
  <2>1. pkg \in Packages /\ pkg.vpOnly \in BOOLEAN
    BY OtaAssumption DEF OtaInv, Types, PhoneOK
  <2>2. pkg.vpOnly = FALSE
    BY <1>1, <2>1 DEF OtaInv, Core, Steady
  <2> QED
    BY <1>1, <2>1, <2>2 DEF OtaInv, Core, Steady
<1>3. /\ bp.image \in 0 .. 1 /\ bp.rel \in 1 .. FileEnd /\ bp.rel <= FwSize(bp.image)
      /\ FwSize(bp.image) \in Nat
  <2>1. bp \in [image : 0 .. 1, rel : 1 .. FileEnd]
    BY <1>1 DEF OtaInv, Types, KeptOK
  <2> QED
    BY <1>1, <2>1, ImageFacts DEF OtaInv, Core, Steady
<1>4. /\ MgrOK(c) /\ c.cur = at + n /\ c.state = "table" /\ c.buf = <<>> /\ c.spare = <<>>
      /\ c.need = mgr.need
  BY <1>1, CountedFacts DEF OtaInv, Types, Arrives, Core, Phases
<1> HIDE DEF c
<1>5. /\ MgrOK(m) /\ m.state = "table" /\ m.image = bp.image /\ m.rel = bp.rel
      /\ m.buf = <<>> /\ m.spare = <<>>
  <2>1. /\ m \in Mgr /\ m.state = "table" /\ m.image = bp.image /\ m.rel = bp.rel
        /\ m.buf = <<>> /\ m.spare = <<>> /\ m.misses = c.misses
    <3>1. bp.rel \in Nat /\ c \in Mgr
      BY <1>3, <1>4, Sizes DEF MgrOK
    <3> QED
      BY <1>3, <1>4, <3>1 DEF Mgr
  <2> QED
    BY <1>3, <1>4, <2>1 DEF MgrOK
<1>6. KeptOK'
  BY <1>1 DEF OtaInv, Types, KeptOK, nv, flash
<1>7. spoilt = {} => /\ BackedBy(pkg) /\ Whole
                     /\ bp.rel # FwSize(bp.image) => ~ready
  <2>1. spoilt = {} => BackedBy(pkg) /\ Whole
    BY <1>1 DEF OtaInv, Core, Clean, Owned
  <2> QED
    BY <1>1, <2>1, Sizes DEF Whole, At
<1>8. CASE bp.rel = FwSize(bp.image)
  <2>1. mgr' = m /\ notes' = notes /\ pc' = EndCheck(bp.image)
    BY <1>8 DEF Resume, c
  <2>2. /\ mgr'.state = "table" /\ mgr'.image = bp.image /\ mgr'.rel = bp.rel
        /\ mgr'.buf = <<>> /\ mgr'.spare = <<>>
        /\ pc' \in {"copy", "next"}
        /\ pc' = "copy" <=> bp.image = 0 /\ vpDone
    BY <1>5, <2>1 DEF EndCheck
  <2> HIDE DEF m
  <2>3. MgrOK(mgr)' /\ NotesOK' /\ WithinFile'
    BY <1>5, <2>1, <2>2 DEF OtaInv, Types, MgrOK, NotesOK, WithinFile, Writing
  <2>4. Phases' /\ Buffers'
    BY <1>1, <1>2, <2>2 DEF Phases, Buffers, SessionIsTimed, Writing
  <2>5. Steady'
    <3>1. FwSize(0) = VpLen
      BY Sizes
    <3> QED
      BY <1>1, <1>2, <1>3, <1>8, <2>2, <3>1 DEF Steady, Copying, nv
  <2>6. spoilt = {} => Owned'
    <3>1. spoilt = {} => BackedBy(pkg)'
      BY <1>1, <1>7 DEF BackedBy, Holds, nv, flash
    <3> QED
      BY <1>1, <1>2, <2>2, <3>1 DEF Owned, nv
  <2>7. Progress'
    BY <1>1, <1>2, <1>3, <1>8, <2>2, Sizes DEF Progress, Copying, At, nv, flash
  <2>8. spoilt = {} => Whole'
    BY <1>1, <1>7, <2>2 DEF Whole, Holds, At, nv, flash
  <2> QED
    BY <1>1, <1>6, <2>2, <2>3, <2>4, <2>5, <2>6, <2>7, <2>8 DEF Kept, Core, Clean
<1>9. CASE bp.rel # FwSize(bp.image)
  <2> DEFINE q == [m EXCEPT !.state = "payload"]
             off == Base(bp.image) + bp.rel
             len == FwSize(bp.image) - bp.rel
  <2>1. Ask(q, off, len) /\ pc' = "idle"
    BY <1>1, <1>9 DEF Resume, c
  <2>2. /\ off \in 0 .. FileEnd /\ len \in 0 .. FileEnd /\ off + len <= FileEnd
        /\ len # 0
    BY <1>3, <1>9, ImageFacts
  <2>3. /\ MgrOK(q) /\ q.state = "payload" /\ q.image = bp.image /\ q.rel = bp.rel
        /\ q.buf = <<>> /\ q.spare = <<>>
    <3> HIDE DEF m
    <3>1. /\ q \in Mgr /\ q.state = "payload" /\ q.image = bp.image /\ q.rel = bp.rel
          /\ q.buf = <<>> /\ q.spare = <<>> /\ q.misses = m.misses
      BY <1>5 DEF Mgr, MgrOK, States
    <3> QED
      BY <1>5, <3>1 DEF MgrOK
  <2> HIDE DEF q, off, len
  <2>4. /\ MgrOK(mgr)' /\ NotesOK' /\ mgr'.cur = off /\ mgr'.need = len
        /\ mgr'.state = "payload" /\ mgr'.image = bp.image /\ mgr'.rel = bp.rel
        /\ mgr'.buf = <<>> /\ mgr'.spare = <<>>
    BY <2>1, <2>2, <2>3, AskFacts DEF OtaInv, Types
  <2>5. WithinFile'
    BY <2>2, <2>4 DEF WithinFile
  <2>6. Phases'
    BY <1>1, <1>2, <2>1, <2>4 DEF Phases, SessionIsTimed
  <2>7. Buffers'
    <3>1. /\ bp.rel + 0 + len = FwSize(bp.image)
          /\ off = Base(bp.image) + bp.rel + 0 /\ 0 < BufferLen
      BY <1>3, ImageFacts, OtaAssumption DEF off, len
    <3>2. Len(mgr'.buf) = 0 /\ Len(mgr'.spare) = 0 /\ 0 <= bp.rel
      BY <1>3, <2>4
    <3> QED
      BY <2>1, <2>2, <2>4, <3>1, <3>2 DEF Buffers, Writing
  <2>8. Steady'
    <3>1. WriteAt' = bp.rel
      <4>1. Len(mgr'.buf) = 0 /\ mgr'.rel = bp.rel /\ bp.rel \in Int
        BY <1>3, <2>4
      <4> QED
        BY <4>1 DEF WriteAt
    <3> QED
      BY <1>1, <1>2, <1>3, <2>1, <2>4, <3>1 DEF OtaInv, Core, Steady, Copying, nv
  <2>9. spoilt = {} => Owned'
    <3>1. spoilt = {} => BackedBy(pkg)'
      BY <1>1, <1>7 DEF BackedBy, Holds, nv, flash
    <3> QED
      BY <1>1, <1>2, <2>1, <2>4, <3>1 DEF Owned, nv
  <2>10. spoilt = {} => Progress'
    <3>1. bp.rel < FwSize(bp.image)
      BY <1>3, <1>9
    <3> QED
      BY <1>1, <1>3, <1>7, <1>9, <2>1, <2>4, <3>1, Sizes DEF Progress, Copying, At, nv,
        flash
  <2>11. spoilt = {} => Whole'
    BY <1>1, <1>7, <2>4 DEF Whole, Holds, At, nv, flash
  <2> QED
    BY <1>1, <1>6, <2>1, <2>4, <2>5, <2>6, <2>7, <2>9, <2>10, <2>11, <2>8
      DEF Kept, Core, Clean
<1> QED
  BY <1>8, <1>9

\* The control header of an image.
LEMMA ControlHeaderKept ==
  ASSUME OtaInv, NEW at, NEW n, Arrives(at, n), ControlHeader(at, n)
  PROVE  Kept'
<1> DEFINE c == Counted(at, n)
           q == [c EXCEPT !.state = "payload", !.buf = <<>>]
           off == Base(mgr.image) + mgr.rel
           len == FwSize(mgr.image)
<1>1. /\ active /\ mgr.state = "control" /\ pc = "idle" /\ checkTimer' = active'
      /\ UNCHANGED <<active, pc, nv, vpKnown, flash, pkg, spoilt>>
      /\ Ask(q, off, len)
  BY DEF ControlHeader, Arrives
<1>2. mgr.rel = 0 /\ mgr.image \in 0 .. 1 /\ mgr.buf = <<>> /\ mgr.spare = <<>>
  BY <1>1 DEF OtaInv, Core, Phases, Types, MgrOK, Mgr
<1>3. /\ off \in 0 .. FileEnd /\ len \in 0 .. FileEnd /\ off + len <= FileEnd
      /\ len # 0 /\ off = Base(mgr.image)
  BY <1>2, ImageFacts
<1>4. /\ MgrOK(c) /\ c.rel = 0 /\ c.image = mgr.image /\ c.spare = <<>>
  BY <1>2, CountedFacts DEF OtaInv, Types, Arrives
<1> HIDE DEF c
<1>5. /\ MgrOK(q) /\ q.state = "payload" /\ q.image = mgr.image /\ q.rel = 0
      /\ q.buf = <<>> /\ q.spare = <<>>
  <2>1. <<>> \in Seq(0 .. FileEnd) /\ Len(<<>>) <= BufferLen
    BY OtaAssumption
  <2>2. /\ q \in Mgr /\ q.state = "payload" /\ q.image = mgr.image /\ q.rel = 0
        /\ q.buf = <<>> /\ q.spare = <<>> /\ q.misses = c.misses
    BY <1>4, <2>1 DEF Mgr, MgrOK, States
  <2> QED
    BY <1>4, <2>1, <2>2 DEF MgrOK
<1> HIDE DEF q, off, len
<1>6. /\ MgrOK(mgr)' /\ NotesOK' /\ mgr'.cur = off /\ mgr'.need = len
      /\ mgr'.state = "payload" /\ mgr'.image = mgr.image /\ mgr'.rel = 0
      /\ mgr'.buf = <<>> /\ mgr'.spare = <<>>
  BY <1>1, <1>3, <1>5, AskFacts DEF OtaInv, Types
<1>7. WithinFile' /\ KeptOK'
  BY <1>1, <1>3, <1>6 DEF OtaInv, Types, KeptOK, nv, flash, WithinFile
<1>8. Phases'
  BY <1>1, <1>6 DEF OtaInv, Core, Phases, SessionIsTimed
<1>9. Buffers'
  <2>1. 0 + 0 + len = FwSize(mgr.image) /\ off = Base(mgr.image) + 0 + 0
    BY <1>2, <1>3, ImageFacts DEF len
  <2>2. Len(mgr'.buf) = 0 /\ Len(mgr'.spare) = 0 /\ 0 < BufferLen
    BY <1>6, OtaAssumption
  <2> QED
    BY <1>1, <1>3, <1>6, <2>1, <2>2 DEF Buffers, Writing
<1>10. Steady'
  BY <1>1, <1>2, <1>6 DEF OtaInv, Core, Steady, Copying, nv
<1>11. Owned => Owned'
  BY <1>1, <1>6 DEF Owned, BackedBy, Holds, nv, flash
<1>12. Progress => Progress'
  <2>1. WriteAt' = 0
    <3>1. mgr'.rel = 0 /\ Len(mgr'.buf) = 0
      BY <1>6
    <3> QED
      BY <3>1 DEF WriteAt
  <2> QED
    BY <1>1, <1>2, <1>6, <2>1, Sizes DEF Progress, Copying, At, nv
<1>13. Whole => Whole'
  BY <1>1, <1>6 DEF Whole, Holds, At, nv, flash
<1> QED
  BY <1>1, <1>6, <1>7, <1>8, <1>9, <1>10, <1>11, <1>12, <1>13 DEF OtaInv, Types, FlagsOK,
    Kept, Core, Clean

\* Units `at' .. are split between the write buffer and what waits.
LEMMA SplitFacts ==
  ASSUME NEW S, NEW s \in Seq(S), NEW t \in Nat, Len(s) = t, NEW f \in 1 .. t,
         NEW at \in Nat, \A k \in 1 .. t : s[k] = at + k - 1
  PROVE  /\ SubSeq(s, 1, f) \in Seq(S) /\ Len(SubSeq(s, 1, f)) = f
         /\ \A k \in 1 .. f : SubSeq(s, 1, f)[k] = at + k - 1
         /\ SubSeq(s, f + 1, t) \in Seq(S) /\ Len(SubSeq(s, f + 1, t)) = t - f
         /\ \A k \in 1 .. t - f : SubSeq(s, f + 1, t)[k] = at + f + k - 1
<1>1. SubSeq(s, 1, f) = [i \in 1 .. f |-> s[i]]
  OBVIOUS
<1>2. SubSeq(s, f + 1, t) = [i \in 1 .. t - f |-> s[f + i]]
  OBVIOUS
<1>3. \A i \in 1 .. f : s[i] \in S
  OBVIOUS
<1>4. t - f \in Nat /\ \A i \in 1 .. t - f : s[f + i] \in S
  OBVIOUS
<1>5. [i \in 1 .. f |-> s[i]] \in Seq(S) /\ Len([i \in 1 .. f |-> s[i]]) = f
  BY <1>3
<1>6. /\ [i \in 1 .. t - f |-> s[f + i]] \in Seq(S)
      /\ Len([i \in 1 .. t - f |-> s[f + i]]) = t - f
  BY <1>4
<1>7. \A k \in 1 .. t - f : f + k \in 1 .. t /\ at + (f + k) - 1 = at + f + k - 1
  OBVIOUS
<1> QED
  BY <1>1, <1>2, <1>5, <1>6, <1>7

\* The phone is asked to go on, or not yet.
LEMMA GoOnFacts ==
  ASSUME NotesOK, NEW m, MgrOK(m), m.cur + m.need <= FileEnd,
         m.need = FwSize(m.image) - m.rel, GoOn(m)
  PROVE  /\ MgrOK(mgr)' /\ NotesOK' /\ mgr'.cur + mgr'.need <= FileEnd
         /\ mgr'.state = m.state /\ mgr'.image = m.image /\ mgr'.rel = m.rel
         /\ mgr'.buf = m.buf /\ mgr'.spare = m.spare /\ mgr'.need = m.need
         /\ mgr'.cur = m.cur \/ mgr'.cur = Base(m.image) + m.rel
<1>1. /\ m.image \in 0 .. 1 /\ m.rel \in Nat /\ m.rel <= FwSize(m.image)
      /\ m \in Mgr
  BY DEF MgrOK, Mgr
<1>2. CASE m.packets >= Window
  <2> DEFINE off == Base(m.image) + m.rel
             len == FwSize(m.image) - m.rel
  <2>1. Ask(m, off, len)
    BY <1>2 DEF GoOn
  <2>2. /\ off \in 0 .. FileEnd /\ len \in 0 .. FileEnd /\ off + len <= FileEnd
    BY <1>1, ImageFacts
  <2> HIDE DEF off, len
  <2>3. /\ MgrOK(mgr)' /\ NotesOK' /\ mgr'.cur = off /\ mgr'.need = len
        /\ mgr'.state = m.state /\ mgr'.rel = m.rel /\ mgr'.image = m.image
        /\ mgr'.buf = m.buf /\ mgr'.spare = m.spare
    BY <2>1, <2>2, AskFacts
  <2> QED
    BY <2>2, <2>3 DEF off, len
<1>3. CASE ~(m.packets >= Window)
  BY <1>3 DEF GoOn, MgrOK, NotesOK
<1> QED
  BY <1>2, <1>3

\* What a packet of payload makes of the manager.
LEMMA GatherFacts ==
  ASSUME OtaInv, NEW at, NEW n, Arrives(at, n), at = mgr.cur, mgr.state = "payload"
  PROVE  \E f \in 1 .. Taken(n) :
    LET t == Taken(n)
        data == [i \in 1 .. t |-> at + i - 1]
    IN  /\ t \in 1 .. mgr.need /\ t <= n /\ (t # mgr.need => t = n)
        /\ (IF t > Room THEN Room ELSE t) = f
        /\ Len(mgr.buf) + f <= BufferLen
        /\ f # t => Len(mgr.buf) + f = BufferLen
        /\ data \in Seq(0 .. FileEnd) /\ Len(data) = t
        /\ \A k \in 1 .. t : data[k] = at + k - 1
        /\ mgr.rel + mgr.need = FwSize(mgr.image) /\ at = Base(mgr.image) + mgr.rel
<1>1. /\ MgrOK(mgr) /\ mgr \in Mgr /\ mgr.rel \in Nat /\ mgr.need \in Nat
      /\ mgr.image \in 0 .. 1 /\ mgr.buf \in Seq(0 .. FileEnd)
  BY DEF OtaInv, Types, MgrOK, Mgr
<1>2. /\ mgr.rel + mgr.need = FwSize(mgr.image) /\ mgr.need # 0 /\ mgr.spare = <<>>
      /\ at = Base(mgr.image) + mgr.rel /\ Len(mgr.buf) < BufferLen
  <2>1. /\ mgr.rel + Len(mgr.spare) + mgr.need = FwSize(mgr.image)
        /\ mgr.need # 0 => mgr.cur = Base(mgr.image) + mgr.rel + Len(mgr.spare)
        /\ mgr.need # 0 /\ mgr.spare = <<>> /\ Len(mgr.buf) < BufferLen
    BY DEF OtaInv, Core, Buffers, Arrives
  <2>2. Len(mgr.spare) = 0
    BY <2>1
  <2> QED
    BY <1>1, <2>1, <2>2, ImageFacts
<1>3. n \in Nat /\ n > 0 /\ at \in Nat /\ at + n \in 0 .. FileEnd
  BY DEF Arrives
<1> DEFINE t == Taken(n)
<1>4. FwSize(mgr.image) \in Nat
  BY <1>1, ImageFacts
<1>5. /\ t \in 1 .. mgr.need /\ t <= n /\ (t # mgr.need => t = n)
  BY <1>1, <1>2, <1>3, <1>4 DEF Taken
<1> HIDE DEF t
<1> DEFINE f == IF t > Room THEN Room ELSE t
           data == [i \in 1 .. t |-> at + i - 1]
<1>6. Len(mgr.buf) \in Nat /\ BufferLen \in Nat /\ t \in Nat
  BY <1>1, <1>5, OtaAssumption
<1>7. /\ f \in 1 .. t /\ Len(mgr.buf) + f <= BufferLen
      /\ f # t => Len(mgr.buf) + f = BufferLen
  <2>1. Room \in Nat /\ Room > 0 /\ Len(mgr.buf) + Room = BufferLen
    BY <1>2, <1>6 DEF Room
  <2>2. t \in Nat /\ t > 0
    BY <1>1, <1>5
  <2>3. CASE t > Room
    BY <1>6, <2>1, <2>2, <2>3
  <2>4. CASE ~(t > Room)
    BY <1>6, <2>1, <2>2, <2>4
  <2> QED
    BY <2>3, <2>4
<1>8. \A i \in 1 .. t : at + i - 1 \in 0 .. FileEnd
  BY <1>3, <1>5, <1>6, Sizes
<1>9. data \in Seq(0 .. FileEnd) /\ Len(data) = t
  BY <1>6, <1>8
<1>10. \A k \in 1 .. t : data[k] = at + k - 1
  OBVIOUS
<1> HIDE DEF f, data
<1> QED
  BY <1>2, <1>5, <1>7, <1>9, <1>10 DEF f, t, data

\* A sequence and what is appended to it.
LEMMA ConcatFacts ==
  ASSUME NEW S, NEW s \in Seq(S), NEW u \in Seq(S)
  PROVE  /\ s \o u \in Seq(S) /\ Len(s \o u) = Len(s) + Len(u)
         /\ \A k \in 1 .. Len(s) : (s \o u)[k] = s[k]
         /\ \A k \in Len(s) + 1 .. Len(s) + Len(u) : (s \o u)[k] = u[k - Len(s)]
OBVIOUS

\* Payload fills the write buffer; a full one, or the end, is written.
LEMMA PayloadKept ==
  ASSUME OtaInv, NEW at, NEW n, Arrives(at, n), at = mgr.cur, Payload(at, n)
  PROVE  Kept'
<1>1. /\ active /\ mgr.state = "payload" /\ pc = "idle"
      /\ checkTimer' = active' /\ at \in Nat /\ n \in Nat /\ at + n \in 0 .. FileEnd
      /\ n <= PacketLen
      /\ UNCHANGED <<active, nv, vpKnown, flash, pkg, spoilt>>
  BY DEF Payload, Arrives
<1> DEFINE t == Taken(n)
           data == [i \in 1 .. t |-> at + i - 1]
           c == Counted(at, n)
<1>2. PICK f \in 1 .. t :
        /\ t \in 1 .. mgr.need /\ t <= n /\ (t # mgr.need => t = n)
        /\ (IF t > Room THEN Room ELSE t) = f
        /\ Len(mgr.buf) + f <= BufferLen
        /\ f # t => Len(mgr.buf) + f = BufferLen
        /\ data \in Seq(0 .. FileEnd) /\ Len(data) = t
        /\ \A k \in 1 .. t : data[k] = at + k - 1
        /\ mgr.rel + mgr.need = FwSize(mgr.image) /\ at = Base(mgr.image) + mgr.rel
  BY <1>1, GatherFacts
<1> DEFINE fits == SubSeq(data, 1, f)
           rest == SubSeq(data, f + 1, t)
           m == [c EXCEPT !.need = @ - t, !.buf = @ \o fits, !.rel = @ + f, !.spare = rest]
<1>3. /\ fits \in Seq(0 .. FileEnd) /\ Len(fits) = f
      /\ \A k \in 1 .. f : fits[k] = at + k - 1
      /\ rest \in Seq(0 .. FileEnd) /\ Len(rest) = t - f
      /\ \A k \in 1 .. t - f : rest[k] = at + f + k - 1
  <2> DEFINE S == 0 .. FileEnd
  <2>1. data \in Seq(S)
    BY <1>2
  <2>2. Len(data) = t /\ t \in Nat /\ \A k \in 1 .. t : data[k] = at + k - 1
    <3>1. mgr.need \in Nat
      BY DEF OtaInv, Types, MgrOK, Mgr
    <3> HIDE DEF t, data
    <3> QED
      BY <1>2, <3>1
  <2> HIDE DEF S, t, data
  <2>3. /\ SubSeq(data, 1, f) \in Seq(S) /\ Len(SubSeq(data, 1, f)) = f
        /\ \A k \in 1 .. f : SubSeq(data, 1, f)[k] = at + k - 1
        /\ SubSeq(data, f + 1, t) \in Seq(S) /\ Len(SubSeq(data, f + 1, t)) = t - f
        /\ \A k \in 1 .. t - f : SubSeq(data, f + 1, t)[k] = at + f + k - 1
    BY <1>1, <2>1, <2>2, SplitFacts
  <2> QED
    BY <2>3 DEF S
<1>4. /\ IF Len(m.buf) = BufferLen \/ m.rel = FwSize(m.image)
         THEN mgr' = m /\ pc' = WriteOf(m.image) /\ notes' = notes
         ELSE GoOn(m) /\ pc' = pc
  <2>1. m = [Counted(at, n) EXCEPT
               !.need = @ - Taken(n), !.buf = @ \o fits, !.rel = @ + Len(fits),
               !.spare = SubSeq(data, Len(fits) + 1, Len(data))]
    <3>1. Len(fits) = f /\ Len(data) = t
      BY <1>2, <1>3
    <3> HIDE DEF fits, data
    <3> QED
      BY <3>1 DEF rest
  <2> HIDE DEF m
  <2> QED
    BY <1>2, <2>1 DEF Payload
<1>5. /\ Counted(at, n) = c /\ MgrOK(c) /\ c.cur = at + n /\ c.state = "payload"
      /\ c.need = mgr.need /\ c.rel = mgr.rel /\ c.image = mgr.image
      /\ c.buf = mgr.buf
  BY <1>1, CountedFacts DEF OtaInv, Types
<1>6. /\ mgr.need \in 0 .. FileEnd /\ mgr.rel \in Nat /\ mgr.image \in 0 .. 1
      /\ mgr.buf \in Seq(0 .. FileEnd) /\ FileEnd \in Nat
      /\ FwSize(mgr.image) \in Nat /\ Base(mgr.image) \in Nat
      /\ Base(mgr.image) + FwSize(mgr.image) <= FileEnd
      /\ PacketLen \in Nat /\ BufferLen \in Nat
  <2>1. /\ mgr.need \in 0 .. FileEnd /\ mgr.rel \in Nat /\ mgr.image \in 0 .. 1
        /\ mgr.buf \in Seq(0 .. FileEnd)
    BY DEF OtaInv, Types, MgrOK, Mgr
  <2> QED
    BY <2>1, ImageFacts, OtaAssumption
<1> HIDE DEF t, data, c, fits, rest
<1>7. t \in Nat /\ f \in Nat /\ f > 0 /\ f <= t
  BY <1>2, <1>6
<1> DEFINE need == mgr.need
           rel == mgr.rel
           size == FwSize(mgr.image)
           base == Base(mgr.image)
           len == Len(mgr.buf)
\* The lengths before and after.
<1>13. /\ need \in Nat /\ rel \in Nat /\ size \in Nat /\ base \in Nat /\ len \in Nat
       /\ need <= FileEnd /\ base + size <= FileEnd /\ FileEnd \in Nat
       /\ t \in Nat /\ f \in Nat /\ f > 0 /\ f <= t /\ t <= need /\ t <= n /\ n \in Nat
       /\ n <= PacketLen /\ (t # need => t = n) /\ len + f <= BufferLen
       /\ (f # t => len + f = BufferLen) /\ rel + need = size /\ at = base + rel
       /\ BufferLen \in Nat /\ PacketLen \in Nat /\ len <= rel /\ at + n <= FileEnd
  <2>1. Len(mgr.buf) <= mgr.rel /\ Len(mgr.buf) \in Nat
    BY <1>1, <1>6 DEF OtaInv, Core, Buffers
  <2>2. t <= mgr.need /\ mgr.need <= FileEnd /\ mgr.need \in Nat
    BY <1>2, <1>6
  <2> QED
    BY <1>1, <1>2, <1>6, <1>7, <2>1, <2>2
<1> HIDE DEF need, rel, size, base, len
<1>14. /\ need - t \in 0 .. FileEnd /\ rel + f \in Nat /\ rel + f <= size
       /\ t - f < PacketLen /\ at + n + (need - t) <= FileEnd
       /\ rel + f + (t - f) + (need - t) = size
       /\ need - t # 0 => at + n = base + (rel + f) + (t - f)
       /\ len + f <= rel + f /\ (rel + f) - (len + f) = rel - len
       /\ len + f # BufferLen => t - f = 0 /\ len + f < BufferLen
  BY <1>13
<1>8. /\ mgr.need - t \in 0 .. FileEnd /\ mgr.rel + f \in Nat
      /\ mgr.rel + f <= FwSize(mgr.image) /\ t - f < PacketLen
  BY <1>14 DEF need, rel, size
<1> DEFINE buf == mgr.buf \o fits
<1>9. /\ buf \in Seq(0 .. FileEnd) /\ Len(buf) = Len(mgr.buf) + f
      /\ \A k \in 1 .. Len(mgr.buf) : buf[k] = mgr.buf[k]
      /\ \A k \in Len(mgr.buf) + 1 .. Len(mgr.buf) + f : buf[k] = fits[k - Len(mgr.buf)]
  <2>1. /\ buf \in Seq(0 .. FileEnd) /\ Len(buf) = Len(mgr.buf) + Len(fits)
        /\ \A k \in 1 .. Len(mgr.buf) : buf[k] = mgr.buf[k]
        /\ \A k \in Len(mgr.buf) + 1 .. Len(mgr.buf) + Len(fits) :
             buf[k] = fits[k - Len(mgr.buf)]
    <3>1. mgr.buf \in Seq(0 .. FileEnd) /\ fits \in Seq(0 .. FileEnd)
      BY <1>3, <1>6
    <3> QED
      BY <3>1, ConcatFacts
  <2> HIDE DEF buf
  <2> QED
    BY <1>3, <2>1
<1> HIDE DEF buf
<1>10. /\ MgrOK(m) /\ m.need = mgr.need - t /\ m.buf = buf /\ m.rel = mgr.rel + f
       /\ m.spare = rest /\ m.state = "payload" /\ m.image = mgr.image
       /\ m.cur = at + n
  <2>1. m = [c EXCEPT !.need = mgr.need - t, !.buf = buf, !.rel = mgr.rel + f,
                      !.spare = rest]
    BY <1>5 DEF buf, MgrOK, Mgr
  <2> DEFINE less == mgr.need - t
             more == mgr.rel + f
  <2>2. less \in 0 .. FileEnd /\ more \in Nat
    BY <1>8
  <2> HIDE DEF m, less, more
  <2>3. m = [c EXCEPT !.need = less, !.buf = buf, !.rel = more, !.spare = rest]
    BY <2>1 DEF less, more
  <2>4. /\ m \in Mgr /\ m.need = less /\ m.buf = buf /\ m.rel = more
        /\ m.spare = rest /\ m.state = "payload" /\ m.image = mgr.image
        /\ m.cur = at + n /\ m.misses = c.misses
    BY <1>3, <1>5, <1>9, <2>2, <2>3 DEF MgrOK, Mgr
  <2> QED
    BY <1>2, <1>3, <1>5, <1>8, <1>9, <2>4 DEF MgrOK, less, more
<1> HIDE DEF m
\* Where the manager is after the packet.
<1>11. /\ m.rel + Len(m.spare) + m.need = FwSize(m.image)
       /\ m.need # 0 => m.cur = Base(m.image) + m.rel + Len(m.spare)
       /\ m.cur + m.need <= FileEnd
       /\ Len(m.buf) <= m.rel /\ m.rel - Len(m.buf) = WriteAt
       /\ Len(m.buf) # BufferLen => m.spare = <<>> /\ Len(m.buf) < BufferLen
       /\ m.buf # <<>>
  <2>1. /\ Len(m.spare) = t - f /\ Len(m.buf) = len + f /\ m.rel = rel + f
        /\ m.need = need - t /\ m.cur = at + n /\ FwSize(m.image) = size
        /\ Base(m.image) = base /\ WriteAt = rel - len
    BY <1>3, <1>9, <1>10 DEF need, rel, size, base, len, WriteAt
  <2>2. /\ m.rel + Len(m.spare) + m.need = FwSize(m.image)
        /\ m.need # 0 => m.cur = Base(m.image) + m.rel + Len(m.spare)
        /\ m.cur + m.need <= FileEnd
        /\ Len(m.buf) <= m.rel /\ m.rel - Len(m.buf) = WriteAt
    <3>1. m.rel + Len(m.spare) + m.need = FwSize(m.image)
      BY <1>14, <2>1
    <3>2. m.need # 0 => m.cur = Base(m.image) + m.rel + Len(m.spare)
      <4>1. CASE need - t # 0
        BY <1>14, <2>1, <4>1
      <4>2. CASE need - t = 0
        BY <2>1, <4>2
      <4> QED
        BY <4>1, <4>2
    <3>3. m.cur + m.need <= FileEnd
      <4>1. at + n + (need - t) <= FileEnd
        BY <1>14
      <4>2. m.cur = at + n /\ m.need = need - t
        BY <2>1
      <4> QED
        BY <4>1, <4>2, Zenon
    <3>4. Len(m.buf) <= m.rel /\ m.rel - Len(m.buf) = WriteAt
      <4>1. len + f <= rel + f
        BY <1>14
      <4>2. (rel + f) - (len + f) = rel - len
        BY <1>14
      <4>3. Len(m.buf) = len + f /\ m.rel = rel + f /\ WriteAt = rel - len
        BY <2>1
      <4>4. Len(m.buf) <= m.rel
        BY <4>1, <4>3, Zenon
      <4>5. m.rel - Len(m.buf) = WriteAt
        <5>1. m.rel - Len(m.buf) = (rel + f) - (len + f)
          BY <4>3, Zenon
        <5> QED
          BY <4>2, <4>3, <5>1
      <4> QED
        BY <4>4, <4>5
    <3> QED
      BY <3>1, <3>2, <3>3, <3>4
  <2>3. Len(m.buf) # BufferLen => Len(m.spare) = 0 /\ Len(m.buf) < BufferLen
    <3>1. CASE len + f = BufferLen
      BY <2>1, <3>1
    <3>2. CASE len + f # BufferLen
      <4>1. t - f = 0 /\ len + f < BufferLen
        BY <1>14, <3>2
      <4> QED
        BY <2>1, <4>1
    <3> QED
      BY <3>1, <3>2
  <2>4. Len(m.buf) # BufferLen => m.spare = <<>> /\ Len(m.buf) < BufferLen
    BY <1>3, <1>10, <2>3
  <2>5. Len(m.buf) # 0
    BY <1>13, <2>1
  <2>6. m.buf # <<>>
    BY <2>5
  <2> QED
    BY <2>2, <2>4, <2>6
<1>12. /\ \A k \in 1 .. Len(m.buf) : m.buf[k] = Base(m.image) + WriteAt + k - 1
       /\ \A k \in 1 .. Len(m.spare) : m.spare[k] = Base(m.image) + m.rel + k - 1
  <2>1. /\ Len(m.spare) = t - f /\ Len(m.buf) = len + f /\ m.rel = rel + f
        /\ Base(m.image) = base /\ WriteAt = rel - len
    BY <1>3, <1>9, <1>10 DEF rel, base, len, WriteAt
  <2>2. \A k \in 1 .. len : m.buf[k] = base + (rel - len) + k - 1
    <3>1. \A k \in 1 .. Len(mgr.buf) : mgr.buf[k] = Base(mgr.image) + WriteAt + k - 1
      BY <1>1 DEF OtaInv, Core, Buffers
    <3> QED
      BY <1>9, <1>10, <3>1 DEF rel, base, len, WriteAt
  <2>3. \A k \in len + 1 .. len + f : m.buf[k] = at + (k - len) - 1
    <3>1. \A k \in len + 1 .. len + f : k - len \in 1 .. f
      BY <1>13
    <3>2. \A k \in len + 1 .. len + f : m.buf[k] = fits[k - len]
      BY <1>9, <1>10 DEF len
    <3> QED
      BY <1>3, <3>1, <3>2
  <2>4. ASSUME NEW k \in 1 .. len + f PROVE m.buf[k] = base + (rel - len) + k - 1
    <3>1. CASE k \in 1 .. len
      BY <2>2, <3>1
    <3>2. CASE k \in len + 1 .. len + f
      <4>1. at + (k - len) - 1 = base + (rel - len) + k - 1
        BY <1>13
      <4> QED
        BY <2>3, <3>2, <4>1
    <3> QED
      BY <1>13, <3>1, <3>2
  <2>5. ASSUME NEW k \in 1 .. t - f PROVE m.spare[k] = base + (rel + f) + k - 1
    <3>1. m.spare[k] = at + f + k - 1
      BY <1>3, <1>10
    <3>2. at + f + k - 1 = base + (rel + f) + k - 1
      BY <1>13
    <3> QED
      BY <3>1, <3>2
  <2> QED
    BY <2>1, <2>4, <2>5
<1>15. KeptOK'
  BY <1>1 DEF OtaInv, Types, KeptOK, nv, flash
<1>16. UNCHANGED <<vpDone, bp, record, area, vp, ready>>
  BY <1>1 DEF nv, flash
<1>17. /\ IF pkg.vpOnly THEN record = 0 ELSE record = pkg.ver /\ pkg.pid = LocalPid
       /\ mgr.image = 1 => ~pkg.vpOnly
       /\ bp # None => bp.rel <= FwSize(bp.image)
       /\ bp # None => \/ bp.image = mgr.image /\ bp.rel <= WriteAt
                       \/ bp.image = 0 /\ mgr.image = 1
  BY <1>1 DEF OtaInv, Core, Steady, Phases
<1>18. ASSUME spoilt = {}
       PROVE  /\ bp # None => BackedBy(pkg)'
              /\ mgr.image = 1 => \/ At(0, VpLen) /\ ~vpDone
                                  \/ bp # None /\ bp.image = 1 /\ bp.rel < ImgLen
              /\ ready => WriteAt = 0
  <2>1. Owned /\ Progress
    BY <1>18 DEF OtaInv, Core, Clean
  <2>2. bp # None => BackedBy(pkg)'
    BY <1>1, <1>16, <2>1 DEF Owned, BackedBy, Holds
  <2> QED
    BY <1>1, <2>1, <2>2 DEF Progress
<1>19. ASSUME mgr'.state = "payload", spoilt = {} PROVE Whole'
  BY <1>1, <1>16, <1>19 DEF OtaInv, Core, Clean, Whole, Holds, At
<1>20. CASE Len(m.buf) = BufferLen \/ m.rel = FwSize(m.image)
  <2>1. mgr' = m /\ pc' = WriteOf(m.image) /\ notes' = notes
    BY <1>4, <1>20
  <2>2. /\ pc' \in {"vpState", "program"} /\ mgr'.image = mgr.image
        /\ pc' = "program" <=> mgr'.image # 0
        /\ mgr'.state = "payload" /\ mgr'.rel - Len(mgr'.buf) = WriteAt
    BY <1>10, <1>11, <2>1 DEF WriteOf
  <2>3. MgrOK(mgr)' /\ NotesOK' /\ WithinFile'
    BY <1>10, <1>11, <2>1 DEF OtaInv, Types, MgrOK, NotesOK, WithinFile
  <2>4. Phases'
    BY <1>1, <1>17, <2>2 DEF Phases, SessionIsTimed
  <2>5. Buffers'
    BY <1>10, <1>11, <1>12, <2>1, <2>2 DEF Buffers, Writing, WriteAt
  <2>6. WriteAt' = WriteAt
    BY <2>2 DEF WriteAt
  <2>7. Steady'
    BY <1>1, <1>6, <1>16, <1>17, <2>2, <2>6 DEF Steady, Copying, Writing
  <2>8. pkg \in Packages /\ active \in BOOLEAN
    BY DEF OtaInv, Types, PhoneOK, FlagsOK
  <2>9. spoilt = {} => Owned' /\ Progress'
    BY <1>1, <1>16, <1>18, <2>2, <2>6, <2>8 DEF Owned, Progress, Copying, At
  <2> QED
    BY <1>1, <1>15, <1>19, <2>2, <2>3, <2>4, <2>5, <2>7, <2>9, <2>8
      DEF Kept, Core, Clean
<1>21. CASE ~(Len(m.buf) = BufferLen \/ m.rel = FwSize(m.image))
  <2>1. GoOn(m) /\ pc' = "idle"
    BY <1>1, <1>4, <1>21
  <2>2. m.spare = <<>> /\ Len(m.spare) = 0 /\ Len(m.buf) < BufferLen
    BY <1>11, <1>21
  <2>3. m.need = FwSize(m.image) - m.rel /\ m.need # 0
    <3>1. m.rel \in Nat /\ m.need \in Nat /\ FwSize(m.image) \in Nat
      BY <1>6, <1>10 DEF MgrOK, Mgr
    <3>2. m.rel + Len(m.spare) + m.need = FwSize(m.image)
      BY <1>11
    <3> QED
      BY <1>21, <2>2, <3>1, <3>2
  <2>4. /\ MgrOK(mgr)' /\ NotesOK' /\ mgr'.cur + mgr'.need <= FileEnd
        /\ mgr'.state = "payload" /\ mgr'.image = mgr.image /\ mgr'.rel = m.rel
        /\ mgr'.buf = m.buf /\ mgr'.spare = m.spare /\ mgr'.need = m.need
        /\ mgr'.cur = m.cur \/ mgr'.cur = Base(m.image) + m.rel
    BY <1>10, <1>11, <2>1, <2>3, GoOnFacts DEF OtaInv, Types
  <2>5. WithinFile'
    BY <2>4 DEF WithinFile
  <2>6. Phases'
    BY <1>1, <1>17, <2>1, <2>4 DEF Phases, SessionIsTimed
  <2>7. Buffers'
    <3>1. mgr'.cur = Base(mgr.image) + mgr'.rel + Len(mgr'.spare)
      <4>1. m.rel \in Nat /\ Base(mgr.image) \in Nat
        BY <1>6, <1>10 DEF MgrOK, Mgr
      <4>2. m.cur = Base(m.image) + m.rel + Len(m.spare)
        BY <1>11, <2>3
      <4> QED
        BY <1>10, <2>2, <2>4, <4>1, <4>2
    <3>2. /\ mgr'.rel - Len(mgr'.buf) = WriteAt /\ m.image = mgr.image
          /\ mgr'.rel + Len(mgr'.spare) + mgr'.need = FwSize(mgr'.image)
      BY <1>10, <1>11, <2>4
    <3> QED
      BY <1>11, <1>12, <2>1, <2>2, <2>3, <2>4, <3>1, <3>2 DEF Buffers, Writing, WriteAt
  <2>8. WriteAt' = WriteAt
    BY <1>11, <2>4 DEF WriteAt
  <2>9. Steady'
    BY <1>1, <1>6, <1>16, <1>17, <2>1, <2>4, <2>8 DEF Steady, Copying, Writing
  <2>10. pkg \in Packages /\ active \in BOOLEAN
    BY DEF OtaInv, Types, PhoneOK, FlagsOK
  <2>11. spoilt = {} => Owned' /\ Progress'
    BY <1>1, <1>16, <1>18, <2>1, <2>4, <2>8, <2>10 DEF Owned, Progress, Copying, At
  <2> QED
    BY <1>1, <1>15, <1>19, <2>1, <2>4, <2>5, <2>6, <2>7, <2>9, <2>11, <2>10
      DEF Kept, Core, Clean
<1> QED
  BY <1>20, <1>21

\* A packet that arrives, and one that is lost, were in the range asked for.
LEMMA PacketInv == OtaInv /\ PhoneSends => OtaInv'
<1> SUFFICES ASSUME OtaInv, PhoneSends PROVE OtaInv'
  OBVIOUS
<1> DEFINE n == IF left < PacketLen THEN left ELSE PacketLen
<1>1. /\ pc = "idle" /\ link = "up" /\ left > 0 /\ credit > 0
      /\ next' = next + n /\ left' = left - n /\ credit' = credit - 1
      /\ UNCHANGED <<pkg, told, discTimer, resetTimer, vpKnown, flash, link>>
      /\ Packet(next, n)
  BY DEF PhoneSends, Sends
<1>2. /\ next \in Nat /\ left \in Nat /\ next + left <= FileEnd /\ FileEnd \in Nat
      /\ credit \in 0 .. Window /\ PacketLen \in Nat /\ PacketLen > 0
  BY Sizes, OtaAssumption DEF OtaInv, Types, PhoneOK
<1>3. n \in Nat /\ n > 0 /\ n <= PacketLen /\ n <= left
  BY <1>1, <1>2
<1> HIDE DEF n
<1>4. Arrives(next, n)
  BY <1>1, <1>2, <1>3 DEF Arrives, Packet
<1>5. Kept'
  BY <1>1, <1>4, UnexpectedKept, IgnoredKept, ProtocolVersionKept, PackageHeaderKept,
    GivenUpKept, FwTableKept, ResumeKept, ControlHeaderKept, PayloadKept
    DEF Packet, HeaderRefused, NoFwTable
<1>6. PhoneOK'
  <2>1. /\ next' \in 0 .. FileEnd /\ left' \in 0 .. FileEnd /\ next' + left' <= FileEnd
        /\ credit' \in 0 .. Window
    BY <1>1, <1>2, <1>3, OtaAssumption
  <2>2. faults' = faults \/ Fault
    BY <1>1 DEF Packet, Unexpected, Ignored, ProtocolVersion, PackageHeader,
      HeaderRefused, NoFwTable, FwTable, Resume, ControlHeader, Payload, NoFault
  <2>3. faults' \in 0 .. MaxFaults
    BY <2>2, FaultBound DEF OtaInv, Types, NoFault
  <2> QED
    BY <1>1, <2>1, <2>3 DEF OtaInv, Types, PhoneOK
<1>7. FlagsOK'
  BY <1>1, <1>4, <1>5 DEF OtaInv, Types, FlagsOK, Kept, Arrives
<1> QED
  BY <1>5, <1>6, <1>7 DEF OtaInv, Types, Kept

-----------------------------------------------------------------------------
(* The rest of a packet's handler *)

\* A step of the handler leaves the phone and the link alone.
LEMMA StepInv ==
  ASSUME OtaInv, Kept', UNCHANGED <<active, resetTimer, link, phone>>,
         checkTimer' \in BOOLEAN, discTimer' \in BOOLEAN, vpKnown' \in BOOLEAN,
         faults' \in 0 .. MaxFaults
  PROVE  OtaInv'
<1>1. FlagsOK' /\ PhoneOK'
  BY DEF OtaInv, Types, Kept, FlagsOK, PhoneOK, phone
<1> QED
  BY <1>1 DEF OtaInv, Types, Kept

\* What holds before every step of the handler.
LEMMA HandlerFacts ==
  ASSUME OtaInv, pc # "idle"
  PROVE  /\ active = TRUE /\ mgr.state \in {"table", "payload", "finish"}
         /\ mgr.state = "finish" <=> pc = "clear"
         /\ pc \in Writing => mgr.state = "payload"
         /\ pc \notin {"ready", "clear"} => checkTimer = TRUE
         /\ spoilt = {} => /\ Owned /\ Progress /\ Whole
                           /\ bp # None => BackedBy(pkg)
         /\ IF pkg.vpOnly THEN record = 0 ELSE record = pkg.ver /\ pkg.pid = LocalPid
         /\ pkg \in Packages /\ pkg.vpOnly \in BOOLEAN /\ faults \in 0 .. MaxFaults
         /\ vpDone \in BOOLEAN /\ vpKnown \in BOOLEAN /\ ready \in BOOLEAN
         /\ discTimer \in BOOLEAN /\ checkTimer \in BOOLEAN
<1>1. active = TRUE /\ mgr.state \in States
  BY DEF OtaInv, Types, FlagsOK, MgrOK, Mgr, Core, Phases
<1>2. /\ mgr.state \in {"table", "payload", "finish"}
      /\ mgr.state = "finish" <=> pc = "clear"
      /\ pc \in Writing => mgr.state = "payload"
      /\ pc \notin {"ready", "clear"} => checkTimer
  BY <1>1 DEF OtaInv, Core, Phases, States, Writing
<1>3. pkg \in Packages /\ pkg.vpOnly \in BOOLEAN
  BY OtaAssumption DEF OtaInv, Types, PhoneOK
<1>4. /\ spoilt = {} => Owned /\ Progress /\ Whole /\ (bp # None => BackedBy(pkg))
      /\ IF pkg.vpOnly THEN record = 0 ELSE record = pkg.ver /\ pkg.pid = LocalPid
  <2>1. spoilt = {} => Owned /\ Progress /\ Whole
    BY DEF OtaInv, Core, Clean
  <2>2. IF pkg.vpOnly THEN record = 0 ELSE record = pkg.ver /\ pkg.pid = LocalPid
    BY <1>2, <1>3 DEF OtaInv, Core, Steady
  <2>3. Owned => (bp # None => BackedBy(pkg))
    BY <1>2 DEF Owned
  <2> QED
    BY <2>1, <2>2, <2>3
<1> QED
  BY <1>1, <1>2, <1>3, <1>4 DEF OtaInv, Types, FlagsOK, KeptOK, PhoneOK

\* A write of the prompts begins with their state.
LEMMA VpStateInv == OtaInv /\ VpState => OtaInv'
<1> SUFFICES ASSUME OtaInv, VpState PROVE OtaInv'
  OBVIOUS
<1>1. /\ pc = "vpState" /\ pc' = "program" /\ vpDone' = (mgr.rel = VpLen) /\ vpKnown' = TRUE
      /\ UNCHANGED <<active, mgr, checkTimer, discTimer, resetTimer, bp, record, area, vp,
                     ready, link, notes, phone, faults, pkg, spoilt>>
  BY DEF VpState, timers, flash, phone
<1>2. /\ active = TRUE /\ mgr.state = "payload" /\ checkTimer = TRUE /\ mgr.image = 0
      /\ IF pkg.vpOnly THEN record = 0 ELSE record = pkg.ver /\ pkg.pid = LocalPid
      /\ pkg \in Packages
  BY <1>1, HandlerFacts DEF OtaInv, Core, Steady, Writing
<1>3. MgrOK(mgr)' /\ NotesOK' /\ KeptOK' /\ WithinFile'
  BY <1>1 DEF OtaInv, Types, MgrOK, NotesOK, KeptOK, WithinFile, Writing
<1>4. Phases'
  BY <1>1, <1>2 DEF OtaInv, Core, Phases, SessionIsTimed, Writing
<1>5. Buffers' /\ UNCHANGED WriteAt
  BY <1>1, <1>2 DEF OtaInv, Core, Buffers, WriteAt, Writing
<1>6. Steady'
  BY <1>1, <1>2, <1>5 DEF OtaInv, Core, Steady, Copying, Writing
<1>7. bp # None => bp.image = 0 /\ bp.rel < VpLen
  <2> SUFFICES ASSUME bp # None PROVE bp.image = 0 /\ bp.rel < VpLen
    OBVIOUS
  <2>1. bp.image = 0 /\ bp.rel <= WriteAt /\ bp.rel \in Nat
    <3>1. bp.image = mgr.image /\ bp.rel <= WriteAt
      BY <1>1, <1>2 DEF OtaInv, Core, Steady, Writing
    <3> QED
      BY <1>2, <3>1 DEF OtaInv, Types, KeptOK
  <2>2. Len(mgr.buf) \in Nat /\ Len(mgr.buf) # 0
    <3>1. mgr.buf # <<>> /\ mgr.buf \in Seq(0 .. FileEnd)
      BY <1>1, <1>2 DEF OtaInv, Types, MgrOK, Mgr, Core, Buffers, Writing
    <3> QED
      BY <3>1
  <2>3. mgr.rel \in Nat /\ mgr.rel <= VpLen /\ VpLen \in Nat
    BY <1>2, Sizes DEF OtaInv, Types, MgrOK, Mgr
  <2> QED
    BY <2>1, <2>2, <2>3 DEF WriteAt
<1>8. ASSUME spoilt = {} PROVE Owned' /\ Progress' /\ Whole'
  <2>1. Progress /\ Whole /\ (bp # None => BackedBy(pkg))
    BY <1>1, <1>8, HandlerFacts
  <2>2. bp # None => BackedBy(pkg)'
    BY <1>1, <1>7, <2>1 DEF BackedBy, Holds
  <2>3. Owned'
    BY <1>1, <1>2, <2>2 DEF Owned
  <2>4. Progress'
    BY <1>1, <1>2, <1>5, <2>1 DEF Progress, Copying, Writing
  <2>5. Whole'
    BY <1>1, <1>2, <2>1 DEF Whole, Holds, At
  <2> QED
    BY <2>3, <2>4, <2>5
<1> QED
  BY <1>1, <1>2, <1>3, <1>4, <1>5, <1>6, <1>8, HandlerFacts, StepInv
    DEF Kept, Core, Clean

\* The cells written go with those before them; the image is not ready before.
LEMMA ProgramInv == OtaInv /\ Program => OtaInv'
<1> SUFFICES ASSUME OtaInv, Program PROVE OtaInv'
  OBVIOUS
<1>1. /\ pc = "program" /\ pc' = "save" /\ ready' = (ready /\ WriteAt # 0)
      /\ area' = [k \in Cells |->
                    IF k >= WriteAt /\ k < mgr.rel
                    THEN <<pkg, mgr.buf[k - WriteAt + 1]>> ELSE area[k]]
      /\ UNCHANGED <<active, mgr, checkTimer, discTimer, resetTimer, vpKnown, bp, record,
                     vpDone, vp, link, notes, phone, faults, pkg>>
      /\ spoilt' = IF mgr.image = 0 /\ WriteAt = 0 THEN {}
                   ELSE spoilt \cup (IF Holed THEN {"hole"} ELSE {})
  BY DEF Program, timers, nv, phone
<1>2. /\ active = TRUE /\ mgr.state = "payload" /\ checkTimer = TRUE
      /\ IF pkg.vpOnly THEN record = 0 ELSE record = pkg.ver /\ pkg.pid = LocalPid
      /\ pkg \in Packages
  BY <1>1, HandlerFacts DEF Writing
<1>3. /\ mgr.image \in 0 .. 1 /\ mgr.rel \in Nat /\ mgr.rel <= FwSize(mgr.image)
      /\ mgr.buf \in Seq(0 .. FileEnd) /\ Len(mgr.buf) <= mgr.rel
      /\ \A k \in 1 .. Len(mgr.buf) : mgr.buf[k] = Base(mgr.image) + WriteAt + k - 1
      /\ area \in [Cells -> Content]
      /\ bp \in [image : 0 .. 1, rel : 1 .. FileEnd] \cup {None}
  BY <1>2 DEF OtaInv, Types, MgrOK, Mgr, KeptOK, Core, Buffers
<1>4. /\ WriteAt \in Nat /\ WriteAt + Len(mgr.buf) = mgr.rel /\ Len(mgr.buf) \in Nat
      /\ Base(mgr.image) \in Nat /\ FwSize(mgr.image) \in Nat
      /\ 0 .. FwSize(mgr.image) - 1 \subseteq Cells
      /\ Base(mgr.image) + FwSize(mgr.image) <= FileEnd /\ FileEnd \in Nat
  <2>1. Len(mgr.buf) \in Nat
    BY <1>3
  <2>2. WriteAt \in Nat /\ WriteAt + Len(mgr.buf) = mgr.rel
    <3> DEFINE r == mgr.rel
               l == Len(mgr.buf)
    <3>1. r \in Nat /\ l \in Nat /\ l <= r /\ WriteAt = r - l
      BY <1>3, <2>1 DEF WriteAt
    <3> HIDE DEF r, l
    <3>2. WriteAt \in Nat /\ WriteAt + l = r
      BY <3>1
    <3> QED
      BY <3>2 DEF r, l
  <2> QED
    BY <1>3, <2>1, <2>2, ImageFacts
<1>5. ASSUME spoilt' = {}
      PROVE  /\ WriteAt = IF bp # None /\ bp.image = mgr.image THEN bp.rel ELSE 0
             /\ bp # None => BackedBy(pkg)
             /\ mgr.image = 1 => \/ At(0, VpLen) /\ ~vpDone
                                 \/ bp # None /\ bp.image = 1 /\ bp.rel < ImgLen
             /\ mgr.image = 0 /\ bp # None => bp.image = 0 /\ bp.rel < VpLen
             /\ ready => WriteAt = 0
  <2>1. bp # None => \/ bp.image = mgr.image /\ bp.rel <= WriteAt
                     \/ bp.image = 0 /\ mgr.image = 1
    BY <1>1, <1>2 DEF OtaInv, Core, Steady, Writing
  <2>2. bp # None => bp.rel \in Nat /\ bp.rel > 0
    BY <1>3
  <2>3. CASE mgr.image = 0 /\ WriteAt = 0
    <3>1. bp = None
      BY <2>1, <2>2, <2>3
    <3> QED
      BY <2>3, <3>1
  <2>4. CASE ~(mgr.image = 0 /\ WriteAt = 0)
    <3>1. spoilt = {} /\ ~Holed
      BY <1>1, <1>5, <2>4
    <3>2. Progress /\ (bp # None => BackedBy(pkg))
      BY <1>1, <3>1, HandlerFacts
    <3>3. /\ mgr.image = 1 => \/ At(0, VpLen) /\ ~vpDone
                              \/ bp # None /\ bp.image = 1 /\ bp.rel < ImgLen
          /\ ready => WriteAt = 0
      BY <1>1, <1>2, <3>2 DEF Progress, Writing
    <3>4. WriteAt = IF bp # None /\ bp.image = mgr.image THEN bp.rel ELSE 0
      BY <3>1 DEF Holed
    <3>5. mgr.image = 0 /\ bp # None => bp.image = 0 /\ bp.rel < VpLen
      <4> SUFFICES ASSUME mgr.image = 0, bp # None PROVE bp.image = 0 /\ bp.rel < VpLen
        OBVIOUS
      <4>1. bp.image = 0 /\ bp.rel <= WriteAt
        BY <2>1
      <4>2. mgr.buf # <<>>
        BY <1>1, <1>2 DEF OtaInv, Core, Buffers, Writing
      <4>3. Len(mgr.buf) # 0
        BY <1>3, <4>2
      <4> QED
        BY <1>3, <1>4, <2>2, <4>1, <4>3, Sizes
    <3> QED
      BY <3>2, <3>3, <3>4, <3>5
  <2> QED
    BY <2>3, <2>4
<1>6. UNCHANGED WriteAt
  BY <1>1 DEF WriteAt
<1>7. ASSUME NEW k \in Cells, k >= WriteAt, k < mgr.rel
      PROVE  area'[k] = <<pkg, Base(mgr.image) + k>>
  <2> DEFINE j == k - WriteAt + 1
  <2>0. k \in Nat
    BY <1>7, Sizes DEF Cells
  <2>1. (k - WriteAt) + 1 \in 1 .. Len(mgr.buf)
    BY <1>4, <1>7, <2>0
  <2>2. k - WriteAt + 1 = (k - WriteAt) + 1
    BY <1>4, <2>0
  <2>3. Base(mgr.image) + WriteAt + ((k - WriteAt) + 1) - 1 = Base(mgr.image) + k
    BY <1>4, <2>0
  <2> QED
    BY <1>1, <1>3, <1>7, <2>1, <2>2, <2>3
<1>8. ASSUME NEW k \in Cells, k < WriteAt PROVE area'[k] = area[k]
  <2>1. k \in Nat
    BY <1>8, Sizes DEF Cells
  <2> QED
    BY <1>1, <1>4, <1>8, <2>1
<1>9. ASSUME spoilt' = {} PROVE Holds(pkg, mgr.image, WriteAt)
  <2>1. CASE WriteAt = 0
    BY <2>1 DEF Holds
  <2>2. CASE WriteAt # 0
    <3>1. bp # None /\ bp.image = mgr.image /\ bp.rel = WriteAt /\ BackedBy(pkg)
      BY <1>5, <1>9, <2>2
    <3> QED
      BY <1>3, <1>5, <1>9, <3>1 DEF BackedBy
  <2> QED
    BY <2>1, <2>2
<1>10. ASSUME spoilt' = {} PROVE Holds(pkg, mgr.image, mgr.rel)'
  <2> SUFFICES ASSUME NEW k \in 0 .. mgr.rel - 1
               PROVE  area'[k] = <<pkg, Base(mgr.image) + k>>
    BY <1>1 DEF Holds
  <2>1. k \in Cells /\ k < mgr.rel /\ k \in Nat
    <3>1. k \in Nat /\ k < mgr.rel
      BY <1>3
    <3>2. k < FwSize(mgr.image)
      BY <1>3, <1>4, <3>1
    <3>3. k \in 0 .. FwSize(mgr.image) - 1
      BY <1>4, <3>1, <3>2
    <3> QED
      BY <1>4, <3>1, <3>3
  <2>2. CASE k < WriteAt
    <3>1. k \in 0 .. WriteAt - 1
      BY <1>4, <2>1, <2>2
    <3> QED
      BY <1>8, <1>9, <1>10, <2>1, <2>2, <3>1 DEF Holds
  <2>3. CASE ~(k < WriteAt)
    BY <1>4, <1>7, <2>1, <2>3
  <2> QED
    BY <2>2, <2>3
<1>11. ready' \in BOOLEAN /\ (spoilt' = {} => ~ready')
  <2>1. ready \in BOOLEAN
    BY DEF OtaInv, Types, KeptOK
  <2> QED
    BY <1>1, <1>5, <2>1
<1>12. KeptOK'
  <2>1. ASSUME NEW k \in Cells PROVE area'[k] \in Content
    <3>1. CASE k >= WriteAt /\ k < mgr.rel
      <4>1. k \in Nat /\ k < FwSize(mgr.image)
        BY <1>3, <1>4, <3>1, Sizes DEF Cells
      <4>2. Base(mgr.image) + k \in 0 .. FileEnd
        BY <1>4, <4>1
      <4> QED
        <5>1. <<pkg, Base(mgr.image) + k>> \in Content
          BY <1>2, <4>2 DEF Content
        <5> QED
          BY <1>7, <3>1, <5>1
    <3>2. CASE ~(k >= WriteAt /\ k < mgr.rel)
      BY <1>1, <1>3, <3>2
    <3> QED
      BY <3>1, <3>2
  <2>2. area' \in [Cells -> Content]
    BY <1>1, <2>1
  <2>3. spoilt' \subseteq {"mixed", "copy", "hole"}
    BY <1>1 DEF OtaInv, Types, KeptOK
  <2> QED
    BY <1>1, <1>11, <2>2, <2>3 DEF OtaInv, Types, KeptOK
<1>13. spoilt' = {} /\ bp # None => BackedBy(pkg)'
  <2> SUFFICES ASSUME spoilt' = {}, bp # None PROVE BackedBy(pkg)'
    OBVIOUS
  <2>1. CASE bp.image = mgr.image
    <3>1. bp.rel = WriteAt
      BY <1>5, <2>1
    <3>2. ASSUME NEW k \in 0 .. bp.rel - 1, area[k] = <<pkg, Base(mgr.image) + k>>
          PROVE  area'[k] = <<pkg, Base(mgr.image) + k>>
      <4>1. k \in Cells /\ k < WriteAt
        <5>1. k \in 0 .. WriteAt - 1
          BY <3>1
        <5>2. k \in Nat /\ k < WriteAt /\ k < FwSize(mgr.image)
          BY <1>3, <1>4, <5>1
        <5> QED
          BY <1>4, <5>2
      <4> QED
        BY <1>8, <3>2, <4>1
    <3>3. Holds(pkg, mgr.image, bp.rel)'
      BY <1>1, <1>9, <3>1, <3>2 DEF Holds
    <3> QED
      BY <1>1, <1>5, <2>1, <3>3 DEF BackedBy
  <2>2. CASE bp.image # mgr.image
    <3>1. At(0, VpLen) /\ ~vpDone /\ mgr.image = 1
      BY <1>3, <1>5, <2>2
    <3> QED
      BY <1>1, <1>5, <3>1, Sizes DEF BackedBy, At
  <2> QED
    BY <2>1, <2>2
<1>14. MgrOK(mgr)' /\ NotesOK' /\ WithinFile'
  BY <1>1 DEF OtaInv, Types, MgrOK, NotesOK, WithinFile, Writing
<1>15. Phases'
  BY <1>1, <1>2 DEF OtaInv, Core, Phases, SessionIsTimed, Writing
<1>16. Buffers'
  BY <1>1, <1>2 DEF OtaInv, Core, Buffers, WriteAt, Writing
<1>17. Steady'
  BY <1>1, <1>2, <1>6 DEF OtaInv, Core, Steady, Copying, Writing
<1>18. ASSUME spoilt' = {} PROVE Owned' /\ Progress' /\ Whole'
  <2>1. Owned'
    BY <1>1, <1>2, <1>13, <1>18 DEF Owned
  <2>2. Progress'
    BY <1>1, <1>2, <1>5, <1>6, <1>10, <1>11, <1>18 DEF Progress, Copying, At
  <2>3. Whole'
    BY <1>1, <1>2, <1>11, <1>18 DEF Whole
  <2> QED
    BY <2>1, <2>2, <2>3
<1> QED
  BY <1>1, <1>2, <1>12, <1>14, <1>15, <1>16, <1>17, <1>18, HandlerFacts, StepInv
    DEF Kept, Core, Clean

\* After a write: the session waits, writes what waited, or ends the image.
LEMMA WrittenFacts ==
  ASSUME OtaInv, pc \in {"program", "save"}, Written,
         UNCHANGED <<active, checkTimer, pkg>>
  PROVE  /\ MgrOK(mgr)' /\ NotesOK' /\ WithinFile' /\ Phases' /\ Buffers'
         /\ mgr'.state = "payload" /\ mgr'.image = mgr.image
         /\ WriteAt' = mgr.rel
         /\ mgr.rel \in Nat /\ mgr.rel > 0 /\ mgr.rel <= FwSize(mgr.image)
         /\ \/ pc' = "idle" /\ mgr.rel < FwSize(mgr.image)
            \/ /\ pc' = WriteOf(mgr.image) /\ mgr.rel < FwSize(mgr.image)
               /\ mgr.spare # <<>>
            \/ /\ pc' = EndCheck(mgr.image) /\ mgr.rel = FwSize(mgr.image)
               /\ mgr'.rel = mgr.rel /\ mgr.spare = <<>>
<1>1. /\ active = TRUE /\ mgr.state = "payload" /\ checkTimer = TRUE
  BY HandlerFacts DEF Writing
<1>2. /\ mgr \in Mgr /\ MgrOK(mgr) /\ mgr.image \in 0 .. 1 /\ mgr.rel \in Nat
      /\ mgr.need \in Nat /\ mgr.cur \in Nat /\ mgr.rel <= FwSize(mgr.image)
      /\ mgr.buf \in Seq(0 .. FileEnd) /\ mgr.spare \in Seq(0 .. FileEnd)
      /\ Len(mgr.spare) < PacketLen
  BY DEF OtaInv, Types, MgrOK, Mgr
<1>3. /\ mgr.rel + Len(mgr.spare) + mgr.need = FwSize(mgr.image)
      /\ mgr.need # 0 => mgr.cur = Base(mgr.image) + mgr.rel + Len(mgr.spare)
      /\ mgr.buf # <<>> /\ Len(mgr.buf) <= mgr.rel
      /\ \A k \in 1 .. Len(mgr.spare) :
           mgr.spare[k] = Base(mgr.image) + mgr.rel + k - 1
  BY <1>1 DEF OtaInv, Core, Buffers, Writing
<1>4. mgr.cur + mgr.need <= FileEnd
  BY DEF OtaInv, WithinFile, Writing
<1>5. mgr.image = 1 => ~pkg.vpOnly
  BY DEF OtaInv, Core, Phases
<1> DEFINE rel == mgr.rel
           wait == Len(mgr.spare)
           need == mgr.need
           size == FwSize(mgr.image)
           total == rel + wait
<1>6. /\ rel \in Nat /\ wait \in Nat /\ need \in Nat /\ size \in Nat /\ rel > 0
      /\ total + need = size /\ total \in Nat /\ wait < PacketLen
      /\ PacketLen <= BufferLen /\ PacketLen \in Nat /\ BufferLen \in Nat
      /\ Base(mgr.image) \in Nat
  <2>1. wait \in Nat /\ size \in Nat /\ Base(mgr.image) \in Nat
    <3>1. wait \in Nat
      BY <1>2
    <3>2. size \in Nat /\ Base(mgr.image) \in Nat
      BY <1>2, ImageFacts
    <3> QED
      BY <3>1, <3>2
  <2>2. Len(mgr.buf) \in Nat /\ Len(mgr.buf) # 0
    BY <1>2, <1>3
  <2>3. rel > 0
    <3> HIDE DEF rel
    <3>1. Len(mgr.buf) <= rel /\ rel \in Nat
      BY <1>2, <1>3 DEF rel
    <3> QED
      BY <2>2, <3>1
  <2>4. rel + wait + need = size
    BY <1>3
  <2> HIDE DEF rel, wait, need, size
  <2>5. rel \in Nat /\ need \in Nat /\ wait < PacketLen
    BY <1>2 DEF rel, need, wait
  <2> QED
    BY <2>1, <2>3, <2>4, <2>5, OtaAssumption
<1> DEFINE m == [mgr EXCEPT !.buf = mgr.spare, !.spare = <<>>, !.rel = @ + Len(mgr.spare)]
<1>7. m = [mgr EXCEPT !.buf = mgr.spare, !.spare = <<>>, !.rel = total]
  BY <1>2 DEF Mgr
<1>8. IF m.rel = FwSize(m.image)
      THEN /\ mgr' = m /\ notes' = notes
           /\ pc' = IF m.buf # <<>> THEN WriteOf(m.image) ELSE EndCheck(m.image)
      ELSE GoOn(m) /\ pc' = "idle"
  BY DEF Written
<1> HIDE DEF m, total
<1>9. /\ MgrOK(m) /\ m.state = "payload" /\ m.image = mgr.image /\ m.rel = total
      /\ m.buf = mgr.spare /\ m.spare = <<>> /\ m.need = need /\ m.cur = mgr.cur
  <2>1. <<>> \in Seq(0 .. FileEnd)
    OBVIOUS
  <2>2. /\ m \in Mgr /\ m.state = "payload" /\ m.image = mgr.image /\ m.rel = total
        /\ m.buf = mgr.spare /\ m.spare = <<>> /\ m.need = need /\ m.cur = mgr.cur
        /\ m.misses = mgr.misses
    BY <1>1, <1>2, <1>6, <1>7, <2>1 DEF Mgr
  <2>3. total <= size
    <3> HIDE DEF need, size
    <3> QED
      BY <1>6
  <2>4. Len(m.buf) <= BufferLen /\ Len(m.spare) < PacketLen
    <3>1. Len(m.buf) = wait /\ Len(m.spare) = 0
      BY <2>2
    <3> HIDE DEF wait
    <3> QED
      BY <1>6, <3>1
  <2> QED
    BY <1>2, <2>2, <2>3, <2>4 DEF MgrOK
<1>10. total - wait = rel /\ wait <= total /\ (wait = 0 => total = rel) /\ rel <= size
       /\ (wait # 0 => rel < size) /\ (total # size => need # 0 /\ rel < size)
       /\ total + 0 + need = size /\ need = size - total /\ wait < BufferLen
       /\ Base(mgr.image) + rel + wait = Base(mgr.image) + total
       /\ (total = size => need = 0)
  <2>1. total = rel + wait
    BY DEF total
  <2> HIDE DEF rel, wait, need, size
  <2> QED
    BY <1>6, <2>1
<1>14. /\ mgr.rel = rel /\ Len(mgr.spare) = wait /\ mgr.need = need
       /\ FwSize(mgr.image) = size /\ FwSize(m.image) = size
       /\ Len(m.buf) = wait /\ Len(m.spare) = 0 /\ m.rel = total /\ m.need = need
       /\ Base(m.image) = Base(mgr.image)
  BY <1>9
<1> HIDE DEF rel, wait, need, size
<1>15. Len(m.buf) <= m.rel /\ m.rel - Len(m.buf) = rel
  <2>1. Len(m.buf) = wait /\ m.rel = total
    BY <1>14
  <2>2. wait <= total /\ total - wait = rel
    BY <1>10
  <2> QED
    BY <2>1, <2>2
<1>11. \A k \in 1 .. Len(m.buf) : m.buf[k] = Base(m.image) + (m.rel - Len(m.buf)) + k - 1
  BY <1>3, <1>9, <1>14, <1>15
<1>12. CASE total = size
  <2>1. /\ mgr' = m /\ notes' = notes
        /\ pc' = IF mgr.spare # <<>> THEN WriteOf(mgr.image) ELSE EndCheck(mgr.image)
    BY <1>8, <1>9, <1>12, <1>14
  <2>2. /\ pc' \in {"vpState", "program", "copy", "next"}
        /\ pc' \in {"vpState", "program"} <=> mgr.spare # <<>>
    BY <2>1 DEF WriteOf, EndCheck
  <2>3. MgrOK(mgr)' /\ NotesOK' /\ WithinFile'
    BY <1>4, <1>9, <1>14, <2>1 DEF OtaInv, Types, MgrOK, NotesOK, WithinFile
  <2>4. Phases'
    BY <1>1, <1>5, <1>9, <2>1, <2>2 DEF Phases, SessionIsTimed, Writing
  <2>5. Buffers'
    <3>1. need = 0 /\ total + 0 + need = size
      BY <1>10, <1>12
    <3>2. m.need = 0 /\ m.rel + Len(m.spare) + m.need = FwSize(m.image)
      BY <1>14, <3>1
    <3> QED
      BY <1>9, <1>11, <1>14, <1>15, <2>1, <2>2, <3>2 DEF Buffers, Writing, WriteAt
  <2>6. WriteAt' = mgr.rel
    BY <1>14, <1>15, <2>1 DEF WriteAt
  <2>7. mgr.spare # <<>> => wait # 0
    BY <1>2, <1>14
  <2>8. mgr.spare = <<>> => wait = 0
    BY <1>14
  <2>9. \/ pc' = WriteOf(mgr.image) /\ mgr.rel < FwSize(mgr.image) /\ mgr.spare # <<>>
        \/ /\ pc' = EndCheck(mgr.image) /\ mgr.rel = FwSize(mgr.image)
           /\ mgr'.rel = mgr.rel /\ mgr.spare = <<>>
    <3>1. CASE mgr.spare # <<>>
      <4>1. rel < size
        BY <1>10, <2>7, <3>1
      <4> QED
        BY <1>14, <2>1, <3>1, <4>1
    <3>2. CASE mgr.spare = <<>>
      <4>1. total = rel
        BY <1>10, <2>8, <3>2
      <4> QED
        BY <1>12, <1>14, <2>1, <3>2, <4>1
    <3> QED
      BY <3>1, <3>2
  <2> QED
    <3>1. mgr.rel \in Nat /\ mgr.rel > 0 /\ mgr.rel <= FwSize(mgr.image)
      BY <1>2, <1>6, <1>14
    <3> QED
      BY <1>9, <2>1, <2>3, <2>4, <2>5, <2>6, <2>9, <3>1
<1>13. CASE total # size
  <2>1. GoOn(m) /\ pc' = "idle"
    BY <1>8, <1>13, <1>14
  <2>2. /\ MgrOK(mgr)' /\ NotesOK' /\ mgr'.cur + mgr'.need <= FileEnd
        /\ mgr'.state = "payload" /\ mgr'.image = mgr.image /\ mgr'.rel = total
        /\ mgr'.buf = mgr.spare /\ mgr'.spare = <<>> /\ mgr'.need = need
        /\ mgr'.cur = mgr.cur \/ mgr'.cur = Base(mgr.image) + total
    <3>1. m.cur + m.need <= FileEnd /\ m.need = FwSize(m.image) - m.rel /\ NotesOK
      <4>1. m.cur + m.need <= FileEnd /\ NotesOK
        BY <1>4, <1>9, <1>14 DEF OtaInv, Types
      <4>2. need = size - total
        BY <1>10
      <4> QED
        BY <1>14, <4>1, <4>2
    <3> QED
      BY <1>9, <2>1, <3>1, GoOnFacts
  <2>3. WithinFile'
    BY <2>2 DEF WithinFile
  <2>4. Phases'
    BY <1>1, <1>5, <2>1, <2>2 DEF Phases, SessionIsTimed, Writing
  <2>5. Buffers'
    <3>1. Len(mgr'.spare) = 0 /\ Len(mgr'.buf) = wait /\ mgr'.rel = total
          /\ FwSize(mgr'.image) = size
      BY <1>14, <2>2
    <3>2. mgr'.cur = Base(mgr.image) + total
      <4>1. mgr.cur = Base(mgr.image) + rel + wait
        BY <1>3, <1>10, <1>13, <1>14
      <4>2. Base(mgr.image) + rel + wait = Base(mgr.image) + total
        BY <1>10
      <4> QED
        BY <2>2, <4>1, <4>2
    <3>3. total + 0 + need = size /\ Base(mgr.image) + total + 0 = Base(mgr.image) + total
          /\ wait <= total /\ wait < BufferLen /\ need # 0
      BY <1>6, <1>10, <1>13
    <3>4. mgr'.rel + Len(mgr'.spare) + mgr'.need = FwSize(mgr'.image)
      BY <2>2, <3>1, <3>3
    <3>5. mgr'.cur = Base(mgr'.image) + mgr'.rel + Len(mgr'.spare)
      BY <2>2, <3>1, <3>2, <3>3
    <3>6. Len(mgr'.buf) <= mgr'.rel /\ Len(mgr'.buf) < BufferLen /\ mgr'.need # 0
      BY <2>2, <3>1, <3>3
    <3> QED
      BY <1>9, <1>11, <2>1, <2>2, <3>1, <3>4, <3>5, <3>6 DEF Buffers, Writing, WriteAt
  <2>6. WriteAt' = mgr.rel
    <3>1. Len(mgr'.buf) = wait /\ mgr'.rel = total /\ total - wait = rel /\ mgr.rel = rel
      BY <1>10, <1>14, <2>2
    <3> QED
      BY <3>1 DEF WriteAt
  <2>7. mgr.rel \in Nat /\ mgr.rel > 0 /\ mgr.rel <= FwSize(mgr.image)
    BY <1>2, <1>6, <1>14
  <2>8. mgr.rel < FwSize(mgr.image)
    BY <1>10, <1>13, <1>14
  <2> QED
    BY <2>1, <2>2, <2>3, <2>4, <2>5, <2>6, <2>7, <2>8
<1> QED
  BY <1>12, <1>13

\* The breakpoint follows what is written.
LEMMA SaveInv == OtaInv /\ Save => OtaInv'
<1> SUFFICES ASSUME OtaInv, Save PROVE OtaInv'
  OBVIOUS
<1>1. /\ pc = "save" /\ Written /\ bp' = [image |-> mgr.image, rel |-> mgr.rel]
      /\ UNCHANGED <<active, checkTimer, discTimer, resetTimer, vpKnown, record, vpDone,
                     area, vp, ready, link, phone, faults, pkg, spoilt>>
  BY DEF Save, timers, flash, phone
<1>2. /\ active = TRUE /\ mgr.state = "payload" /\ checkTimer = TRUE
      /\ IF pkg.vpOnly THEN record = 0 ELSE record = pkg.ver /\ pkg.pid = LocalPid
      /\ pkg \in Packages /\ pkg.vpOnly \in BOOLEAN
  BY <1>1, HandlerFacts DEF Writing
<1>3. /\ MgrOK(mgr)' /\ NotesOK' /\ WithinFile' /\ Phases' /\ Buffers'
      /\ mgr'.state = "payload" /\ mgr'.image = mgr.image /\ WriteAt' = mgr.rel
      /\ mgr.rel \in Nat /\ mgr.rel > 0 /\ mgr.rel <= FwSize(mgr.image)
      /\ \/ pc' = "idle" /\ mgr.rel < FwSize(mgr.image)
         \/ /\ pc' = WriteOf(mgr.image) /\ mgr.rel < FwSize(mgr.image)
            /\ mgr.spare # <<>>
         \/ /\ pc' = EndCheck(mgr.image) /\ mgr.rel = FwSize(mgr.image)
            /\ mgr'.rel = mgr.rel
  BY <1>1, WrittenFacts
<1>4. /\ mgr.image \in 0 .. 1 /\ vpDone \in BOOLEAN
      /\ mgr.image = 0 => vpKnown /\ vpDone = (mgr.rel = VpLen)
      /\ mgr.image = 1 => ~pkg.vpOnly
      /\ mgr.image # 0 => mgr.image = 1
  BY <1>1 DEF OtaInv, Types, MgrOK, Mgr, KeptOK, Core, Steady, Phases
<1>5. bp' # None /\ bp'.image = mgr.image /\ bp'.rel = mgr.rel
      /\ bp' \in [image : 0 .. 1, rel : 1 .. FileEnd]
  <2>1. mgr.rel \in 1 .. FileEnd
    BY <1>3, <1>4, ImageFacts
  <2>2. bp' \in [image : 0 .. 1, rel : 1 .. FileEnd]
    BY <1>1, <1>4, <2>1
  <2>3. bp' # None
    <3>1. bp' \in [image : 0 .. 1, rel : Nat]
      BY <2>2, Sizes
    <3> QED
      BY <3>1, OtaAssumption
  <2> QED
    BY <1>1, <2>2, <2>3
<1>6. KeptOK'
  BY <1>1, <1>5 DEF OtaInv, Types, KeptOK
<1>7. /\ pc' \in {"idle", "vpState", "program", "copy", "next"}
      /\ pc' = "vpState" => mgr.image = 0
      /\ pc' = "program" => mgr.image # 0
      /\ pc' \in {"copy", "next"} => mgr.rel = FwSize(mgr.image) /\ mgr'.rel = mgr.rel
      /\ pc' = "copy" => mgr.image = 0 /\ vpDone
      /\ pc' = "next" => ~(mgr.image = 0 /\ vpDone)
      /\ pc' \notin {"copy", "next"} => mgr.rel < FwSize(mgr.image)
  BY <1>3 DEF WriteOf, EndCheck
<1>8. Steady'
  <2>1. bp'.rel <= WriteAt' /\ bp'.rel <= FwSize(bp'.image)
    BY <1>3, <1>5
  <2>2. pc' \in Copying => pc' = "copy"
    BY <1>7 DEF Copying
  <2> QED
    BY <1>1, <1>2, <1>3, <1>4, <1>5, <1>7, <2>1, <2>2, Sizes DEF Steady
<1>9. ASSUME spoilt = {} PROVE Owned' /\ Progress' /\ Whole'
  <2>1. Progress /\ (bp # None => BackedBy(pkg))
    BY <1>1, <1>9, HandlerFacts
  <2>2. Holds(pkg, mgr.image, mgr.rel) /\ ~ready
    BY <1>1, <2>1 DEF Progress
  <2>3. ASSUME mgr.image = 1 PROVE vp = pkg
    <3>1. \/ At(0, VpLen) /\ ~vpDone
          \/ bp # None /\ bp.image = 1 /\ bp.rel < ImgLen
      BY <1>1, <1>2, <2>1, <2>3 DEF Progress, Writing
    <3> QED
      BY <2>1, <3>1, Sizes DEF BackedBy, At
  <2>4. IF record' = 0 THEN pkg'.vpOnly
                       ELSE ~pkg'.vpOnly /\ pkg'.ver = record' /\ pkg'.pid = LocalPid
    <3>1. pkg.ver # 0
      BY <1>2, OtaAssumption
    <3> QED
      BY <1>1, <1>2, <3>1
  <2>5. BackedBy(pkg)'
    <3>1. CASE mgr.image = 0
      <4>1. Holds(pkg, 0, bp.rel)'
        BY <1>1, <1>5, <2>2, <3>1 DEF Holds
      <4>2. bp'.rel < VpLen \/ vpDone'
        BY <1>1, <1>3, <1>4, <1>5, <3>1, Sizes
      <4> QED
        BY <1>5, <2>4, <3>1, <4>1, <4>2 DEF BackedBy
    <3>2. CASE mgr.image = 1
      <4>1. Holds(pkg, 1, bp.rel)'
        BY <1>1, <1>5, <2>2, <3>2 DEF Holds
      <4> QED
        BY <1>1, <1>5, <2>3, <2>4, <3>2, <4>1 DEF BackedBy
    <3> QED
      BY <1>4, <3>1, <3>2
  <2>6. Owned'
    BY <1>1, <1>2, <2>5 DEF Owned
  <2>7. Progress'
    <3>1. pc' \in Writing \cup {"idle"} /\ mgr.image = 1 =>
            bp' # None /\ bp'.image = 1 /\ bp'.rel < ImgLen
      BY <1>4, <1>5, <1>7, Sizes DEF Writing
    <3>2. pc' \in {"copy", "next"} => At(mgr.image, FwSize(mgr.image))'
      BY <1>3, <1>5, <1>7 DEF At
    <3>3. pc' = "copy" => At(0, VpLen)'
      BY <1>3, <1>7, <3>2, Sizes DEF At
    <3> QED
      BY <1>1, <1>3, <1>7, <2>2, <3>1, <3>2, <3>3 DEF Progress, Copying
  <2>8. Whole'
    BY <1>1, <1>3, <2>2 DEF Whole
  <2> QED
    BY <2>6, <2>7, <2>8
<1> QED
  BY <1>1, <1>2, <1>3, <1>6, <1>7, <1>8, <1>9, HandlerFacts, StepInv
    DEF Kept, Core, Clean

\* A failed write tears what the breakpoint does not promise; that the place
\* of the next one moves is noted if it ends the image, or by the next write.
LEMMA ProgramFailsInv == OtaInv /\ ProgramFails => OtaInv'
<1> SUFFICES ASSUME OtaInv, ProgramFails PROVE OtaInv'
  OBVIOUS
<1>1. /\ pc = "program" /\ Written /\ discTimer' = TRUE
      /\ UNCHANGED <<active, checkTimer, resetTimer, vpKnown, bp, record, vpDone,
                     vp, link, phone, pkg>>
      /\ Fault
      /\ spoilt' = spoilt \cup IF mgr.spare = <<>> /\ mgr.rel = FwSize(mgr.image)
                               THEN {"hole"} ELSE {}
  BY DEF ProgramFails, nv, phone, Spoils
<1>2. /\ active = TRUE /\ checkTimer = TRUE
      /\ IF pkg.vpOnly THEN record = 0 ELSE record = pkg.ver /\ pkg.pid = LocalPid
      /\ pkg \in Packages /\ mgr.state = "payload"
  BY <1>1, HandlerFacts DEF Writing
<1>3. PICK n \in 0 .. Len(mgr.buf) : Torn(n)
  BY DEF ProgramFails
<1>4. /\ area' \in [Cells -> Content] /\ ready' \in BOOLEAN
      /\ spoilt = {} => Preserves
  BY <1>1, <1>3, TornKeeps
<1>5. KeptOK'
  <2>1. spoilt' \subseteq {"mixed", "copy", "hole"}
    BY <1>1 DEF OtaInv, Types, KeptOK
  <2> QED
    BY <1>1, <1>4, <2>1 DEF OtaInv, Types, KeptOK
<1>6. /\ MgrOK(mgr)' /\ NotesOK' /\ WithinFile' /\ Phases' /\ Buffers'
      /\ mgr'.state = "payload" /\ mgr'.image = mgr.image /\ WriteAt' = mgr.rel
      /\ mgr.rel \in Nat /\ mgr.image \in 0 .. 1
      /\ \/ pc' = "idle" /\ mgr.rel < FwSize(mgr.image)
         \/ /\ pc' = WriteOf(mgr.image) /\ mgr.rel < FwSize(mgr.image)
            /\ mgr.spare # <<>>
         \/ /\ pc' = EndCheck(mgr.image) /\ mgr.rel = FwSize(mgr.image)
            /\ mgr'.rel = mgr.rel /\ mgr.spare = <<>>
  <2>1. mgr.image \in 0 .. 1
    BY DEF OtaInv, Types, MgrOK, Mgr
  <2> QED
    BY <1>1, <2>1, WrittenFacts
<1>7. /\ pc' \in {"idle", "vpState", "program", "copy", "next"}
      /\ pc' = "vpState" => mgr.image = 0
      /\ pc' = "program" => mgr.image # 0
      /\ pc' = "copy" => mgr.image = 0 /\ vpDone /\ mgr'.rel = VpLen
      /\ pc' \in {"copy", "next"} => mgr.spare = <<>> /\ mgr.rel = FwSize(mgr.image)
  BY <1>6, Sizes DEF WriteOf, EndCheck
<1>8. Steady'
  <2>1. WriteAt <= mgr.rel /\ WriteAt \in Int
    <3>1. Len(mgr.buf) <= mgr.rel /\ mgr.buf \in Seq(0 .. FileEnd)
      BY <1>2 DEF OtaInv, Types, MgrOK, Mgr, Core, Buffers
    <3>2. Len(mgr.buf) \in Nat
      BY <3>1
    <3> QED
      BY <1>6, <3>2 DEF WriteAt
  <2>2. bp # None => /\ bp.rel \in Nat /\ bp.rel <= FwSize(bp.image)
                     /\ \/ bp.image = mgr.image /\ bp.rel <= WriteAt
                        \/ bp.image = 0 /\ mgr.image = 1
    BY <1>1, <1>2 DEF OtaInv, Types, KeptOK, Core, Steady, Writing
  <2>3. bp # None => \/ bp.image = mgr.image /\ bp.rel <= mgr.rel
                     \/ bp.image = 0 /\ mgr.image = 1
    BY <1>6, <2>1, <2>2
  <2>4. pc' \in Copying => pc' = "copy"
    BY <1>7 DEF Copying
  <2> QED
    BY <1>1, <1>2, <1>6, <1>7, <2>2, <2>3, <2>4 DEF Steady
<1>9. ASSUME spoilt' = {} PROVE Owned' /\ Progress' /\ Whole'
  <2>1. spoilt = {} /\ pc' \in {"idle", "vpState", "program"}
    BY <1>1, <1>7, <1>9
  <2>2. Progress /\ Preserves /\ (bp # None => BackedBy(pkg))
    BY <1>1, <1>4, <2>1, HandlerFacts
  <2>3. ~ready'
    BY <1>1, <1>2, <1>3, <2>2 DEF Torn, Progress, Writing
  <2>4. Owned'
    BY <1>1, <1>2, <2>2 DEF Owned, Preserves
  <2>5. Progress'
    BY <1>1, <1>2, <1>6, <2>1, <2>2, <2>3 DEF Progress, Copying, Writing, At
  <2>6. Whole'
    BY <1>6, <2>3 DEF Whole
  <2> QED
    BY <2>4, <2>5, <2>6
<1>10. faults' \in 0 .. MaxFaults
  BY <1>1, FaultBound DEF OtaInv, Types
<1> QED
  BY <1>1, <1>2, <1>5, <1>6, <1>7, <1>8, <1>9, <1>10, HandlerFacts, StepInv
    DEF Kept, Core, Clean

\* While the prompts are copied the manager, the NV and the area stay.
LEMMA CopyFacts ==
  ASSUME OtaInv, pc \in Copying
  PROVE  /\ mgr.image = 0 /\ mgr.rel = VpLen /\ vpDone = TRUE
         /\ bp = None \/ bp.image = 0
         /\ mgr.state \in {"table", "payload"}
         /\ mgr.state = "table" /\ pkg.vpOnly => bp = None
         /\ bp # None => bp.rel <= FwSize(bp.image)
         /\ spoilt = {} => /\ At(0, VpLen) /\ BackedBy(pkg) /\ Holds(pkg, 0, VpLen)
                           /\ area[0] = <<pkg, Base(0)>> /\ ~ready
                           /\ pc = "copied" => vp = pkg
<1>1. pc # "idle" /\ pc # "clear"
  BY DEF Copying
<1>2. /\ mgr.image = 0 /\ mgr.rel = VpLen /\ vpDone = TRUE
      /\ bp = None \/ bp.image = 0
      /\ mgr.state \in {"table", "payload"}
      /\ mgr.state = "table" /\ pkg.vpOnly => bp = None
      /\ bp # None => bp.rel <= FwSize(bp.image)
  BY <1>1, HandlerFacts DEF OtaInv, Core, Steady
<1>3. ASSUME spoilt = {}
      PROVE  /\ At(0, VpLen) /\ BackedBy(pkg) /\ Holds(pkg, 0, VpLen)
             /\ area[0] = <<pkg, Base(0)>> /\ ~ready
             /\ pc = "copied" => vp = pkg
  <2>1. Progress /\ Whole /\ (bp # None => BackedBy(pkg))
    BY <1>1, <1>3, HandlerFacts
  <2>2. At(0, VpLen) /\ (pc = "copied" => vp = pkg)
    BY <2>1 DEF Progress
  <2>3. BackedBy(pkg) /\ Holds(pkg, 0, VpLen)
    BY <1>2, <2>1, <2>2 DEF At, BackedBy
  <2>4. area[0] = <<pkg, Base(0)>>
    <3>1. 0 \in 0 .. VpLen - 1 /\ Base(0) + 0 = Base(0)
      BY Sizes
    <3> QED
      BY <2>3, <3>1 DEF Holds
  <2>5. ~ready
    BY <2>1, <2>2 DEF Whole, At
  <2> QED
    BY <2>2, <2>3, <2>4, <2>5
<1> QED
  BY <1>2, <1>3

\* A step of the copy.
LEMMA CopyStep ==
  ASSUME OtaInv, pc \in Copying, pc' \in Copying,
         UNCHANGED <<active, mgr, timers, vpKnown, nv, area, ready, link, notes, phone,
                     spoilt>>,
         faults' \in 0 .. MaxFaults, vp' \in Packages \cup {None},
         spoilt = {} /\ pc' = "copied" => vp' = pkg
  PROVE  OtaInv'
<1>1. UNCHANGED <<checkTimer, discTimer, resetTimer, bp, record, vpDone, pkg>>
  BY DEF timers, nv, phone
<1>2. /\ mgr.image = 0 /\ mgr.rel = VpLen /\ vpDone = TRUE
      /\ bp = None \/ bp.image = 0
      /\ mgr.state \in {"table", "payload"}
      /\ mgr.state = "table" /\ pkg.vpOnly => bp = None
      /\ bp # None => bp.rel <= FwSize(bp.image)
      /\ spoilt = {} => At(0, VpLen) /\ BackedBy(pkg) /\ ~ready
  BY CopyFacts
<1>3. /\ active = TRUE /\ checkTimer = TRUE /\ pkg \in Packages
      /\ IF pkg.vpOnly THEN record = 0 ELSE record = pkg.ver /\ pkg.pid = LocalPid
  BY HandlerFacts DEF Copying
<1>4. MgrOK(mgr)' /\ NotesOK' /\ KeptOK' /\ WithinFile'
  BY <1>1 DEF OtaInv, Types, MgrOK, NotesOK, KeptOK, WithinFile, Writing, Copying
<1>5. Phases'
  BY <1>1, <1>2, <1>3 DEF OtaInv, Core, Phases, SessionIsTimed, Writing, Copying
<1>6. Buffers'
  BY <1>1, <1>2 DEF OtaInv, Core, Buffers, Writing, Copying
<1>7. Steady'
  BY <1>1, <1>2, <1>3 DEF Steady, Copying, Writing
<1>8. ASSUME spoilt = {} PROVE Owned' /\ Progress' /\ Whole'
  <2>1. BackedBy(pkg)'
    BY <1>1, <1>2, <1>8 DEF BackedBy, Holds, At
  <2>2. Owned'
    BY <1>1, <1>3, <2>1 DEF Owned
  <2>3. Progress'
    BY <1>1, <1>2, <1>8 DEF Progress, Copying, Writing, At
  <2>4. Whole'
    BY <1>2, <1>8 DEF Whole
  <2> QED
    BY <2>2, <2>3, <2>4
<1>9. pc' \in {"idle", "vpState", "program", "save", "copy", "copying", "copied",
               "copyFailed", "next", "ready", "clear"}
  BY DEF Copying
<1> QED
  BY <1>1, <1>3, <1>4, <1>5, <1>6, <1>7, <1>8, <1>9, HandlerFacts, StepInv
    DEF Kept, Core, Clean, Copying

\* The copy starts, or is refused; and a write of it fails.
LEMMA CopyVpInv == OtaInv /\ (CopyVp \/ CopyFails) => OtaInv'
<1> SUFFICES ASSUME OtaInv, CopyVp \/ CopyFails PROVE OtaInv'
  OBVIOUS
<1>1. /\ pc \in Copying /\ pc' \in Copying /\ pc' # "copied" /\ (vp' = vp \/ vp' = None)
      /\ UNCHANGED <<active, mgr, timers, vpKnown, nv, area, ready, link, notes, phone,
                     spoilt>>
      /\ faults' = faults \/ Fault
  BY DEF CopyVp, CopyFails, Copying, flash
<1>2. vp' \in Packages \cup {None}
  BY <1>1 DEF OtaInv, Types, KeptOK
<1>3. faults' \in 0 .. MaxFaults
  BY <1>1, FaultBound DEF OtaInv, Types, NoFault
<1> QED
  BY <1>1, <1>2, <1>3, CopyStep

\* The prompts in place are those of the session.
LEMMA CopyEndsInv == OtaInv /\ CopyEnds => OtaInv'
<1> SUFFICES ASSUME OtaInv, CopyEnds PROVE OtaInv'
  OBVIOUS
<1>1. /\ pc = "copying" /\ pc \in Copying /\ pc' = "copied" /\ pc' \in Copying
      /\ UNCHANGED <<active, mgr, timers, vpKnown, nv, area, ready, link, notes, phone,
                     spoilt>>
      /\ faults' = faults
      /\ vp' = IF \E p \in Packages : Holds(p, 0, VpLen)
               THEN CHOOSE p \in Packages : Holds(p, 0, VpLen) ELSE None
  BY DEF CopyEnds, Copying
<1>2. vp' \in Packages \cup {None} /\ faults' \in 0 .. MaxFaults
  BY <1>1 DEF OtaInv, Types, PhoneOK
<1>3. ASSUME spoilt = {} PROVE vp' = pkg
  <2>1. Holds(pkg, 0, VpLen) /\ area[0] = <<pkg, Base(0)>> /\ pkg \in Packages
    BY <1>1, <1>3, CopyFacts, HandlerFacts
  <2>2. ASSUME NEW p \in Packages, Holds(p, 0, VpLen) PROVE p = pkg
    <3>1. 0 \in 0 .. VpLen - 1 /\ Base(0) + 0 = Base(0)
      BY Sizes
    <3>2. area[0] = <<p, Base(0)>>
      BY <2>2, <3>1 DEF Holds
    <3> QED
      BY <2>1, <3>2
  <2> QED
    BY <1>1, <2>1, <2>2
<1> QED
  BY <1>1, <1>2, <1>3, CopyStep

\* The copy is on record, with its failure noted.
LEMMA CopyStoredInv == OtaInv /\ CopyStored => OtaInv'
<1> SUFFICES ASSUME OtaInv, CopyStored PROVE OtaInv'
  OBVIOUS
<1>1. /\ pc \in {"copied", "copyFailed"} /\ pc \in Copying /\ pc' = "next"
      /\ vpDone' = FALSE /\ discTimer' = (discTimer \/ pc = "copyFailed")
      /\ UNCHANGED <<active, mgr, checkTimer, resetTimer, vpKnown, bp, record, area, vp,
                     ready, link, notes, phone, faults, pkg>>
      /\ spoilt' = spoilt \cup IF pc = "copyFailed" THEN {"copy"} ELSE {}
  BY DEF CopyStored, Copying, flash, phone, Spoils
<1>2. /\ mgr.image = 0 /\ mgr.rel = VpLen
      /\ bp = None \/ bp.image = 0
      /\ mgr.state \in {"table", "payload"}
      /\ mgr.state = "table" /\ pkg.vpOnly => bp = None
      /\ bp # None => bp.rel <= FwSize(bp.image)
      /\ spoilt = {} => /\ At(0, VpLen) /\ BackedBy(pkg) /\ ~ready
                        /\ pc = "copied" => vp = pkg
  BY <1>1, CopyFacts
<1>3. /\ active = TRUE /\ checkTimer = TRUE /\ pkg \in Packages
      /\ IF pkg.vpOnly THEN record = 0 ELSE record = pkg.ver /\ pkg.pid = LocalPid
      /\ discTimer' \in BOOLEAN
  BY <1>1, HandlerFacts
<1>4. MgrOK(mgr)' /\ NotesOK' /\ KeptOK' /\ WithinFile'
  <2>1. spoilt' \subseteq {"mixed", "copy", "hole"}
    BY <1>1 DEF OtaInv, Types, KeptOK
  <2> QED
    BY <1>1, <2>1 DEF OtaInv, Types, MgrOK, NotesOK, KeptOK, WithinFile, Writing
<1>5. Phases'
  BY <1>1, <1>2, <1>3 DEF OtaInv, Core, Phases, SessionIsTimed, Writing
<1>6. Buffers'
  BY <1>1, <1>2 DEF OtaInv, Core, Buffers, Writing
<1>7. Steady'
  BY <1>1, <1>2, <1>3 DEF Steady, Copying, Writing
<1>8. ASSUME spoilt' = {} PROVE Owned' /\ Progress' /\ Whole'
  <2>1. At(0, VpLen) /\ BackedBy(pkg) /\ ~ready /\ vp = pkg
    BY <1>1, <1>2, <1>8
  <2>2. BackedBy(pkg)'
    <3>1. bp.image = 0 /\ bp.rel = VpLen /\ ~(bp.rel < VpLen)
      BY <2>1, Sizes DEF At
    <3> QED
      BY <1>1, <2>1, <3>1 DEF BackedBy
  <2>3. Owned'
    BY <1>1, <1>3, <2>2 DEF Owned
  <2>4. Progress'
    BY <1>1, <1>2, <2>1, Sizes DEF Progress, Copying, Writing, At
  <2>5. Whole'
    BY <1>1, <1>2, <2>1 DEF Whole
  <2> QED
    BY <2>3, <2>4, <2>5
<1> QED
  BY <1>1, <1>3, <1>4, <1>5, <1>6, <1>7, <1>8, HandlerFacts, StepInv
    DEF Kept, Core, Clean

\* The prompts are in place: the image is next.
LEMMA NextImageInv == OtaInv /\ NextImage => OtaInv'
<1> SUFFICES ASSUME OtaInv, NextImage PROVE OtaInv'
  OBVIOUS
<1> DEFINE m == [mgr EXCEPT !.rel = 0, !.image = @ + 1, !.state = "control"]
<1>1. /\ pc = "next" /\ pc' = "idle" /\ mgr.image + 1 < Images(pkg)
      /\ Ask(m, ControlAt(mgr.image + 1), 1)
      /\ UNCHANGED <<active, checkTimer, discTimer, resetTimer, vpKnown, bp, record,
                     vpDone, area, vp, ready, link, phone, faults, pkg, spoilt>>
  BY DEF NextImage, timers, nv, flash, phone
<1>2. mgr.image = 0 /\ ~pkg.vpOnly /\ mgr \in Mgr /\ MgrOK(mgr) /\ NotesOK
  <2>1. mgr.image \in 0 .. 1 /\ mgr \in Mgr /\ MgrOK(mgr) /\ NotesOK
    BY DEF OtaInv, Types, MgrOK, Mgr
  <2> QED
    BY <1>1, <2>1 DEF Images
<1>3. /\ active = TRUE /\ checkTimer = TRUE /\ pkg \in Packages /\ record = pkg.ver
      /\ pkg.pid = LocalPid
      /\ mgr.state \in {"table", "payload"}
  BY <1>1, <1>2, HandlerFacts
<1>4. /\ bp = None \/ bp.image = 0
      /\ bp # None => bp.rel <= FwSize(bp.image)
  BY <1>1, <1>2 DEF OtaInv, Core, Steady
<1>5. mgr.buf = <<>> /\ mgr.spare = <<>>
  BY <1>1, <1>3 DEF OtaInv, Core, Phases, Buffers, Writing
<1>6. /\ MgrOK(m) /\ m.state = "control" /\ m.image = 1 /\ m.rel = 0
      /\ m.buf = <<>> /\ m.spare = <<>>
  <2>1. m = [mgr EXCEPT !.rel = 0, !.image = 1, !.state = "control"]
    BY <1>2
  <2> HIDE DEF m
  <2>2. /\ m \in Mgr /\ m.state = "control" /\ m.image = 1 /\ m.rel = 0
        /\ m.buf = <<>> /\ m.spare = <<>> /\ m.misses = mgr.misses
    <3>1. 0 \in Nat /\ 1 \in 0 .. 1 /\ "control" \in States
      BY DEF States
    <3> QED
      BY <1>2, <1>5, <2>1, <3>1 DEF Mgr
  <2>3. 0 <= FwSize(1)
    BY Sizes
  <2> QED
    BY <1>2, <1>5, <2>2, <2>3 DEF MgrOK
<1> HIDE DEF m
<1>7. /\ MgrOK(mgr)' /\ NotesOK' /\ mgr'.cur = ControlAt(1) /\ mgr'.need = 1
      /\ mgr'.state = "control" /\ mgr'.rel = 0 /\ mgr'.image = 1
      /\ mgr'.buf = <<>> /\ mgr'.spare = <<>> /\ ControlAt(1) + 1 <= FileEnd
  <2>1. Ask(m, ControlAt(1), 1)
    BY <1>1, <1>2
  <2>2. ControlAt(1) \in 0 .. FileEnd /\ 1 \in 0 .. FileEnd /\ ControlAt(1) + 1 <= FileEnd
    BY ImageFacts, Sizes
  <2> QED
    BY <1>2, <1>6, <2>1, <2>2, AskFacts
<1>8. KeptOK' /\ WithinFile'
  BY <1>1, <1>7 DEF OtaInv, Types, KeptOK, WithinFile
<1>9. Phases' /\ Buffers'
  BY <1>1, <1>2, <1>3, <1>7 DEF Phases, Buffers, SessionIsTimed
<1>10. Steady'
  BY <1>1, <1>2, <1>3, <1>4, <1>7 DEF Steady, Copying
<1>11. ASSUME spoilt = {} PROVE Owned' /\ Progress' /\ Whole'
  <2>1. Progress /\ Whole /\ (bp # None => BackedBy(pkg))
    BY <1>1, <1>11, HandlerFacts
  <2>2. bp # None => BackedBy(pkg)'
    BY <1>1, <2>1 DEF BackedBy, Holds
  <2>3. Owned'
    BY <1>1, <1>3, <2>2 DEF Owned
  <2>4. At(0, VpLen) /\ ~vpDone
    BY <1>1, <1>2, <2>1, Sizes DEF Progress
  <2>5. Progress'
    BY <1>1, <1>7, <2>4 DEF Progress, Copying, At
  <2>6. Whole'
    BY <1>1, <1>7, <2>1 DEF Whole, Holds, At
  <2> QED
    BY <2>3, <2>5, <2>6
<1> QED
  BY <1>1, <1>3, <1>7, <1>8, <1>9, <1>10, <1>11, HandlerFacts, StepInv
    DEF Kept, Core, Clean

\* The package is complete.
LEMMA LastImageInv == OtaInv /\ LastImage => OtaInv'
<1> SUFFICES ASSUME OtaInv, LastImage PROVE OtaInv'
  OBVIOUS
<1> DEFINE m == Asking(mgr, Total(pkg), 0)
<1>1. /\ pc = "next" /\ pc' = "ready" /\ mgr.image + 1 = Images(pkg)
      /\ checkTimer' = FALSE /\ mgr' = [m EXCEPT !.rel = 0, !.image = 0]
      /\ Tell([kind |-> "done"])
      /\ UNCHANGED <<active, discTimer, resetTimer, vpKnown, bp, record,
                     vpDone, area, vp, ready, link, phone, faults, pkg, spoilt>>
  BY DEF LastImage, nv, flash, phone
<1>2. mgr \in Mgr /\ MgrOK(mgr) /\ mgr.image \in 0 .. 1
  BY DEF OtaInv, Types, MgrOK, Mgr
<1>3. /\ active = TRUE /\ pkg \in Packages /\ pkg.vpOnly \in BOOLEAN
      /\ IF pkg.vpOnly THEN record = 0 ELSE record = pkg.ver /\ pkg.pid = LocalPid
      /\ mgr.state \in {"table", "payload"}
  BY <1>1, HandlerFacts
<1>4. /\ mgr.image = Images(pkg) - 1 /\ (pkg.vpOnly => mgr.image = 0)
  BY <1>1, <1>2, <1>3 DEF Images
<1>5. mgr.buf = <<>> /\ mgr.spare = <<>>
  BY <1>1, <1>3 DEF OtaInv, Core, Phases, Buffers, Writing
<1>6. Total(pkg) \in 0 .. FileEnd /\ 0 \in 0 .. FileEnd
  BY Sizes DEF Total
<1>7. /\ MgrOK(m) /\ m.need = 0 /\ m.state = mgr.state /\ m.buf = <<>> /\ m.spare = <<>>
  BY <1>2, <1>5, <1>6, AskingFacts
<1> HIDE DEF m
<1>8. /\ MgrOK(mgr)' /\ mgr'.need = 0 /\ mgr'.state = mgr.state /\ mgr'.rel = 0
      /\ mgr'.image = 0 /\ mgr'.buf = <<>> /\ mgr'.spare = <<>>
  <2>1. /\ mgr' \in Mgr /\ mgr'.need = 0 /\ mgr'.state = mgr.state /\ mgr'.rel = 0
        /\ mgr'.image = 0 /\ mgr'.buf = <<>> /\ mgr'.spare = <<>> /\ mgr'.misses = m.misses
    <3>1. m \in Mgr /\ 0 \in Nat /\ 0 \in 0 .. 1
      BY <1>7 DEF MgrOK
    <3> QED
      BY <1>1, <1>7, <3>1 DEF Mgr
  <2>2. 0 <= FwSize(0)
    BY Sizes
  <2> QED
    BY <1>7, <2>1, <2>2 DEF MgrOK
<1>9. NotesOK'
  <2>1. [kind |-> "done"] \in Note
    BY DEF Note
  <2> QED
    BY <1>1, <2>1, TellKeeps DEF OtaInv, Types
<1>10. KeptOK' /\ WithinFile'
  BY <1>1 DEF OtaInv, Types, KeptOK, WithinFile, Writing
<1>11. Phases' /\ Buffers'
  BY <1>1, <1>3, <1>8 DEF Phases, Buffers, SessionIsTimed, Writing
<1>12. Steady'
  BY <1>1, <1>3, <1>8 DEF OtaInv, Core, Steady, Copying, Writing
<1>13. ASSUME spoilt = {} PROVE Owned' /\ Progress' /\ Whole'
  <2>1. Progress /\ Whole /\ (bp # None => BackedBy(pkg))
    BY <1>1, <1>13, HandlerFacts
  <2>2. bp # None => BackedBy(pkg)'
    BY <1>1, <2>1 DEF BackedBy, Holds
  <2>3. Owned'
    BY <1>1, <1>3, <2>2 DEF Owned
  <2>4. At(mgr.image, FwSize(mgr.image)) /\ (mgr.image = 0 => ~vpDone)
    BY <1>1, <2>1 DEF Progress
  <2>5. Progress'
    <3>1. UNCHANGED Images(pkg)
      BY <1>1 DEF Images
    <3> QED
      BY <1>1, <1>3, <1>4, <1>8, <2>4, <3>1 DEF Progress, Copying, Writing, At
  <2>6. Whole'
    BY <1>1, <1>3, <1>8, <2>1 DEF Whole, Holds, At
  <2> QED
    BY <2>3, <2>5, <2>6
<1> QED
  BY <1>1, <1>3, <1>8, <1>9, <1>10, <1>11, <1>12, <1>13, HandlerFacts, StepInv
    DEF Kept, Core, Clean

\* What the end of the package rests on.
LEMMA EndFacts ==
  ASSUME OtaInv, pc \in {"ready", "clear"}, spoilt = {}
  PROVE  /\ bp # None /\ BackedBy(pkg) /\ vp = pkg
         /\ ~pkg.vpOnly => At(1, ImgLen) /\ Holds(pkg, 1, ImgLen)
         /\ At(Images(pkg) - 1, FwSize(Images(pkg) - 1)) /\ (pkg.vpOnly => ~vpDone)
         /\ ready => ~pkg.vpOnly /\ Whole
<1>1. Progress /\ Whole /\ (bp # None => BackedBy(pkg))
  BY HandlerFacts
<1>2. /\ At(Images(pkg) - 1, FwSize(Images(pkg) - 1))
      /\ pkg.vpOnly => ~vpDone
  BY <1>1 DEF Progress
<1>3. CASE pkg.vpOnly
  <2>1. Images(pkg) - 1 = 0
    BY <1>3 DEF Images
  <2>2. bp # None /\ bp.image = 0 /\ bp.rel = VpLen /\ ~vpDone
    BY <1>2, <1>3, <2>1, Sizes DEF At
  <2>3. ~ready
    BY <1>1, <2>2 DEF Whole, At
  <2> QED
    BY <1>1, <1>2, <1>3, <2>2, <2>3, Sizes DEF BackedBy
<1>4. CASE ~pkg.vpOnly
  <2>1. Images(pkg) - 1 = 1
    BY <1>4 DEF Images
  <2>2. At(1, ImgLen)
    BY <1>2, <2>1, Sizes
  <2>3. bp # None /\ bp.image = 1 /\ bp.image # 0 /\ bp.rel = ImgLen /\ BackedBy(pkg)
    BY <1>1, <2>2 DEF At
  <2>4. vp = pkg /\ Holds(pkg, 1, ImgLen)
    BY <2>3 DEF BackedBy
  <2> QED
    BY <1>1, <1>2, <1>4, <2>2, <2>3, <2>4
<1> QED
  BY <1>3, <1>4

\* The image is flagged as ready once it is whole.
LEMMA ClearNotReadyInv == OtaInv /\ ClearNotReady => OtaInv'
<1> SUFFICES ASSUME OtaInv, ClearNotReady PROVE OtaInv'
  OBVIOUS
<1>1. /\ pc = "ready" /\ pc' = "clear"
      /\ ready' = (ready \/ (~pkg.vpOnly /\ area[0][2] = Base(1)))
      /\ mgr' = [mgr EXCEPT !.state = "finish"]
      /\ UNCHANGED <<active, checkTimer, discTimer, resetTimer, vpKnown, bp, record,
                     vpDone, area, vp, link, notes, phone, faults, pkg, spoilt>>
  BY DEF ClearNotReady, timers, nv, phone
<1>2. /\ active = TRUE /\ pkg \in Packages /\ pkg.vpOnly \in BOOLEAN
      /\ IF pkg.vpOnly THEN record = 0 ELSE record = pkg.ver /\ pkg.pid = LocalPid
      /\ mgr.need = 0 /\ (bp # None => bp.rel <= FwSize(bp.image))
  BY <1>1, HandlerFacts DEF OtaInv, Core, Phases, Steady
<1>3. mgr.state \in {"table", "payload"} /\ mgr.buf = <<>> /\ mgr.spare = <<>>
  <2>1. mgr.state \in {"table", "payload"}
    BY <1>1, HandlerFacts
  <2> QED
    BY <1>1, <2>1 DEF OtaInv, Core, Phases, Buffers, Writing
<1>4. /\ MgrOK(mgr)' /\ mgr'.state = "finish" /\ mgr'.need = 0 /\ mgr'.image = mgr.image
      /\ mgr'.buf = <<>> /\ mgr'.spare = <<>>
  <2>1. mgr \in Mgr /\ MgrOK(mgr)
    BY DEF OtaInv, Types, MgrOK
  <2>2. /\ mgr' \in Mgr /\ mgr'.state = "finish" /\ mgr'.need = 0 /\ mgr'.rel = mgr.rel
        /\ mgr'.image = mgr.image /\ mgr'.buf = mgr.buf /\ mgr'.spare = mgr.spare
        /\ mgr'.misses = mgr.misses
    BY <1>1, <1>2, <2>1 DEF Mgr, States
  <2> QED
    BY <1>3, <2>1, <2>2 DEF MgrOK
<1>5. ready' \in BOOLEAN
  BY <1>1 DEF OtaInv, Types, KeptOK
<1>6. NotesOK' /\ KeptOK' /\ WithinFile'
  BY <1>1, <1>5 DEF OtaInv, Types, NotesOK, KeptOK, WithinFile, Writing
<1>7. Phases' /\ Buffers'
  BY <1>1, <1>2, <1>4 DEF OtaInv, Core, Phases, Buffers, SessionIsTimed
<1>8. Steady'
  BY <1>1, <1>2, <1>4 DEF Steady, Copying
<1>9. ASSUME spoilt = {} PROVE Owned' /\ Progress' /\ Whole'
  <2>1. /\ bp # None /\ BackedBy(pkg) /\ vp = pkg
        /\ ~pkg.vpOnly => At(1, ImgLen) /\ Holds(pkg, 1, ImgLen)
        /\ At(Images(pkg) - 1, FwSize(Images(pkg) - 1)) /\ (pkg.vpOnly => ~vpDone)
        /\ ready => ~pkg.vpOnly
    BY <1>1, <1>9, EndFacts
  <2>2. BackedBy(pkg)'
    BY <1>1, <2>1 DEF BackedBy, Holds
  <2>3. Owned'
    BY <1>1, <1>2, <2>2 DEF Owned
  <2>4. Progress'
    <3>1. UNCHANGED Images(pkg)
      BY <1>1 DEF Images
    <3> QED
      BY <1>1, <1>2, <1>4, <2>1, <3>1 DEF Progress, Copying, At
  <2>5. Whole'
    <3>1. ready' => ~pkg.vpOnly
      BY <1>1, <2>1
    <3> QED
      BY <1>1, <1>2, <1>4, <2>1, <3>1 DEF Whole, Holds, At
  <2> QED
    BY <2>3, <2>4, <2>5
<1> QED
  BY <1>1, <1>2, <1>4, <1>6, <1>7, <1>8, <1>9, HandlerFacts, StepInv
    DEF Kept, Core, Clean

\* The breakpoint goes with the end of the session.
LEMMA FinishInv == OtaInv /\ Finish => OtaInv'
<1> SUFFICES ASSUME OtaInv, Finish PROVE OtaInv'
  OBVIOUS
<1>1. /\ pc = "clear" /\ pc' = "idle" /\ bp' = None /\ record' = 0 /\ discTimer' = TRUE
      /\ UNCHANGED <<active, mgr, checkTimer, resetTimer, vpKnown, vpDone, area, vp,
                     ready, link, notes, phone, faults, pkg, spoilt>>
  BY DEF Finish, ClearBreakpoint, flash, phone
<1>2. active = TRUE /\ mgr.state = "finish" /\ mgr.need = 0
  BY <1>1, HandlerFacts DEF OtaInv, Core, Phases
<1>3. MgrOK(mgr)' /\ NotesOK' /\ KeptOK' /\ WithinFile'
  <2>1. MgrOK(mgr) /\ mgr.cur \in 0 .. FileEnd
    BY DEF OtaInv, Types, MgrOK, Mgr
  <2>2. mgr.cur + mgr.need <= FileEnd
    BY <1>2, <2>1, Sizes
  <2> QED
    BY <1>1, <2>1, <2>2 DEF OtaInv, Types, MgrOK, NotesOK, KeptOK, WithinFile
<1>4. Phases' /\ Buffers'
  BY <1>1, <1>2 DEF OtaInv, Core, Phases, Buffers, SessionIsTimed
<1>5. Steady' /\ Owned' /\ Progress'
  BY <1>1, <1>2 DEF Steady, Owned, Progress, Copying
<1>6. Whole => Whole'
  BY <1>1, <1>2 DEF Whole, Holds
<1> QED
  BY <1>1, <1>2, <1>3, <1>4, <1>5, <1>6, HandlerFacts, StepInv
    DEF OtaInv, Kept, Core, Clean

-----------------------------------------------------------------------------
(* The theorems *)

\* Every step keeps the invariant.
LEMMA NextInv == OtaInv /\ [Next]_vars => OtaInv'
<1> SUFFICES ASSUME OtaInv, [Next]_vars PROVE OtaInv'
  OBVIOUS
<1>1. CASE Handler
  BY <1>1, VpStateInv, ProgramInv, SaveInv, ProgramFailsInv, CopyVpInv, CopyEndsInv,
    CopyStoredInv, NextImageInv, LastImageInv, ClearNotReadyInv,
    FinishInv DEF Handler
<1>2. CASE PhoneSends
  BY <1>2, PacketInv
<1>3. CASE PhoneReads \/ NoteLost \/ PacketLost \/ DiscTimeout \/ LinkUp
  BY <1>3, BesideSteps
<1>4. CASE \E p \in Packages : Start(p)
  BY <1>4, StartInv
<1>5. CASE \E kind \in {"stop", "call"} : Interrupted(kind)
  BY <1>5, InterruptedInv
<1>6. CASE CheckTimeout \/ ChipReset \/ Crash \/ LinkLost
  BY <1>6, CheckTimeoutInv, OffInv, LinkLostInv
<1>7. CASE UNCHANGED vars
  <2>1. /\ UNCHANGED <<device, checkTimer, vpKnown, nv, flash, pkg, spoilt>>
        /\ UNCHANGED <<discTimer, resetTimer, notes, link, next, left, credit, told, faults>>
    BY <1>7 DEF vars, timers, phone
  <2>2. NotesOK' /\ PhoneOK' /\ discTimer' \in BOOLEAN /\ resetTimer' \in BOOLEAN
    BY <2>1 DEF OtaInv, Types, FlagsOK, NotesOK, PhoneOK
  <2> QED
    BY <2>1, <2>2, BesideInv
<1> QED
  BY <1>1, <1>2, <1>3, <1>4, <1>5, <1>6, <1>7 DEF Next

(* The invariant holds in every state. *)
LEMMA SpecInv == Spec => []OtaInv
BY InitInv, NextInv, PTL DEF Spec

(* Every field keeps its type and every buffer, count and range its bound,  *)
(* whatever fails: the write buffer never overflows and less than a packet  *)
(* waits beside it (app_harman_ble_ota_payload_handle).                     *)
THEOREM OtaTypeOK == Spec => []TypeOK
<1>1. OtaInv => TypeOK
  BY TypesSuffice DEF OtaInv
<1> QED
  BY <1>1, SpecInv, PTL

(* When a session ends the voice prompts are those of its package, and an   *)
(* image flagged as ready is whole and goes with the prompts in place, for  *)
(* every loss, refusal, call, restart, torn write and resumption but three, *)
(* kept in `spoilt' until a download begins from scratch: prompts whose     *)
(* copy failed, or was done or cut short by a restart before vp_ota_status  *)
(* was cleared; a write, or the end of the image, past a failed write; and  *)
(* a full package after an unfinished VP only one                           *)
(* (app_harman_ble_ota_end_check, app_harman_ota_clear_notready_flag).      *)
THEOREM OtaDoneIsWhole == Spec => []DoneIsWhole
<1>1. OtaInv => DoneIsWhole
  BY DEF OtaInv, Core, Clean, Whole, DoneIsWhole
<1> QED
  BY <1>1, SpecInv, PTL

(* Power may fail before any step of the packet handler and in the middle   *)
(* of a write: the breakpoint in the NV promises no more than the flash     *)
(* holds, all of it of one package, the one on record, but for the three    *)
(* exceptions of OtaDoneIsWhole (app_harman_ota_breakpoint_save).           *)
THEOREM OtaBreakpointIsBacked == Spec => []BreakpointIsBacked
<1>1. OtaInv => BreakpointIsBacked
  BY DEF OtaInv, Core, Clean, Owned, BackedBy, BreakpointIsBacked
<1> QED
  BY <1>1, SpecInv, PTL

(* Between two packets of a session, from the first to the last image, the  *)
(* check timer runs, whatever fails                                         *)
(* (app_harman_ble_ota_package_check_timer_start).                          *)
THEOREM OtaSessionIsTimed == Spec => []SessionIsTimed
<1>1. OtaInv => SessionIsTimed
  BY DEF OtaInv, Core, Phases
<1> QED
  BY <1>1, SpecInv, PTL

=============================================================================
