-------------------------- MODULE Transfer_proofs --------------------------
(* The safety properties of the transfer queue, for any number of links,    *)
(* slots, packets and events, and the refinement of TransferFifo.  The      *)
(* lemmas of the first part are about a ring s with read index r, write     *)
(* index w and n packets, so that one pop may be two drops in a row.        *)
EXTENDS Transfer, Integers, TLAPS

Slots == [Index -> Packet \cup {NoPacket}]

\* How far slot i is behind the read index r, and the slot k places behind it.
Dist(r, i) == IF i >= r THEN i - r ELSE i + DtQueueNo - r
Pos(r, k) == IF r + k < DtQueueNo THEN r + k ELSE r + k - DtQueueNo

Ring(s, r, w, n) ==
  /\ n \in 0 .. DtQueueNo
  /\ w = Pos(r, n)
  /\ \A i \in Index : s[i] # NoPacket <=> Dist(r, i) < n

Queue(s, r, n) == [k \in 1 .. n |-> s[Pos(r, k - 1)]]

\* Later packets have larger numbers.
Ordered(s, r) ==
  \A i, j \in Index :
    s[i] # NoPacket /\ s[j] # NoPacket /\ Dist(r, i) < Dist(r, j)
      => s[i].id < s[j].id

\* The ring (t, q, v) is (s, r, w) with its first k packets gone.
Dropped(s, r, w, n, t, q, k) ==
  /\ k \in 0 .. n
  /\ t \in Slots /\ q \in Index
  /\ Ring(t, q, w, n - k)
  /\ \A i \in Index : t[i] # NoPacket => t[i] = s[i]
  /\ \A i \in Index : t[i] # NoPacket => Dist(r, i) = Dist(q, i) + k
  /\ \A i \in 1 .. n - k : Pos(q, i - 1) = Pos(r, i + k - 1)
  /\ \A i \in 1 .. n - k : t[Pos(q, i - 1)] = s[Pos(r, i + k - 1)]

-----------------------------------------------------------------------------
(* The ring.                                                                *)

LEMMA PosFacts ==
  ASSUME NEW r \in Index, NEW k \in 0 .. DtQueueNo - 1
  PROVE  /\ Pos(r, k) \in Index
         /\ Dist(r, Pos(r, k)) = k
         /\ Pos(Wrap(r), k) = Pos(r, k + 1)
BY TransferAssumption DEF Index, Pos, Dist, Wrap

LEMMA DistFacts ==
  ASSUME NEW r \in Index, NEW i \in Index
  PROVE  /\ Dist(r, i) \in 0 .. DtQueueNo - 1
         /\ Pos(r, Dist(r, i)) = i
         /\ i # r => Dist(r, i) = Dist(Wrap(r), i) + 1
BY TransferAssumption DEF Index, Pos, Dist, Wrap

LEMMA WrapFacts ==
  ASSUME NEW r \in Index
  PROVE  Wrap(r) \in Index /\ Dist(Wrap(r), r) = DtQueueNo - 1
BY TransferAssumption DEF Index, Pos, Dist, Wrap

\* Discarding the head of a ring that is not empty.
LEMMA DropOne ==
  ASSUME NEW s \in Slots, NEW r \in Index, NEW w, NEW n, Ring(s, r, w, n),
         s[r] # NoPacket
  PROVE  /\ n > 0
         /\ Dropped(s, r, w, n, [s EXCEPT ![r] = NoPacket], Wrap(r), 1)
<1> DEFINE t == [s EXCEPT ![r] = NoPacket]
           q == Wrap(r)
<1>1. Dist(r, r) = 0
  BY DEF Dist, Index
<1>2. n \in 1 .. DtQueueNo
  BY <1>1, TransferAssumption DEF Ring
<1>3. t \in Slots /\ q \in Index
  BY WrapFacts DEF Slots
<1>4. w = Pos(q, n - 1)
  <2>1. n - 1 \in 0 .. DtQueueNo - 1 /\ n - 1 + 1 = n
    BY <1>2, TransferAssumption
  <2>2. Pos(q, n - 1) = Pos(r, n - 1 + 1)
    BY <2>1, PosFacts
  <2> QED
    BY <2>1, <2>2 DEF Ring
<1>5. \A i \in Index : t[i] = IF i = r THEN NoPacket ELSE s[i]
  BY DEF Slots
<1>6. \A i \in Index : t[i] # NoPacket <=> Dist(q, i) < n - 1
  <2> SUFFICES ASSUME NEW i \in Index
               PROVE  t[i] # NoPacket <=> Dist(q, i) < n - 1
    OBVIOUS
  <2> HIDE DEF t, q
  <2>1. CASE i = r
    <3>1. Dist(q, i) = DtQueueNo - 1
      BY <2>1, WrapFacts DEF q
    <3> QED
      BY <2>1, <3>1, <1>5, <1>2, TransferAssumption
  <2>2. CASE i # r
    <3>1. Dist(r, i) = Dist(q, i) + 1 /\ Dist(r, i) \in 0 .. DtQueueNo - 1
      BY <2>2, DistFacts DEF q
    <3>2. t[i] = s[i] /\ (s[i] # NoPacket <=> Dist(r, i) < n)
      BY <2>2, <1>5 DEF Ring
    <3>3. Dist(q, i) \in Int
      BY <1>3, TransferAssumption DEF Dist, Index
    <3> QED
      BY <3>1, <3>2, <3>3, <1>2, TransferAssumption
  <2> QED
    BY <2>1, <2>2
<1>7. Ring(t, q, w, n - 1)
  <2> HIDE DEF t, q
  <2> QED
    BY <1>2, <1>4, <1>6, TransferAssumption DEF Ring
<1>8. ASSUME NEW i \in 1 .. n - 1 PROVE Pos(q, i - 1) = Pos(r, i)
  <2>1. i - 1 \in 0 .. DtQueueNo - 1 /\ i - 1 + 1 = i
    BY <1>2, TransferAssumption
  <2>2. Pos(q, i - 1) = Pos(r, i - 1 + 1)
    BY <2>1, PosFacts
  <2> QED
    BY <2>1, <2>2
<1>9. \A i \in 1 .. n - 1 : Pos(r, i) \in Index \ {r}
  BY <1>2, TransferAssumption DEF Pos, Index
<1>10. \A i \in Index : t[i] # NoPacket => t[i] = s[i] /\ Dist(r, i) = Dist(q, i) + 1
  BY <1>5, DistFacts
<1>11. \A i \in 1 .. n - 1 : t[Pos(q, i - 1)] = s[Pos(r, i)]
  BY <1>5, <1>8, <1>9
<1>12. \A i \in 1 .. n - 1 : i + 1 - 1 = i
  BY <1>2
<1> QED
  <2> HIDE DEF t, q
  <2>1. Dropped(s, r, w, n, t, q, 1)
    BY <1>2, <1>3, <1>7, <1>8, <1>10, <1>11, <1>12, TransferAssumption DEF Dropped
  <2> QED
    BY <2>1, <1>2 DEF t, q

LEMMA DropNone ==
  ASSUME NEW s \in Slots, NEW r \in Index, NEW w, NEW n, Ring(s, r, w, n)
  PROVE  Dropped(s, r, w, n, s, r, 0)
<1>1. n \in 0 .. DtQueueNo /\ n - 0 = n
  BY TransferAssumption DEF Ring
<1>2. \A i \in Index : Dist(r, i) \in Int
  BY TransferAssumption DEF Dist, Index
<1> QED
  BY <1>1, <1>2, TransferAssumption DEF Dropped

\* Two drops in a row are one.
LEMMA DropTwice ==
  ASSUME NEW s \in Slots, NEW r \in Index, NEW w, NEW n, n \in Nat,
         NEW t, NEW q, NEW k, Dropped(s, r, w, n, t, q, k),
         NEW u, NEW p, NEW m, Dropped(t, q, w, n - k, u, p, m)
  PROVE  Dropped(s, r, w, n, u, p, k + m)
<1>1. k \in 0 .. n /\ m \in 0 .. n - k /\ k + m \in 0 .. n
  BY DEF Dropped
<1>2. n - k - m = n - (k + m)
  BY <1>1
<1>3. Ring(u, p, w, n - (k + m)) /\ u \in Slots /\ p \in Index
  BY <1>2 DEF Dropped
<1>4. \A i \in Index : u[i] # NoPacket => u[i] = t[i] /\ t[i] # NoPacket /\ t[i] = s[i]
  BY DEF Dropped
<1>5. \A i \in Index : u[i] # NoPacket => Dist(r, i) = Dist(p, i) + (k + m)
  <2> SUFFICES ASSUME NEW i \in Index, u[i] # NoPacket
               PROVE  Dist(r, i) = Dist(p, i) + (k + m)
    OBVIOUS
  <2>1. Dist(q, i) = Dist(p, i) + m
    BY DEF Dropped
  <2>2. Dist(r, i) = Dist(q, i) + k
    BY <1>4 DEF Dropped
  <2>3. Dist(p, i) \in Int
    BY <1>3, TransferAssumption DEF Dist, Index
  <2> QED
    BY <1>1, <2>1, <2>2, <2>3
<1>6. ASSUME NEW i \in 1 .. n - (k + m)
      PROVE  /\ Pos(p, i - 1) = Pos(r, i + (k + m) - 1)
             /\ u[Pos(p, i - 1)] = s[Pos(r, i + (k + m) - 1)]
  <2>1. i \in 1 .. n - k - m /\ i + m \in 1 .. n - k
    BY <1>1
  <2>2. Pos(p, i - 1) = Pos(q, i + m - 1) /\ u[Pos(p, i - 1)] = t[Pos(q, i + m - 1)]
    BY <2>1 DEF Dropped
  <2>3. /\ Pos(q, (i + m) - 1) = Pos(r, (i + m) + k - 1)
        /\ t[Pos(q, (i + m) - 1)] = s[Pos(r, (i + m) + k - 1)]
    BY <2>1 DEF Dropped
  <2>4. (i + m) + k - 1 = i + (k + m) - 1 /\ i + m - 1 = (i + m) - 1
    BY <1>1
  <2> QED
    BY <2>2, <2>3, <2>4
<1> QED
  BY <1>1, <1>3, <1>4, <1>5, <1>6 DEF Dropped

\* A drop keeps the order of what is left.
LEMMA DropOrdered ==
  ASSUME NEW s \in Slots, NEW r \in Index, NEW w, NEW n, Ordered(s, r),
         NEW t, NEW q, NEW k, n \in Nat, Dropped(s, r, w, n, t, q, k)
  PROVE  Ordered(t, q)
<1> SUFFICES ASSUME NEW i \in Index, NEW j \in Index, t[i] # NoPacket,
                    t[j] # NoPacket, Dist(q, i) < Dist(q, j)
             PROVE  t[i].id < t[j].id
  BY DEF Ordered
<1>1. Dist(q, i) \in Int /\ Dist(q, j) \in Int /\ k \in Int
  BY TransferAssumption DEF Dist, Index, Dropped
<1>2. Dist(r, i) = Dist(q, i) + k /\ Dist(r, j) = Dist(q, j) + k
  BY DEF Dropped
<1>3. t[i] = s[i] /\ t[j] = s[j]
  BY DEF Dropped
<1> QED
  BY <1>1, <1>2, <1>3 DEF Ordered

\* Writing the slot at the write index, when it is free.
LEMMA AddOne ==
  ASSUME NEW s \in Slots, NEW r \in Index, NEW w \in Index, NEW n,
         Ring(s, r, w, n), s[w] = NoPacket, NEW p \in Packet
  PROVE  /\ n < DtQueueNo /\ Dist(r, w) = n
         /\ Ring([s EXCEPT ![w] = p], r, Wrap(w), n + 1)
         /\ Queue([s EXCEPT ![w] = p], r, n + 1) = Append(Queue(s, r, n), p)
<1> DEFINE t == [s EXCEPT ![w] = p]
<1>1. n \in 0 .. DtQueueNo - 1
  <2>1. n # DtQueueNo
    <3> SUFFICES ASSUME n = DtQueueNo PROVE FALSE
      OBVIOUS
    <3>1. Dist(r, w) \in 0 .. DtQueueNo - 1
      BY DistFacts
    <3>2. Dist(r, w) < n
      BY <3>1, TransferAssumption
    <3> QED
      BY <3>2 DEF Ring
  <2> QED
    BY <2>1, TransferAssumption DEF Ring
<1>2. w = Pos(r, n) /\ Dist(r, w) = n
  BY <1>1, PosFacts DEF Ring
<1>3. Wrap(w) = Pos(r, n + 1)
  BY <1>1, <1>2, TransferAssumption DEF Pos, Wrap, Index
<1>4. \A i \in Index : t[i] = IF i = w THEN p ELSE s[i]
  BY DEF Slots
<1>5. \A i \in Index : t[i] # NoPacket <=> Dist(r, i) < n + 1
  <2> SUFFICES ASSUME NEW i \in Index
               PROVE  t[i] # NoPacket <=> Dist(r, i) < n + 1
    OBVIOUS
  <2>1. CASE i = w
    BY <2>1, <1>1, <1>2, <1>4, TransferAssumption
  <2>2. CASE i # w
    <3>1. Dist(r, i) # n
      BY <2>2, <1>2, DistFacts
    <3>2. s[i] # NoPacket <=> Dist(r, i) < n
      BY DEF Ring
    <3>3. t[i] = s[i]
      BY <2>2, <1>4
    <3>4. Dist(r, i) \in Int
      BY DistFacts
    <3> HIDE DEF t
    <3> QED
      BY <3>1, <3>2, <3>3, <3>4, <1>1, TransferAssumption
  <2> QED
    BY <2>1, <2>2
<1>6. Ring(t, r, Wrap(w), n + 1)
  <2> HIDE DEF t
  <2> QED
    BY <1>1, <1>3, <1>5, TransferAssumption DEF Ring
<1>7. Queue(t, r, n + 1) = Append(Queue(s, r, n), p)
  <2>1. \A k \in 1 .. n : Pos(r, k - 1) \in Index \ {w}
    BY <1>1, <1>2, TransferAssumption DEF Pos, Index
  <2>2. \A k \in 1 .. n : t[Pos(r, k - 1)] = s[Pos(r, k - 1)]
    BY <2>1, <1>4
  <2>3. t[Pos(r, n + 1 - 1)] = p
    BY <1>1, <1>2, <1>4
  <2>4. Append(Queue(s, r, n), p) = [k \in 1 .. n + 1 |-> IF k <= n THEN s[Pos(r, k - 1)] ELSE p]
    <3>1. Queue(s, r, n) \in Seq(Packet \cup {NoPacket})
      BY <1>1, <2>1 DEF Queue, Slots
    <3>2. Len(Queue(s, r, n)) = n
      BY <1>1 DEF Queue
    <3> QED
      BY <1>1, <3>1, <3>2 DEF Queue
  <2> HIDE DEF t
  <2> QED
    BY <1>1, <2>2, <2>3, <2>4, TransferAssumption DEF Queue
<1>8. n < DtQueueNo
  BY <1>1, TransferAssumption
<1> QED
  BY <1>2, <1>6, <1>7, <1>8

LEMMA AddOrdered ==
  ASSUME NEW s \in Slots, NEW r \in Index, NEW w \in Index, NEW n,
         Ring(s, r, w, n), s[w] = NoPacket, NEW p \in Packet, Ordered(s, r),
         \A i \in Index : s[i] # NoPacket => s[i].id < p.id
  PROVE  Ordered([s EXCEPT ![w] = p], r)
<1> DEFINE t == [s EXCEPT ![w] = p]
<1>1. \A i \in Index : t[i] = IF i = w THEN p ELSE s[i]
  BY DEF Slots
<1>2. Dist(r, w) = n /\ n \in Nat
  <2>1. Dist(r, w) = n
    BY AddOne
  <2> QED
    BY <2>1, TransferAssumption DEF Ring
<1>3. \A i \in Index : s[i] # NoPacket => Dist(r, i) < n
  BY DEF Ring
<1> SUFFICES ASSUME NEW i \in Index, NEW j \in Index, t[i] # NoPacket,
                    t[j] # NoPacket, Dist(r, i) < Dist(r, j)
             PROVE  t[i].id < t[j].id
  BY DEF Ordered
<1> HIDE DEF t
<1>4. Dist(r, i) \in Int /\ Dist(r, j) \in Int
  BY DistFacts
<1>5. CASE i = w
  BY <1>1, <1>2, <1>3, <1>4, <1>5
<1>6. CASE i # w /\ j = w
  BY <1>1, <1>6
<1>7. CASE i # w /\ j # w
  BY <1>1, <1>7 DEF Ordered
<1> QED
  BY <1>5, <1>6, <1>7

LEMMA EmptyRing ==
  /\ Ring([i \in Index |-> NoPacket], 0, 0, 0)
  /\ Ordered([i \in Index |-> NoPacket], 0)
  /\ [i \in Index |-> NoPacket] \in Slots
  /\ 0 \in Index
<1>1. 0 \in Index /\ [i \in Index |-> NoPacket] \in Slots
  BY TransferAssumption DEF Index, Slots
<1>2. \A i \in Index : Dist(0, i) \in 0 .. DtQueueNo - 1
  BY <1>1, DistFacts
<1>3. \A i \in Index : ~(Dist(0, i) < 0)
  BY <1>2, TransferAssumption
<1>4. 0 = Pos(0, 0) /\ 0 \in 0 .. DtQueueNo
  BY TransferAssumption DEF Pos
<1> QED
  BY <1>1, <1>3, <1>4 DEF Ring, Ordered

-----------------------------------------------------------------------------
(* The inductive invariant.                                                 *)

\* The ring holds consecutive packets in order, of links that are up.
RingInv ==
  /\ \E n \in Nat : Ring(slots, rIdx, wIdx, n)
  /\ Ordered(slots, rIdx)
  /\ \A i \in Index : slots[i] # NoPacket => slots[i].id <= pushed
  /\ QueuedOnUpLinks

\* Nothing was sent that is behind a queued packet, or not pushed yet.
SendInv ==
  /\ \A j \in 1 .. MaxPackets : j > pushed => sends[j] = 0
  /\ \A i \in Index, j \in 1 .. MaxPackets :
       slots[i] # NoPacket /\ j > slots[i].id => sends[j] = 0

\* A packet that was sent and is still queued is at the head, and is waiting
\* for an acknowledgement or about to be discarded by the next call.
OnceInv ==
  rtk => /\ \A j \in 1 .. MaxPackets : sends[j] <= 1
         /\ \A i \in Index :
              slots[i] # NoPacket /\ sends[slots[i].id] > 0 =>
                i = rIdx /\ (status = "active" \/ (calls > 0 /\ nextFlag))

Blocked ==
  /\ status = "active" <=> timer = "ack"
  /\ status = "active" => /\ slots[rIdx] # NoPacket
                          /\ slots[rIdx].path = "SPP"
                          /\ slots[rIdx].event # AckEvent
                          /\ sends[slots[rIdx].id] > 0

\* Only a call that is to discard the head may find the queue half changed.
BlockedInv == calls = 0 \/ ~nextFlag => Blocked

DrivenInv ==
  calls = 0 /\ slots[rIdx] # NoPacket =>
    timer # "off" \/ (~rtk /\ slots[rIdx].path = "SPP")

TransInv ==
  TypeOK /\ RingInv /\ SendInv /\ OnceInv /\ BlockedInv /\ DrivenInv

LEMMA PacketFacts ==
  ASSUME NEW p \in Packet
  PROVE  /\ p # NoPacket
         /\ p.id \in 1 .. MaxPackets /\ p.event \in Events
         /\ \/ p.path = "SPP" /\ p.link \in BrLinks
            \/ p.path = "LE" /\ p.link \in LeLinks
BY TransferAssumption DEF Packet

LEMMA InitInv == Init => TransInv
<1> SUFFICES ASSUME Init PROVE TransInv
  OBVIOUS
<1>1. TypeOK
  BY EmptyRing, TransferAssumption DEF Init, TypeOK, Slots
<1>2. Ring(slots, rIdx, wIdx, 0) /\ Ordered(slots, rIdx) /\ 0 \in Nat
  BY EmptyRing DEF Init
<1>3. \A i \in Index : slots[i] = NoPacket
  BY DEF Init
<1>4. RingInv
  BY <1>2, <1>3 DEF RingInv, QueuedOnUpLinks
<1>5. SendInv /\ OnceInv
  BY <1>3 DEF Init, SendInv, OnceInv
<1>6. BlockedInv /\ DrivenInv
  BY <1>3, EmptyRing DEF Init, BlockedInv, Blocked, DrivenInv
<1> QED
  BY <1>1, <1>4, <1>5, <1>6 DEF TransInv

-----------------------------------------------------------------------------
(* One call of app_transfer_pop_data_queue.                                 *)

\* What the discard at the start of the call leaves.
LEMMA AfterFacts ==
  ASSUME TransInv, NEW n \in Nat, Ring(slots, rIdx, wIdx, n)
  PROVE  /\ \E k \in Nat : Dropped(slots, rIdx, wIdx, n, AfterSlots, AfterIdx, k)
         /\ AfterSlots \in Slots /\ AfterIdx \in Index
         /\ \A i \in Index : AfterSlots[i] # NoPacket => AfterSlots[i] = slots[i]
         /\ nextFlag => AfterSlots[rIdx] = NoPacket
         /\ ~nextFlag => AfterSlots = slots /\ AfterIdx = rIdx
         /\ Ordered(AfterSlots, AfterIdx)
<1>1. slots \in Slots /\ rIdx \in Index
  BY DEF TransInv, TypeOK, Slots
<1>2. \E k \in Nat : Dropped(slots, rIdx, wIdx, n, AfterSlots, AfterIdx, k)
  <2>1. CASE Discards
    BY <1>1, <2>1, DropOne DEF AfterSlots, AfterIdx, Discards
  <2>2. CASE ~Discards
    BY <1>1, <2>2, DropNone DEF AfterSlots, AfterIdx
  <2> QED
    BY <2>1, <2>2
<1>3. PICK k \in Nat : Dropped(slots, rIdx, wIdx, n, AfterSlots, AfterIdx, k)
  BY <1>2
<1>4. Ordered(AfterSlots, AfterIdx)
  BY <1>1, <1>3, DropOrdered DEF TransInv, RingInv
<1>5. /\ AfterSlots \in Slots /\ AfterIdx \in Index
      /\ \A i \in Index : AfterSlots[i] # NoPacket => AfterSlots[i] = slots[i]
  BY <1>3 DEF Dropped
<1>6. nextFlag => AfterSlots[rIdx] = NoPacket
  BY <1>1 DEF AfterSlots, Discards, Slots
<1>7. ~nextFlag => AfterSlots = slots /\ AfterIdx = rIdx
  BY DEF AfterSlots, AfterIdx, Discards
<1> QED
  BY <1>2, <1>4, <1>5, <1>6, <1>7

\* The call drops packets from the front of the ring and does nothing else.
LEMMA PopDrops ==
  ASSUME TransInv, PopCall, NEW n \in Nat, Ring(slots, rIdx, wIdx, n)
  PROVE  \E k \in Nat : Dropped(slots, rIdx, wIdx, n, slots', rIdx', k)
<1>1. slots \in Slots /\ rIdx \in Index
  BY DEF TransInv, TypeOK, Slots
<1>2. PICK k \in Nat : Dropped(slots, rIdx, wIdx, n, AfterSlots, AfterIdx, k)
  BY AfterFacts
<1>3. CASE slots' = AfterSlots /\ rIdx' = AfterIdx
  BY <1>2, <1>3
<1>4. CASE /\ Candidate # NoPacket
           /\ slots' = [AfterSlots EXCEPT ![AfterIdx] = NoPacket]
           /\ rIdx' = Wrap(AfterIdx)
  <2>1. AfterSlots \in Slots /\ AfterIdx \in Index /\ Ring(AfterSlots, AfterIdx, wIdx, n - k)
    BY <1>2 DEF Dropped
  <2>2. Dropped(AfterSlots, AfterIdx, wIdx, n - k, slots', rIdx', 1)
    BY <1>4, <2>1, DropOne DEF Candidate
  <2>3. Dropped(slots, rIdx, wIdx, n, slots', rIdx', k + 1)
    BY <1>1, <1>2, <2>2, DropTwice
  <2> QED
    BY <2>3
<1> QED
  BY <1>3, <1>4 DEF PopCall, Waits, SppHasNoCredit, SppSent, SppFails, LeSent,
     LeFails, LeNotConnected, Keep, Release, Attempt, SppCanSend

LEMMA PopRing ==
  ASSUME TransInv, PopCall
  PROVE  RingInv' /\ slots' \in Slots /\ rIdx' \in Index
<1>1. PICK n \in Nat : Ring(slots, rIdx, wIdx, n)
  BY DEF TransInv, RingInv
<1>2. PICK k \in Nat : Dropped(slots, rIdx, wIdx, n, slots', rIdx', k)
  BY <1>1, PopDrops
<1>3. slots \in Slots /\ rIdx \in Index
  BY DEF TransInv, TypeOK, Slots
<1>4. Ordered(slots', rIdx')
  BY <1>1, <1>2, <1>3, DropOrdered DEF TransInv, RingInv
<1>5. Ring(slots', rIdx', wIdx, n - k) /\ n - k \in Nat
  BY <1>2 DEF Dropped
<1>6. \A i \in Index : slots'[i] # NoPacket => slots'[i] = slots[i]
  BY <1>2 DEF Dropped
<1>7. UNCHANGED <<wIdx, spp, le, pushed>>
  BY DEF PopCall
<1>8. (\A i \in Index : slots[i] # NoPacket => slots[i].id <= pushed)'
  BY <1>6, <1>7 DEF TransInv, RingInv
<1>9. QueuedOnUpLinks'
  BY <1>6, <1>7 DEF TransInv, RingInv, QueuedOnUpLinks, LinkUp
<1>10. slots' \in Slots /\ rIdx' \in Index
  BY <1>2 DEF Dropped
<1> QED
  BY <1>4, <1>5, <1>7, <1>8, <1>9, <1>10 DEF RingInv

LEMMA PopType ==
  ASSUME TransInv, PopCall
  PROVE  TypeOK'
<1>1. slots' \in Slots /\ rIdx' \in Index
  BY PopRing
<1>2. PICK n \in Nat : Ring(slots, rIdx, wIdx, n)
  BY DEF TransInv, RingInv
<1>3. Candidate # NoPacket => Candidate \in Packet
  BY <1>2, AfterFacts DEF Candidate, Slots
<1>4. AfterStatus \in {"idle", "active"} /\ AfterTimer \in {"off", "pop", "ack"}
  BY DEF TransInv, TypeOK, AfterStatus, AfterTimer
<1>5. status' \in {"idle", "active"} /\ timer' \in {"off", "pop", "ack"}
  BY <1>4 DEF PopCall, Waits, SppHasNoCredit, SppSent, SppFails, LeSent,
     LeFails, LeNotConnected, Keep, Release
<1>6. calls' \in Nat /\ nextFlag' \in BOOLEAN
  <2>1. calls \in Nat /\ calls > 0
    BY DEF TransInv, TypeOK, PopCall
  <2>2. Return(0) \/ Return(1) \/ Return(2)
    BY DEF PopCall, Waits, SppHasNoCredit, SppSent, SppFails, LeSent,
       LeFails, LeNotConnected
  <2>3. PICK m \in {0, 1, 2} : calls' = calls - 1 + m /\ nextFlag' = TRUE
    BY <2>2 DEF Return
  <2>4. calls - 1 + m \in Nat
    BY <2>1
  <2> QED
    BY <2>3, <2>4
<1>7. ASSUME Candidate \in Packet, Transmitted(Candidate)
      PROVE  sends' \in [1 .. MaxPackets -> 0 .. 2] /\ unacked' \in SUBSET Packet
  BY <1>7, PacketFacts DEF Transmitted, TransInv, TypeOK
<1>8. \/ UNCHANGED <<sends, unacked>>
      \/ Candidate \in Packet /\ Transmitted(Candidate)
  BY <1>3 DEF PopCall, Waits, SppHasNoCredit, SppSent, SppFails, LeSent,
     LeFails, LeNotConnected, Attempt, SppCanSend
<1>9. sends' \in [1 .. MaxPackets -> 0 .. 2] /\ unacked' \in SUBSET Packet
  BY <1>7, <1>8 DEF TransInv, TypeOK
<1>10. inflight' \in Nat
  <2>1. inflight \in Nat
    BY DEF TransInv, TypeOK
  <2>2. inflight' = inflight \/ inflight' = inflight + 1
    BY DEF PopCall, Waits, SppHasNoCredit, SppSent, SppFails, LeSent,
       LeFails, LeNotConnected
  <2> QED
    BY <2>1, <2>2
<1> QED
  BY <1>1, <1>5, <1>6, <1>9, <1>10
  DEF TransInv, TypeOK, PopCall, config, Slots

\* A call sends at most the head that the discard left, and only when the
\* queue is not blocked.
LEMMA PopSends ==
  ASSUME TransInv, PopCall
  PROVE  \/ UNCHANGED sends
         \/ /\ Candidate \in Packet /\ AfterStatus = "idle"
            /\ sends' = [sends EXCEPT ![Candidate.id] = IF @ < 2 THEN @ + 1 ELSE 2]
            /\ AfterIdx \in Index /\ Candidate = slots[AfterIdx]
            /\ AfterSlots[AfterIdx] = slots[AfterIdx]
            /\ \A i \in Index : AfterSlots[i] # NoPacket /\ i # AfterIdx =>
                 Candidate.id < AfterSlots[i].id
<1>1. PICK n \in Nat : Ring(slots, rIdx, wIdx, n)
  BY DEF TransInv, RingInv
<1>2. Candidate # NoPacket => Candidate \in Packet /\ Candidate = slots[AfterIdx]
  BY <1>1, AfterFacts DEF Candidate, Slots
<1>3. ASSUME Candidate # NoPacket, NEW i \in Index, AfterSlots[i] # NoPacket,
             i # AfterIdx
      PROVE  Candidate.id < AfterSlots[i].id
  <2>1. AfterIdx \in Index /\ Ordered(AfterSlots, AfterIdx)
    BY <1>1, AfterFacts
  <2>2. Dist(AfterIdx, i) \in 0 .. DtQueueNo - 1 /\ Pos(AfterIdx, Dist(AfterIdx, i)) = i
    BY <2>1, DistFacts
  <2>3. Dist(AfterIdx, AfterIdx) = 0
    BY <2>1, TransferAssumption DEF Dist, Index
  <2>4. Pos(AfterIdx, 0) = AfterIdx
    BY <2>1, TransferAssumption DEF Pos, Index
  <2>5. Dist(AfterIdx, AfterIdx) < Dist(AfterIdx, i)
    BY <1>3, <2>2, <2>3, <2>4, TransferAssumption
  <2> QED
    BY <1>3, <2>1, <2>5 DEF Ordered, Candidate
<1>4. \/ UNCHANGED sends
      \/ Candidate # NoPacket /\ AfterStatus = "idle" /\ Transmitted(Candidate)
  BY DEF PopCall, Waits, SppHasNoCredit, SppSent, SppFails, LeSent,
     LeFails, LeNotConnected, Attempt, SppCanSend
<1>5. AfterIdx \in Index
  BY <1>1, AfterFacts
<1> QED
  BY <1>2, <1>3, <1>4, <1>5 DEF Transmitted, Candidate

\* What is left in the ring was there after the discard.
LEMMA PopKeeps ==
  ASSUME TransInv, PopCall
  PROVE  \A i \in Index : slots'[i] # NoPacket =>
           /\ slots'[i] = slots[i] /\ AfterSlots[i] = slots[i]
           /\ slots[i] \in Packet
<1>1. PICK n \in Nat : Ring(slots, rIdx, wIdx, n)
  BY DEF TransInv, RingInv
<1>2. /\ AfterSlots \in Slots /\ AfterIdx \in Index
      /\ \A i \in Index : AfterSlots[i] # NoPacket => AfterSlots[i] = slots[i]
  BY <1>1, AfterFacts
<1>3. slots' = AfterSlots \/ slots' = [AfterSlots EXCEPT ![AfterIdx] = NoPacket]
  BY DEF PopCall, Waits, SppHasNoCredit, SppSent, SppFails, LeSent,
     LeFails, LeNotConnected, Keep, Release
<1>4. \A i \in Index : slots'[i] # NoPacket => slots'[i] = AfterSlots[i]
  BY <1>2, <1>3 DEF Slots
<1> QED
  BY <1>2, <1>4 DEF Slots

LEMMA PopSendInv ==
  ASSUME TransInv, PopCall
  PROVE  SendInv'
<1>1. CASE UNCHANGED sends
  BY <1>1, PopKeeps DEF PopCall, TransInv, SendInv
<1>2. CASE /\ Candidate \in Packet
           /\ sends' = [sends EXCEPT ![Candidate.id] = IF @ < 2 THEN @ + 1 ELSE 2]
           /\ AfterIdx \in Index /\ Candidate = slots[AfterIdx]
           /\ \A i \in Index : AfterSlots[i] # NoPacket /\ i # AfterIdx =>
                Candidate.id < AfterSlots[i].id
  <2>1. Candidate.id \in 1 .. MaxPackets /\ Candidate.id <= pushed
    BY <1>2, PacketFacts DEF TransInv, RingInv
  <2>2. \A j \in 1 .. MaxPackets : j # Candidate.id => sends'[j] = sends[j]
    BY <1>2 DEF TransInv, TypeOK
  <2>3. pushed' = pushed /\ pushed \in 0 .. MaxPackets
    BY DEF PopCall, TransInv, TypeOK
  <2>4. \A j \in 1 .. MaxPackets : j > pushed' => sends'[j] = 0
    BY <2>1, <2>2, <2>3, TransferAssumption DEF TransInv, SendInv
  <2>5. ASSUME NEW i \in Index, NEW j \in 1 .. MaxPackets, slots'[i] # NoPacket,
               j > slots'[i].id
        PROVE  sends'[j] = 0
    <3>1. /\ slots'[i] = slots[i] /\ AfterSlots[i] = slots[i]
          /\ slots[i] \in Packet /\ slots[i] # NoPacket
      BY <2>5, PopKeeps
    <3>2. slots[i].id \in 1 .. MaxPackets
      BY <3>1, PacketFacts
    <3>3. Candidate.id <= slots[i].id
      BY <1>2, <2>1, <3>1, <3>2
    <3>4. j # Candidate.id
      BY <2>1, <2>5, <3>1, <3>2, <3>3
    <3>5. sends[j] = 0
      BY <2>5, <3>1 DEF TransInv, SendInv
    <3> QED
      BY <2>2, <3>4, <3>5
  <2> QED
    BY <2>4, <2>5 DEF SendInv
<1> QED
  BY <1>1, <1>2, PopSends

LEMMA PopOnceInv ==
  ASSUME TransInv, PopCall
  PROVE  OnceInv'
<1> SUFFICES ASSUME rtk
             PROVE  /\ \A j \in 1 .. MaxPackets : sends'[j] <= 1
                    /\ \A i \in Index :
                         slots'[i] # NoPacket /\ sends'[slots'[i].id] > 0 =>
                           /\ i = rIdx'
                           /\ status' = "active" \/ (calls' > 0 /\ nextFlag')
  BY DEF PopCall, config, OnceInv
<1>1. PICK n \in Nat : Ring(slots, rIdx, wIdx, n)
  BY DEF TransInv, RingInv
<1>2. /\ AfterSlots \in Slots /\ AfterIdx \in Index /\ rIdx \in Index
      /\ nextFlag => AfterSlots[rIdx] = NoPacket
      /\ ~nextFlag => AfterSlots = slots /\ AfterIdx = rIdx
  BY <1>1, AfterFacts DEF TransInv, TypeOK
<1>3. /\ \A j \in 1 .. MaxPackets : sends[j] <= 1 /\ sends[j] \in 0 .. 2
      /\ \A i \in Index :
           slots[i] # NoPacket /\ sends[slots[i].id] > 0 =>
             i = rIdx /\ (status = "active" \/ (calls > 0 /\ nextFlag))
  BY DEF TransInv, OnceInv, TypeOK
\* A sent packet that the discard leaves blocks the queue.
<1>4. ASSUME NEW i \in Index, AfterSlots[i] # NoPacket, AfterSlots[i] = slots[i],
             sends[slots[i].id] > 0
      PROVE  i = rIdx /\ ~nextFlag /\ status = "active" /\ AfterStatus = "active"
  BY <1>2, <1>3, <1>4 DEF AfterStatus
<1>5. CASE UNCHANGED sends
  <2> SUFFICES ASSUME NEW i \in Index, slots'[i] # NoPacket,
                      sends'[slots'[i].id] > 0
               PROVE  i = rIdx' /\ status' = "active"
    BY <1>3, <1>5
  <2>1. slots'[i] = slots[i] /\ AfterSlots[i] = slots[i]
    BY PopKeeps
  <2>2. i = rIdx /\ ~nextFlag /\ status = "active" /\ AfterStatus = "active"
    BY <1>4, <1>5, <2>1
  <2>3. Keep(AfterStatus, AfterTimer)
    BY <2>2 DEF PopCall, Waits, SppHasNoCredit, SppSent, SppFails, LeSent,
       LeFails, LeNotConnected, Attempt, SppCanSend
  <2> QED
    BY <1>2, <2>2, <2>3 DEF Keep
<1>6. CASE /\ Candidate \in Packet /\ AfterStatus = "idle"
           /\ sends' = [sends EXCEPT ![Candidate.id] = IF @ < 2 THEN @ + 1 ELSE 2]
           /\ AfterIdx \in Index /\ Candidate = slots[AfterIdx]
           /\ AfterSlots[AfterIdx] = slots[AfterIdx]
           /\ \A i \in Index : AfterSlots[i] # NoPacket /\ i # AfterIdx =>
                Candidate.id < AfterSlots[i].id
  <2>1. Candidate.id \in 1 .. MaxPackets /\ Candidate # NoPacket
    BY <1>6, PacketFacts
  <2>2. sends[Candidate.id] = 0
    <3>1. ~(sends[Candidate.id] > 0)
      BY <1>4, <1>6, <2>1 DEF Candidate
    <3> QED
      BY <1>3, <2>1, <3>1
  <2>3. sends' = [sends EXCEPT ![Candidate.id] = 1]
    BY <1>6, <2>2
  <2>4. \A j \in 1 .. MaxPackets : sends'[j] <= 1
    BY <1>3, <2>3 DEF TransInv, TypeOK
  <2>5. ASSUME NEW i \in Index, slots'[i] # NoPacket, sends'[slots'[i].id] > 0
        PROVE  /\ i = rIdx'
               /\ status' = "active" \/ (calls' > 0 /\ nextFlag')
    <3>1. /\ slots'[i] = slots[i] /\ AfterSlots[i] = slots[i]
          /\ slots[i] \in Packet /\ slots[i] # NoPacket
      BY <2>5, PopKeeps
    <3>2. slots[i].id \in 1 .. MaxPackets
      BY <3>1, PacketFacts
    <3>3. i = AfterIdx
      <4> SUFFICES ASSUME i # AfterIdx PROVE FALSE
        OBVIOUS
      <4>1. slots[i].id # Candidate.id
        BY <1>6, <2>1, <3>1, <3>2
      <4>2. sends[slots[i].id] > 0
        BY <2>3, <2>5, <3>1, <3>2, <4>1 DEF TransInv, TypeOK
      <4> QED
        BY <1>4, <1>6, <3>1, <4>2
    <3>4. sends' # sends
      BY <2>1, <2>2, <2>3 DEF TransInv, TypeOK
    <3>5. SppSent \/ LeSent
      BY <3>4 DEF PopCall, Waits, SppHasNoCredit, SppFails, LeFails, LeNotConnected
    <3>6. CASE LeSent
      BY <3>3, <3>6 DEF LeSent, Keep
    <3>7. CASE SppSent
      <4>1. ~(slots' = [AfterSlots EXCEPT ![AfterIdx] = NoPacket])
        BY <1>2, <2>5, <3>3 DEF Slots
      <4>2. calls \in Nat /\ calls > 0
        BY DEF TransInv, TypeOK, PopCall
      <4>3. rIdx' = AfterIdx /\ (status' = "active" \/ Return(1))
        BY <3>7, <4>1 DEF SppSent, Keep, Release
      <4>4. Return(1) => calls' > 0 /\ nextFlag'
        BY <4>2 DEF Return
      <4> QED
        BY <3>3, <4>3, <4>4
    <3> QED
      BY <3>5, <3>6, <3>7
  <2> QED
    BY <2>4, <2>5
<1> QED
  BY <1>5, <1>6, PopSends

LEMMA PopBlockedInv ==
  ASSUME TransInv, PopCall
  PROVE  BlockedInv'
<1> SUFFICES ASSUME calls' = 0 PROVE Blocked'
  BY DEF BlockedInv, PopCall, Waits, SppHasNoCredit, SppSent, SppFails, LeSent,
     LeFails, LeNotConnected, Return
<1>1. PICK n \in Nat : Ring(slots, rIdx, wIdx, n)
  BY DEF TransInv, RingInv
<1>2. /\ AfterSlots \in Slots /\ AfterIdx \in Index
      /\ ~nextFlag => AfterSlots = slots /\ AfterIdx = rIdx
  BY <1>1, AfterFacts
<1>3. ~nextFlag => Blocked
  BY DEF TransInv, BlockedInv
<1>4. AfterStatus = "idle" => AfterTimer # "ack"
  BY <1>3 DEF AfterStatus, AfterTimer, Blocked
<1>5. calls \in Nat /\ calls > 0 /\ ~Return(1) /\ ~Return(2)
  BY DEF TransInv, TypeOK, PopCall, Return
<1>6. CASE Waits
  <2>1. slots' = AfterSlots /\ rIdx' = AfterIdx /\ sends' = sends
        /\ status' = AfterStatus /\ timer' = AfterTimer
    BY <1>6 DEF Waits, Keep
  <2>2. CASE nextFlag
    BY <2>1, <2>2 DEF Blocked, AfterStatus, AfterTimer
  <2>3. CASE ~nextFlag
    BY <1>2, <1>3, <2>1, <2>3 DEF Blocked, AfterStatus, AfterTimer
  <2> QED
    BY <2>2, <2>3
<1>7. CASE SppHasNoCredit \/ LeNotConnected
  BY <1>7 DEF SppHasNoCredit, LeNotConnected, Attempt, Release, Blocked
<1>8. CASE SppFails \/ LeFails
  BY <1>4, <1>5, <1>8 DEF SppFails, LeFails, SppCanSend, Attempt, Keep, Blocked
<1>9. CASE LeSent
  BY <1>5, <1>9 DEF LeSent
<1>10. CASE SppSent
  <2>1. Candidate \in Packet /\ Candidate.path = "SPP" /\ AfterStatus = "idle"
        /\ Transmitted(Candidate)
    BY <1>2, <1>10 DEF SppSent, SppCanSend, Attempt, Candidate, Slots
  <2>2. CASE status' = "idle" /\ timer' # "ack"
    BY <2>2 DEF Blocked
  <2>3. CASE Candidate.event # AckEvent /\ Keep("active", "ack")
    <3>1. Candidate.id \in 1 .. MaxPackets
      BY <2>1, PacketFacts
    <3>2. sends'[Candidate.id] > 0
      BY <2>1, <3>1 DEF Transmitted, TransInv, TypeOK
    <3>3. slots'[rIdx'] = Candidate /\ Candidate # NoPacket
      BY <2>1, <2>3, PacketFacts DEF Keep, Candidate
    <3> QED
      BY <2>1, <2>3, <3>2, <3>3 DEF Keep, Blocked
  <2> QED
    BY <1>4, <1>5, <1>10, <2>1, <2>2, <2>3 DEF SppSent, Keep, Release
<1> QED
  BY <1>6, <1>7, <1>8, <1>9, <1>10 DEF PopCall

LEMMA PopDrivenInv ==
  ASSUME TransInv, PopCall
  PROVE  DrivenInv'
<1> SUFFICES ASSUME calls' = 0, slots'[rIdx'] # NoPacket
             PROVE  timer' # "off" \/ (~rtk /\ slots'[rIdx'].path = "SPP")
  BY DEF DrivenInv, PopCall, config
<1>1. PICK n \in Nat : Ring(slots, rIdx, wIdx, n)
  BY DEF TransInv, RingInv
<1>2. AfterIdx \in Index /\ AfterSlots \in Slots
  BY <1>1, AfterFacts
<1>3. calls \in Nat /\ calls > 0 /\ ~Return(1) /\ ~Return(2)
  BY DEF TransInv, TypeOK, PopCall, Return
<1>4. CASE Waits
  <2>1. slots' = AfterSlots /\ rIdx' = AfterIdx /\ timer' = AfterTimer
        /\ Candidate # NoPacket
    BY <1>4 DEF Waits, Keep, Candidate
  <2>2. LinkUp(Candidate)
    BY <1>1, <1>2, <2>1, AfterFacts DEF Candidate, TransInv, RingInv, QueuedOnUpLinks
  <2>3. AfterStatus # "idle"
    BY <1>4, <2>1, <2>2 DEF Waits, Attempt, LinkUp
  <2>4. ~nextFlag /\ status = "active"
    BY <2>3 DEF AfterStatus, TransInv, TypeOK
  <2>5. timer = "ack" /\ AfterTimer = timer
    BY <2>4 DEF AfterTimer, TransInv, BlockedInv, Blocked
  <2> QED
    BY <2>1, <2>5
<1>5. CASE SppSent
  <2>1. \/ timer' # "off"
        \/ ~rtk /\ Candidate.path = "SPP" /\ slots' = AfterSlots /\ rIdx' = AfterIdx
    BY <1>3, <1>5 DEF SppSent, SppCanSend, Keep, Release
  <2> QED
    BY <2>1 DEF Candidate
<1> QED
  BY <1>3, <1>4, <1>5 DEF PopCall, SppHasNoCredit, SppFails, LeSent, LeFails,
     LeNotConnected, Keep, Release

LEMMA PopInv == TransInv /\ PopCall => TransInv'
BY PopRing, PopType, PopSendInv, PopOnceInv, PopBlockedInv, PopDrivenInv DEF TransInv

-----------------------------------------------------------------------------
(* The events.                                                              *)

\* An event that leaves the ring alone and takes no link down.
LEMMA QuietKeeps ==
  ASSUME TransInv, calls = 0,
         UNCHANGED <<slots, rIdx, wIdx, status, timer, history, config>>,
         \A p \in Packet : LinkUp(p) => LinkUp(p)'
  PROVE  RingInv' /\ SendInv' /\ OnceInv' /\ BlockedInv' /\ DrivenInv'
<1>1. UNCHANGED <<slots, rIdx, wIdx, status, timer, pushed, sends, rtk>>
  BY DEF history, config
<1>2. \A i \in Index : slots[i] # NoPacket => slots[i] \in Packet
  BY DEF TransInv, TypeOK
<1>3. QueuedOnUpLinks'
  BY <1>1, <1>2 DEF TransInv, RingInv, QueuedOnUpLinks
<1>4. RingInv'
  BY <1>1, <1>3 DEF TransInv, RingInv
<1>5. SendInv' /\ OnceInv' /\ BlockedInv'
  BY <1>1 DEF TransInv, SendInv, OnceInv, BlockedInv, Blocked
<1>6. DrivenInv'
  BY <1>1 DEF TransInv, DrivenInv
<1> QED
  BY <1>4, <1>5, <1>6

LEMMA QuietEvents ==
  ASSUME TransInv,
         \/ CreditStored \/ SendComplete
         \/ \E p \in Packet : AckRcvd(p)
         \/ \E l \in BrLinks, c \in BOOLEAN : CreditRcvd(l, c) \/ SppConnected(l, c)
         \/ \E l \in LeLinks : \/ LeConnected(l) \/ LeReady(l) \/ LeNotReady(l)
                               \/ LeClosing(l)
  PROVE  TransInv'
<1>1. calls = 0 /\ UNCHANGED <<slots, rIdx, wIdx, status, timer, history, config>>
  BY DEF CreditStored, SendComplete, AckRcvd, CreditRcvd, SppConnected, LeMoves,
     LeConnected, LeReady, LeNotReady, LeClosing, Between, ring, CallPop
<1>2. ASSUME NEW p \in Packet, LinkUp(p) PROVE LinkUp(p)'
  <2>1. \A l \in BrLinks : spp[l] => spp'[l]
    BY DEF CreditStored, SendComplete, AckRcvd, CreditRcvd, SppConnected, LeMoves,
       LeConnected, LeReady, LeNotReady, LeClosing, TransInv, TypeOK
  <2>2. \A l \in LeLinks : le[l] # "down" => le'[l] # "down"
    BY DEF CreditStored, SendComplete, AckRcvd, CreditRcvd, SppConnected, LeMoves,
       LeConnected, LeReady, LeNotReady, LeClosing, TransInv, TypeOK
  <2> QED
    BY <1>2, <2>1, <2>2, PacketFacts DEF LinkUp
<1>3. TypeOK'
  <2>1. TypeOK
    BY DEF TransInv
  <2>2. calls' \in Nat /\ nextFlag' \in BOOLEAN /\ dueCredit' \in SUBSET BrLinks
    <3>1. \/ UNCHANGED <<calls, nextFlag>>
          \/ \E f \in BOOLEAN : CallPop(f)
      BY DEF CreditStored, SendComplete, AckRcvd, CreditRcvd, SppConnected,
         LeMoves, LeConnected, LeReady, LeNotReady, LeClosing, stack
    <3>2. calls' \in Nat /\ nextFlag' \in BOOLEAN
      BY <2>1, <3>1 DEF CallPop, TypeOK
    <3>3. dueCredit' \in SUBSET BrLinks
      BY <2>1 DEF CreditStored, SendComplete, AckRcvd, CreditRcvd, SppConnected,
         LeMoves, LeConnected, LeReady, LeNotReady, LeClosing, stack, TypeOK
    <3> QED
      BY <3>2, <3>3
  <2>3. spp' \in [BrLinks -> BOOLEAN] /\ credit' \in [BrLinks -> BOOLEAN]
    BY <2>1 DEF CreditStored, SendComplete, AckRcvd, CreditRcvd, SppConnected,
       LeMoves, LeConnected, LeReady, LeNotReady, LeClosing, TypeOK
  <2>4. le' \in [LeLinks -> {"down", "connected", "ready", "closing"}]
    BY <2>1 DEF CreditStored, SendComplete, AckRcvd, CreditRcvd, SppConnected,
       LeMoves, LeConnected, LeReady, LeNotReady, LeClosing, TypeOK
  <2>5. inflight' \in Nat
    <3>1. inflight' = inflight \/ (inflight > 0 /\ inflight' = inflight - 1)
      BY DEF CreditStored, SendComplete, AckRcvd, CreditRcvd, SppConnected,
         LeMoves, LeConnected, LeReady, LeNotReady, LeClosing
    <3>2. inflight \in Nat
      BY <2>1 DEF TypeOK
    <3> QED
      BY <3>1, <3>2
  <2>6. unacked' \in SUBSET Packet
    BY <2>1 DEF CreditStored, SendComplete, AckRcvd, CreditRcvd, SppConnected,
       LeMoves, LeConnected, LeReady, LeNotReady, LeClosing, TypeOK
  <2> QED
    BY <1>1, <2>1, <2>2, <2>3, <2>4, <2>5, <2>6 DEF TypeOK, history, config
<1> QED
  BY <1>1, <1>2, <1>3, QuietKeeps DEF TransInv

LEMMA TimeoutInv == TransInv /\ Timeout => TransInv'
<1> SUFFICES ASSUME TransInv, Timeout PROVE TransInv'
  OBVIOUS
<1>1. /\ UNCHANGED <<slots, rIdx, wIdx, spp, le, pushed, sends, rtk>>
      /\ calls = 0 /\ calls' = 1 /\ status' = "idle" /\ timer' = "off"
      /\ nextFlag' = (timer = "ack")
  BY DEF Timeout, Between, CallPop, radio, history, config
<1>2. TypeOK'
  BY <1>1 DEF TransInv, TypeOK, Timeout, radio, history, config
<1>3. RingInv' /\ SendInv'
  BY <1>1 DEF TransInv, RingInv, SendInv, QueuedOnUpLinks, LinkUp
<1>4. OnceInv'
  <2>1. status = "active" => timer = "ack"
    BY <1>1 DEF TransInv, BlockedInv, Blocked
  <2>2. calls' > 0 /\ ~(calls > 0)
    BY <1>1
  <2>3. timer = "ack" => nextFlag' = TRUE
    BY <1>1
  <2>4. status = "active" => nextFlag'
    BY <2>1, <2>3
  <2> QED
    BY <1>1, <2>2, <2>4 DEF TransInv, OnceInv
<1>5. BlockedInv' /\ DrivenInv'
  BY <1>1 DEF BlockedInv, Blocked, DrivenInv
<1> QED
  BY <1>2, <1>3, <1>4, <1>5 DEF TransInv

LEMMA PushInv ==
  ASSUME TransInv, NEW p \in Packet, Push(p)
  PROVE  TransInv'
<1>1. PICK n \in Nat : Ring(slots, rIdx, wIdx, n)
  BY DEF TransInv, RingInv
<1>2. slots \in Slots /\ rIdx \in Index /\ wIdx \in Index
  BY DEF TransInv, TypeOK, Slots
<1>3. /\ slots' = [slots EXCEPT ![wIdx] = p] /\ wIdx' = Wrap(wIdx)
      /\ slots[wIdx] = NoPacket /\ p.id = pushed + 1 /\ pushed' = pushed + 1
      /\ pushed < MaxPackets /\ calls = 0 /\ calls' = 1 /\ nextFlag' = FALSE
      /\ LinkUp(p) /\ UNCHANGED <<rIdx, status, timer, dueCredit, sends>>
      /\ UNCHANGED <<spp, credit, le, inflight, unacked, rtk, dsp>>
  BY DEF Push, Between, CallPop, radio, config
<1>4. pushed \in 0 .. MaxPackets /\ p.id \in 1 .. MaxPackets /\ p # NoPacket
  BY PacketFacts DEF TransInv, TypeOK
<1>5. \A i \in Index : slots'[i] = IF i = wIdx THEN p ELSE slots[i]
  BY <1>2, <1>3 DEF Slots
<1>6. \A i \in Index : slots[i] # NoPacket =>
        slots[i] \in Packet /\ slots[i].id \in 1 .. MaxPackets /\ slots[i].id <= pushed
  BY <1>2, PacketFacts DEF Slots, TransInv, RingInv
<1>7. TypeOK'
  <2>1. slots' \in Slots /\ wIdx' \in Index
    BY <1>2, <1>3, WrapFacts DEF Slots
  <2>2. pushed' \in 0 .. MaxPackets
    BY <1>3, <1>4, TransferAssumption
  <2> QED
    BY <1>3, <2>1, <2>2 DEF TransInv, TypeOK, Slots
<1>8. RingInv'
  <2>1. Ring(slots', rIdx', wIdx', n + 1)
    BY <1>1, <1>2, <1>3, AddOne
  <2>2. \A i \in Index : slots[i] # NoPacket => slots[i].id < p.id
    BY <1>3, <1>4, <1>6
  <2>3. Ordered(slots', rIdx')
    BY <1>1, <1>2, <1>3, <2>2, AddOrdered DEF TransInv, RingInv
  <2>4. (\A i \in Index : slots[i] # NoPacket => slots[i].id <= pushed)'
    BY <1>3, <1>4, <1>5, <1>6
  <2>5. QueuedOnUpLinks'
    BY <1>3, <1>5 DEF TransInv, RingInv, QueuedOnUpLinks, LinkUp
  <2> QED
    BY <2>1, <2>3, <2>4, <2>5 DEF RingInv
<1>9. SendInv'
  BY <1>3, <1>4, <1>5 DEF TransInv, SendInv
<1>10. sends'[p.id] = 0
  BY <1>3, <1>4 DEF TransInv, SendInv
<1>11. OnceInv'
  BY <1>3, <1>5, <1>10 DEF TransInv, OnceInv
<1>12. BlockedInv'
  <2>1. Blocked
    BY <1>3 DEF TransInv, BlockedInv
  <2>2. status = "active" => slots'[rIdx] = slots[rIdx]
    BY <1>2, <1>3, <1>5, <2>1 DEF Blocked
  <2> QED
    BY <1>3, <2>1, <2>2 DEF BlockedInv, Blocked
<1>13. DrivenInv'
  BY <1>3 DEF DrivenInv
<1> QED
  BY <1>7, <1>8, <1>9, <1>11, <1>12, <1>13 DEF TransInv

LEMMA ResetInv ==
  ASSUME TransInv, QueueReset, calls = 0, UNCHANGED stack, UNCHANGED history,
         UNCHANGED config, TypeOK'
  PROVE  TransInv'
<1>1. \A i \in Index : slots'[i] = NoPacket
  BY DEF QueueReset
<1>2. RingInv'
  <2>1. Ring(slots', rIdx', wIdx', 0) /\ Ordered(slots', rIdx')
    BY EmptyRing DEF QueueReset
  <2> QED
    BY <1>1, <2>1 DEF RingInv, QueuedOnUpLinks
<1>3. SendInv' /\ OnceInv'
  BY <1>1 DEF history, config, TransInv, SendInv, OnceInv
<1>4. BlockedInv' /\ DrivenInv'
  BY <1>1, EmptyRing DEF QueueReset, BlockedInv, Blocked, DrivenInv
<1> QED
  BY <1>2, <1>3, <1>4 DEF TransInv

LEMMA LostLinkInv ==
  ASSUME TransInv, \/ \E l \in BrLinks : SppDisconnected(l)
                   \/ \E l \in LeLinks : LeDisconnected(l)
  PROVE  TransInv'
<1>1. QueueReset /\ calls = 0 /\ UNCHANGED stack /\ UNCHANGED history /\ UNCHANGED config
  BY DEF SppDisconnected, LeDisconnected, Between
<1>2. slots' \in Slots /\ rIdx' \in Index /\ wIdx' \in Index
      /\ status' \in {"idle", "active"} /\ timer' \in {"off", "pop", "ack"}
  BY <1>1, EmptyRing DEF QueueReset
<1>3. /\ spp' \in [BrLinks -> BOOLEAN] /\ credit' \in [BrLinks -> BOOLEAN]
      /\ le' \in [LeLinks -> {"down", "connected", "ready", "closing"}]
      /\ unacked' \in SUBSET Packet
  BY DEF SppDisconnected, LeDisconnected, TransInv, TypeOK
<1>4. inflight' \in Nat
  <2>1. inflight \in Nat
    BY DEF TransInv, TypeOK
  <2>2. inflight' = inflight \/ inflight' \in 0 .. inflight
    BY DEF SppDisconnected, LeDisconnected
  <2> QED
    BY <2>1, <2>2
<1>5. TypeOK'
  BY <1>1, <1>2, <1>3, <1>4 DEF TransInv, TypeOK, Slots, stack, history, config
<1> QED
  BY <1>1, <1>5, ResetInv

LEMMA NextInv == TransInv /\ [Next]_vars => TransInv'
<1> SUFFICES ASSUME TransInv, [Next]_vars PROVE TransInv'
  OBVIOUS
<1>1. CASE UNCHANGED vars
  BY <1>1 DEF vars, ring, stack, radio, history, config, TransInv, TypeOK,
     RingInv, SendInv, OnceInv, BlockedInv, Blocked, DrivenInv, QueuedOnUpLinks, LinkUp
<1>2. CASE Next
  BY <1>2, PopInv, QuietEvents, TimeoutInv, PushInv, LostLinkInv DEF Next
<1> QED
  BY <1>1, <1>2

LEMMA SpecInv == Spec => []TransInv
BY InitInv, NextInv, PTL DEF Spec

-----------------------------------------------------------------------------
(* What follows from the invariant.                                         *)

\* The queue's variables keep their types, the indices stay inside the ring.
THEOREM TransferTypeOK == Spec => []TypeOK
<1>1. TransInv => TypeOK
  BY DEF TransInv
<1> QED
  BY <1>1, SpecInv, PTL

\* No packet stays queued for a link that is down.
THEOREM TransferUpLinks == Spec => []QueuedOnUpLinks
<1>1. TransInv => QueuedOnUpLinks
  BY DEF TransInv, RingInv
<1> QED
  BY <1>1, SpecInv, PTL

\* The queue is blocked exactly while a sent packet at its head is timed.
THEOREM TransferAwaitsAck == Spec => []AwaitsAck
<1>1. TransInv => AwaitsAck
  BY DEF TransInv, BlockedInv, Blocked, AwaitsAck, Between
<1> QED
  BY <1>1, SpecInv, PTL

\* A queue that is not empty is tried again.
THEOREM TransferHeadIsDriven == Spec => []HeadIsDriven
<1>1. TransInv => HeadIsDriven
  BY DEF TransInv, DrivenInv, HeadIsDriven, Between
<1> QED
  BY <1>1, SpecInv, PTL

\* With vendor commands nothing is sent twice.
THEOREM TransferSentAtMostOnce == Spec => []SentAtMostOnce
<1>1. TransInv => SentAtMostOnce
  BY DEF TransInv, OnceInv, SentAtMostOnce
<1> QED
  BY <1>1, SpecInv, PTL

LEMMA OrderStep ==
  ASSUME TransInv, [Next]_vars, NEW i \in 1 .. MaxPackets, NEW j \in 1 .. MaxPackets,
         i < j, sends[j] > 0
  PROVE  sends'[i] = sends[i]
<1>1. CASE PopCall /\ ~UNCHANGED sends
  <2>1. PICK c \in Packet : /\ \E a \in Index : c = slots[a]
                            /\ sends' = [sends EXCEPT ![c.id] = IF @ < 2 THEN @ + 1 ELSE 2]
    BY <1>1, PopSends
  <2>2. c # NoPacket /\ c.id \in 1 .. MaxPackets
    BY PacketFacts
  <2>3. i # c.id
    BY <2>1, <2>2 DEF TransInv, SendInv
  <2> QED
    BY <2>1, <2>3 DEF TransInv, TypeOK
<1>2. CASE ~PopCall
  BY <1>2 DEF Next, CreditStored, Timeout, SendComplete, Push, AckRcvd, CreditRcvd,
     SppConnected, SppDisconnected, LeConnected, LeReady, LeNotReady, LeClosing,
     LeMoves, LeDisconnected, history, vars
<1> QED
  BY <1>1, <1>2

\* Reports leave in the order in which they were pushed.
THEOREM TransferSentInOrder == Spec => SentInOrder
<1>1. TransInv /\ [Next]_vars =>
        [\A i, j \in 1 .. MaxPackets :
           i < j /\ sends[j] > 0 => sends'[i] = sends[i]]_vars
  BY OrderStep
<1> QED
  BY <1>1, SpecInv, PTL DEF Spec, SentInOrder

-----------------------------------------------------------------------------
(* The refinement of TransferFifo.                                          *)

CountOf(s, r, w) ==
  IF s[w] # NoPacket THEN DtQueueNo
  ELSE IF w >= r THEN w - r ELSE w + DtQueueNo - r

\* The indices and one slot tell how many packets there are.
LEMMA CountRight ==
  ASSUME NEW s \in Slots, NEW r \in Index, NEW w \in Index, NEW n,
         Ring(s, r, w, n)
  PROVE  CountOf(s, r, w) = n
<1>1. n \in 0 .. DtQueueNo /\ w = Pos(r, n)
  BY DEF Ring
<1>2. CASE n = DtQueueNo
  <2>1. Dist(r, w) < n
    BY <1>2, DistFacts, TransferAssumption
  <2>2. s[w] # NoPacket
    BY <2>1 DEF Ring
  <2> QED
    BY <1>2, <2>2 DEF CountOf
<1>3. CASE n # DtQueueNo
  <2>1. n \in 0 .. DtQueueNo - 1
    BY <1>1, <1>3, TransferAssumption
  <2>2. Dist(r, w) = n
    BY <1>1, <2>1, PosFacts
  <2>3. s[w] = NoPacket
    BY <2>1, <2>2, TransferAssumption DEF Ring
  <2> QED
    BY <2>2, <2>3 DEF CountOf, Dist
<1> QED
  BY <1>2, <1>3

LEMMA ContentsRight ==
  ASSUME TransInv, NEW n, Ring(slots, rIdx, wIdx, n)
  PROVE  Contents = Queue(slots, rIdx, n)
<1>1. CountOf(slots, rIdx, wIdx) = n
  BY CountRight DEF TransInv, TypeOK, Slots
<1>2. Count = n
  BY <1>1 DEF Count, CountOf
<1> QED
  BY <1>2 DEF Contents, Queue, Behind, Pos

LEMMA ContentsRightNext ==
  ASSUME TransInv', NEW n, Ring(slots', rIdx', wIdx', n)
  PROVE  Contents' = Queue(slots', rIdx', n)
<1>1. CountOf(slots', rIdx', wIdx') = n
  BY CountRight DEF TransInv, TypeOK, Slots
<1>2. Count' = n
  BY <1>1 DEF Count, CountOf
<1> QED
  BY <1>2 DEF Contents, Queue, Behind, Pos

LEMMA QueueSeq ==
  ASSUME NEW s \in Slots, NEW r \in Index, NEW w, NEW n, Ring(s, r, w, n)
  PROVE  /\ Queue(s, r, n) \in Seq(Packet \cup {NoPacket})
         /\ Len(Queue(s, r, n)) = n
<1>1. n \in Nat /\ \A k \in 1 .. n : k - 1 \in 0 .. DtQueueNo - 1
  BY TransferAssumption DEF Ring
<1>2. \A k \in 1 .. n : Pos(r, k - 1) \in Index
  BY <1>1, PosFacts
<1> QED
  BY <1>1, <1>2 DEF Queue, Slots

\* A call takes from the front.
LEMMA PopLeaves ==
  ASSUME TransInv, PopCall
  PROVE  Fifo!Leave \/ UNCHANGED Contents
<1>1. PICK n \in Nat : Ring(slots, rIdx, wIdx, n)
  BY DEF TransInv, RingInv
<1>2. PICK k \in Nat : Dropped(slots, rIdx, wIdx, n, slots', rIdx', k)
  BY <1>1, PopDrops
<1>3. wIdx' = wIdx /\ TransInv'
  BY PopInv DEF PopCall
<1>4. k \in 0 .. n /\ Ring(slots', rIdx', wIdx', n - k)
  BY <1>2, <1>3 DEF Dropped
<1>5. Contents = Queue(slots, rIdx, n) /\ Contents' = Queue(slots', rIdx', n - k)
  BY <1>1, <1>3, <1>4, ContentsRight, ContentsRightNext
<1>6. Contents \in Seq(Packet \cup {NoPacket}) /\ Len(Contents) = n
  BY <1>1, <1>5, QueueSeq DEF TransInv, TypeOK, Slots
<1>7. \A i \in 1 .. n - k : Contents'[i] = Contents[i + k]
  <2> SUFFICES ASSUME NEW i \in 1 .. n - k PROVE Contents'[i] = Contents[i + k]
    OBVIOUS
  <2>1. i + k \in 1 .. n
    BY <1>4
  <2>2. slots'[Pos(rIdx', i - 1)] = slots[Pos(rIdx, i + k - 1)]
    BY <1>2 DEF Dropped
  <2> QED
    BY <1>5, <2>1, <2>2 DEF Queue
<1>8. Contents' = [i \in 1 .. n - k |-> Contents[i + k]]
  BY <1>5, <1>7 DEF Queue
<1>9. CASE k = 0
  <2>1. Contents = [i \in 1 .. n |-> Contents[i]]
    BY <1>5 DEF Queue
  <2>2. Contents' = [i \in 1 .. n |-> Contents[i]]
    BY <1>8, <1>9
  <2> QED
    BY <2>1, <2>2
<1>10. CASE k # 0
  <2>1. k \in 1 .. n
    BY <1>4, <1>10
  <2>2. SubSeq(Contents, k + 1, n) = [i \in 1 .. n - k |-> Contents[i + k]]
    <3>1. n - (k + 1) + 1 = n - k /\ \A i \in 1 .. n - k : i + (k + 1) - 1 = i + k
      BY <2>1
    <3> QED
      BY <1>6, <2>1, <3>1
  <2>3. Contents' = SubSeq(Contents, k + 1, Len(Contents))
    BY <1>6, <1>8, <2>2
  <2>4. k \in 1 .. Len(Contents)
    BY <1>6, <2>1
  <2> QED
    BY <2>3, <2>4 DEF Fifo!Leave
<1> QED
  BY <1>9, <1>10

LEMMA PushEnters ==
  ASSUME TransInv, NEW p \in Packet, Push(p)
  PROVE  Fifo!Enter
<1>1. PICK n \in Nat : Ring(slots, rIdx, wIdx, n)
  BY DEF TransInv, RingInv
<1>2. slots \in Slots /\ rIdx \in Index /\ wIdx \in Index
  BY DEF TransInv, TypeOK, Slots
<1>3. /\ slots' = [slots EXCEPT ![wIdx] = p] /\ wIdx' = Wrap(wIdx)
      /\ slots[wIdx] = NoPacket /\ rIdx' = rIdx
  BY DEF Push
<1>4. /\ n < DtQueueNo /\ Ring(slots', rIdx', wIdx', n + 1)
      /\ Queue(slots', rIdx', n + 1) = Append(Queue(slots, rIdx, n), p)
  BY <1>1, <1>2, <1>3, AddOne
<1>5. Contents = Queue(slots, rIdx, n) /\ Contents' = Queue(slots', rIdx', n + 1)
  BY <1>1, <1>4, PushInv, ContentsRight, ContentsRightNext
<1>6. Len(Contents) = n
  BY <1>1, <1>2, <1>5, QueueSeq
<1> QED
  BY <1>4, <1>5, <1>6 DEF Fifo!Enter

LEMMA ResetEmpties ==
  ASSUME TransInv', QueueReset
  PROVE  Fifo!Empty
<1>1. Ring(slots', rIdx', wIdx', 0)
  BY EmptyRing DEF QueueReset
<1>2. Contents' = Queue(slots', rIdx', 0)
  BY <1>1, ContentsRightNext
<1> QED
  BY <1>2 DEF Queue, Fifo!Empty

LEMMA StepRefines ==
  ASSUME TransInv, [Next]_vars
  PROVE  [Fifo!Next]_Contents
<1>1. TransInv'
  BY NextInv
<1>2. CASE PopCall
  BY <1>2, PopLeaves DEF Fifo!Next
<1>3. ASSUME NEW p \in Packet, Push(p) PROVE Fifo!Next
  BY <1>3, PushEnters DEF Fifo!Next
<1>4. CASE QueueReset
  BY <1>1, <1>4, ResetEmpties DEF Fifo!Next
<1>5. CASE UNCHANGED <<slots, rIdx, wIdx>>
  BY <1>5 DEF Contents, Count, Behind
<1> QED
  BY <1>2, <1>3, <1>4, <1>5 DEF Next, CreditStored, Timeout, SendComplete, AckRcvd,
     CreditRcvd, SppConnected, SppDisconnected, LeConnected, LeReady, LeNotReady,
     LeClosing, LeMoves, LeDisconnected, ring, vars

\* The ring, its two indices and the recursive pop are a bounded first-in
\* first-out buffer for those who push into it.
THEOREM TransferImplementsFifo == Spec => ImplementsFifo
<1>1. Init => Fifo!Init
  <2> SUFFICES ASSUME Init PROVE Contents = <<>>
    BY DEF Fifo!Init
  <2>1. Ring(slots, rIdx, wIdx, 0)
    BY EmptyRing DEF Init
  <2>2. Contents = Queue(slots, rIdx, 0)
    BY <2>1, InitInv, ContentsRight
  <2> QED
    BY <2>2 DEF Queue
<1>2. TransInv /\ [Next]_vars => [Fifo!Next]_Contents
  BY StepRefines
<1> QED
  BY <1>1, <1>2, SpecInv, PTL DEF Spec, ImplementsFifo, Fifo!Spec

=============================================================================
