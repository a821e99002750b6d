---------------------------- MODULE Links_proofs ----------------------------
(* The safety properties of the link tables, the points and the holds, for  *)
(* any number of phones, table entries and points.  LinkInv strengthens     *)
(* them with what the stack's events and the tables have to do with each    *)
(* other, and with what holds of the calls and links not counted yet.       *)
EXTENDS Links, Integers, FiniteSetTheorems, WellFoundedInduction, TLAPS

\* The BR table holds each phone that is up once at most, and calls run on it.
BrTable ==
  /\ accepted \cap up = {}
  /\ \A s \in BrSlots : br[s] # NoAddr => br[s] \in up
  /\ \A s, t \in BrSlots : br[s] = br[t] /\ br[s] # NoAddr => s = t
  /\ \A s \in sco : br[s] # NoAddr
  /\ dialing \subseteq up

\* The LE table holds each phone once at most, and its address when known.
LeTable ==
  /\ \A l \in LeSlots :
       /\ le[l].state = "free" => le[l] = NoLe
       /\ le[l].state # "free" => le[l].phone \in Phones
       /\ le[l].addr \in {NoAddr, le[l].phone}
       /\ le[l].state = "connecting" => le[l].addr = NoAddr /\ ~le[l].lea
       /\ le[l].state = "connected" => le[l].addr = NoAddr
       /\ le[l].state = "authed" => le[l].addr = le[l].phone
  /\ \A l, k \in LeSlots :
       le[l].phone = le[k].phone /\ le[l].phone # NoAddr => l = k

\* Calls and links that are not counted yet have their holds all the same.
DialingHolds == \A a \in dialing : a \notin exposed => sniffOff
ConnectedHolds ==
  \A l \in LeSlots :
    le[l].state = "connected" /\ l \notin overlooked \cup released => stayOn

Holds ==
  /\ PowerHeld /\ CallHoldsSniff /\ SniffFreed
  /\ DialingHolds /\ ConnectedHolds

LinkInv ==
  /\ TypeOK
  /\ BrTable
  /\ LeTable
  /\ PointsMatchLinks
  /\ LinksHavePoints
  /\ CountsExact
  /\ Holds

-----------------------------------------------------------------------------
(* Searches *)

\* A set of indices that is not empty has a least element.
LEMMA LeastIndex ==
  ASSUME NEW N \in Nat, NEW S \in SUBSET (1 .. N), S # {}
  PROVE  First(S) \in S
<1> DEFINE F == FiniteSubsetsOf(1 .. N)
           T == {S \cap (1 .. k) : k \in S}
<1>1. F = SUBSET (1 .. N)
  <2>1. IsFiniteSet(1 .. N)
    BY FS_Interval
  <2> QED
    BY <2>1, FS_FiniteSubsetsOfFinite
<1>2. T \subseteq F
  BY <1>1
<1>3. T # {}
  <2>1. PICK k \in S : TRUE
    OBVIOUS
  <2>2. S \cap (1 .. k) \in T
    OBVIOUS
  <2> QED
    BY <2>2
<1>4. \E x \in T : \A y \in T : <<y, x>> \notin StrictSubsetOrdering(1 .. N)
  <2>1. IsWellFoundedOn(StrictSubsetOrdering(1 .. N), F)
    BY FS_StrictSubsetOrderingWellFounded
  <2> HIDE DEF T, F
  <2> QED
    BY <1>2, <1>3, <2>1, WFMin
<1>5. PICK k \in S :
        \A y \in T : <<y, S \cap (1 .. k)>> \notin StrictSubsetOrdering(1 .. N)
  BY <1>4
<1>6. ASSUME NEW j \in S, j < k PROVE FALSE
  <2>1. S \cap (1 .. j) \in T
    OBVIOUS
  <2>2. S \cap (1 .. j) \subseteq S \cap (1 .. k) /\ S \cap (1 .. j) # S \cap (1 .. k)
    BY <1>6
  <2> QED
    BY <1>5, <2>1, <2>2 DEF StrictSubsetOrdering
<1>7. \A j \in S : k <= j
  BY <1>6
<1> QED
  BY <1>7 DEF First

\* A search finds an index of the set, and 0 only when there is none.
LEMMA FirstFacts ==
  ASSUME NEW N \in Nat, NEW S \in SUBSET (1 .. N)
  PROVE  /\ First(S) # 0 => First(S) \in S
         /\ First(S) = 0 => S = {}
<1>1. CASE S = {}
  BY <1>1 DEF First
<1>2. CASE S # {}
  <2>1. First(S) \in S
    BY <1>2, LeastIndex
  <2>2. First(S) # 0
    BY <2>1
  <2> QED
    BY <2>1, <2>2
<1> QED
  BY <1>1, <1>2

LEMMA BrOfFacts ==
  ASSUME NEW a
  PROVE  /\ BrOf(a) # 0 => BrOf(a) \in BrSlots /\ br[BrOf(a)] = a
         /\ BrOf(a) = 0 => \A s \in BrSlots : br[s] # a
<1> DEFINE S == {s \in BrSlots : br[s] = a}
<1>1. S \in SUBSET (1 .. MaxBr)
  BY DEF BrSlots
<1>2. (First(S) # 0 => First(S) \in S) /\ (First(S) = 0 => S = {})
  <2> HIDE DEF S
  <2> QED
    BY <1>1, FirstFacts, LinksAssumption
<1> QED
  BY <1>2 DEF BrOf

LEMMA FreeBrFacts ==
  FreeBr # 0 => FreeBr \in BrSlots /\ br[FreeBr] = NoAddr
<1> DEFINE S == {s \in BrSlots : br[s] = NoAddr}
<1>1. S \in SUBSET (1 .. MaxBr)
  BY DEF BrSlots
<1>2. First(S) # 0 => First(S) \in S
  <2> HIDE DEF S
  <2> QED
    BY <1>1, FirstFacts, LinksAssumption
<1> QED
  BY <1>2 DEF FreeBr

LEMMA FreeLeFacts ==
  FreeLe # 0 => FreeLe \in LeSlots /\ le[FreeLe].state = "free"
<1> DEFINE S == {l \in LeSlots : le[l].state = "free"}
<1>1. S \in SUBSET (1 .. MaxLe)
  BY DEF LeSlots
<1>2. First(S) # 0 => First(S) \in S
  <2> HIDE DEF S
  <2> QED
    BY <1>1, FirstFacts, LinksAssumption
<1> QED
  BY <1>2 DEF FreeLe

LEMMA PointOfFacts ==
  ASSUME NEW a
  PROVE  /\ PointOf(a) # 0 => PointOf(a) \in Points /\ point[PointOf(a)].addr = a
                              /\ a # NoAddr
         /\ PointOf(a) = 0 => \A i \in Points : point[i].addr # NoAddr => point[i].addr # a
<1> DEFINE S == {i \in UsedIn(point) : point[i].addr = a}
<1>1. S \in SUBSET (1 .. MaxPoints)
  BY DEF Points, UsedIn
<1>2. (First(S) # 0 => First(S) \in S) /\ (First(S) = 0 => S = {})
  <2> HIDE DEF S
  <2> QED
    BY <1>1, FirstFacts, LinksAssumption
<1> QED
  BY <1>2 DEF PointOf, UsedIn

LEMMA FreePointFacts ==
  /\ FreePoint # 0 => FreePoint \in Points /\ point[FreePoint].addr = NoAddr
  /\ FreePoint = 0 => UsedIn(point) = Points
<1> DEFINE S == Points \ UsedIn(point)
<1>1. S \in SUBSET (1 .. MaxPoints)
  BY DEF Points
<1>2. (First(S) # 0 => First(S) \in S) /\ (First(S) = 0 => S = {})
  <2> HIDE DEF S
  <2> QED
    BY <1>1, FirstFacts, LinksAssumption
<1> QED
  BY <1>2 DEF FreePoint, UsedIn

-----------------------------------------------------------------------------
(* Sizes *)

LEMMA PointsFinite ==
  /\ IsFiniteSet(Points)
  /\ Cardinality(Points) = MaxPoints
BY FS_Interval, LinksAssumption DEF Points

LEMMA SizeFacts ==
  ASSUME NEW S \in SUBSET Points
  PROVE  /\ IsFiniteSet(S)
         /\ Cardinality(S) \in 0 .. MaxPoints
         /\ Cardinality(S) = 0 => S = {}
<1>1. IsFiniteSet(S) /\ Cardinality(S) <= MaxPoints
  BY PointsFinite, FS_Subset
<1>2. Cardinality(S) \in Nat
  BY <1>1, FS_CardinalityType
<1>3. Cardinality(S) = 0 => S = {}
  BY <1>1, FS_EmptySet
<1> QED
  BY <1>1, <1>2, <1>3, LinksAssumption

LEMMA PointSets ==
  ASSUME NEW pts, NEW talking, NEW links
  PROVE  /\ UsedIn(pts) \in SUBSET Points
         /\ BrIn(pts) \in SUBSET Points
         /\ LeIn(pts) \in SUBSET Points
         /\ ScoIn(pts, talking) \in SUBSET Points
         /\ LeaIn(pts, links) \in SUBSET Points
BY DEF UsedIn, BrIn, LeIn, ScoIn, LeaIn


\* What counting again leaves behind is within the bounds.
LEMMA RecountTypes ==
  ASSUME TypeOK, NEW pts, NEW talking, NEW links
  PROVE  LET C == [num : 0 .. MaxPoints, br : 0 .. MaxPoints, sco : 0 .. MaxPoints,
                   le : 0 .. MaxPoints, lea : 0 .. MaxPoints]
         IN  /\ BrRecount(pts) \in C
             /\ ScoRecount(talking) \in C
             /\ LeRecount(pts, links) \in C
             /\ LeaRecount(links) \in C
<1>1. /\ Cardinality(UsedIn(pts)) \in 0 .. MaxPoints
      /\ Cardinality(BrIn(pts)) \in 0 .. MaxPoints
      /\ Cardinality(LeIn(pts)) \in 0 .. MaxPoints
      /\ Cardinality(LeaIn(pts, links)) \in 0 .. MaxPoints
      /\ Cardinality(ScoIn(point, talking)) \in 0 .. MaxPoints
      /\ Cardinality(LeaIn(point, links)) \in 0 .. MaxPoints
  BY PointSets, SizeFacts
<1> QED
  BY <1>1 DEF TypeOK, BrRecount, ScoRecount, LeRecount, LeaRecount

\* The place for a link of a is a's own point, or a free one if it has none; with
\* exact counters there is one whenever the link is permitted.
LEMMA PlaceFacts ==
  ASSUME LinkInv, NEW a \in Phones
  PROVE  /\ Permitted(a) => /\ Place(a) \in Points
                            /\ \/ point[Place(a)].addr = a
                               \/ point[Place(a)] = NoPoint
         /\ ~Permitted(a) => Place(a) = 0
         /\ \A i \in Points : point[i].addr = a => i = Place(a)
<1>1. \A i \in Points : point[i].addr = NoAddr => point[i] = NoPoint
  BY DEF LinkInv, PointsMatchLinks
<1>2. a # NoAddr
  BY LinksAssumption
<1>3. CASE PointOf(a) # 0
  <2>1. PointOf(a) \in Points /\ point[PointOf(a)].addr = a
    BY <1>3, PointOfFacts
  <2>2. \A i, j \in UsedIn(point) : point[i].addr = point[j].addr => i = j
    BY DEF LinkInv, PointsMatchLinks
  <2> QED
    BY <1>2, <1>3, <2>1, <2>2 DEF Place, Permitted, UsedIn
<1>4. CASE PointOf(a) = 0
  <2>1. \A i \in Points : point[i].addr # a
    BY <1>2, <1>4, PointOfFacts
  <2>2. ~Full => FreePoint # 0
    <3> SUFFICES ASSUME ~Full, FreePoint = 0 PROVE FALSE
      OBVIOUS
    <3>1. Cardinality(UsedIn(point)) = MaxPoints
      BY FreePointFacts, PointsFinite
    <3> QED
      BY <3>1, LinksAssumption DEF Full, LinkInv, CountsExact
  <2> QED
    BY <1>1, <1>4, <2>1, <2>2, FreePointFacts DEF Place, Permitted
<1> QED
  BY <1>3, <1>4

-----------------------------------------------------------------------------
(* BR links *)

\* Steps that change only what the stack is setting up, apart from the calls.
LEMMA AcceptedInv ==
  ASSUME LinkInv, accepted' \subseteq Phones, accepted' \cap up = {},
         UNCHANGED <<up, br, sco, le, point, count, power, calls, crowded>>
  PROVE  LinkInv'
<1> USE DEF power, calls
<1>1. TypeOK'
  BY DEF LinkInv, TypeOK
<1>2. BrTable' /\ LeTable'
  BY DEF LinkInv, BrTable, LeTable
<1>3. PointsMatchLinks' /\ LinksHavePoints'
  BY DEF LinkInv, PointsMatchLinks, LinksHavePoints, UsedIn
<1>4. CountsExact'
  BY DEF LinkInv, CountsExact, UsedIn, BrIn, ScoIn, LeIn, LeaIn
<1>5. Holds'
  BY DEF LinkInv, Holds, PowerHeld, CallHoldsSniff, SniffFreed, DialingHolds,
     ConnectedHolds, ScoIn, BrIn, UsedIn
<1> QED
  BY <1>1, <1>2, <1>3, <1>4, <1>5 DEF LinkInv

LEMMA ConnSteps ==
  ASSUME LinkInv, NEW a \in Phones, NEW force \in BOOLEAN,
         ConnInd(a) \/ PageOut(a, force) \/ ConnFailed(a)
  PROVE  LinkInv'
<1>1. accepted' \subseteq Phones /\ accepted' \cap up = {}
  BY DEF LinkInv, TypeOK, BrTable, ConnInd, PageOut, ConnFailed
<1>2. UNCHANGED <<up, br, sco, le, point, count, power, calls, crowded>>
  BY DEF ConnInd, PageOut, ConnFailed
<1> QED
  BY <1>1, <1>2, AcceptedInv

\* A new BR link that finds an entry takes its point along, if it gets one.
LEMMA BrConnectedInv ==
  ASSUME LinkInv, NEW a \in Phones, BrConnected(a), FreeBr # 0
  PROVE  LinkInv'
<1> DEFINE s == FreeBr
           i == Place(a)
<1>1. /\ a \in accepted /\ a \notin up
      /\ accepted' = accepted \ {a} /\ up' = up \cup {a}
      /\ br' = [br EXCEPT ![s] = a]
      /\ point' = InsertBr(a, s)
      /\ count' = BrRecount(point')
      /\ crowded' = IF Permitted(a) THEN crowded ELSE crowded \cup {a}
      /\ UNCHANGED <<sco, le, stayOn, overlooked, released,
                     dialing, sniffOff, exposed>>
  BY DEF BrConnected, LinkInv, BrTable, power, calls
<1>2. s \in BrSlots /\ br[s] = NoAddr /\ s # 0
  BY FreeBrFacts
<1>3. /\ br' \in [BrSlots -> Phones \cup {NoAddr}]
      /\ br'[s] = a
      /\ \A t \in BrSlots : t # s => br'[t] = br[t] /\ br[t] # a
      /\ s \notin sco
  BY <1>1, <1>2, LinksAssumption DEF LinkInv, TypeOK, BrTable
<1>4. a # NoAddr
  BY LinksAssumption
<1> HIDE DEF s
<1>5. /\ point' \in [Points -> Point]
      /\ \A j \in Points : j # i => point'[j] = point[j] /\ point[j].addr # a
      /\ Permitted(a) => /\ i \in Points
                         /\ point'[i].addr = a /\ point'[i].br = s
                         /\ point'[i].le = point[i].le
                         /\ point[i].addr = a \/ point[i] = NoPoint
      /\ ~Permitted(a) => point' = point /\ i \notin Points
  <2>1. point \in [Points -> Point] /\ s \in 0 .. MaxBr /\ 0 \notin Points
    BY <1>2, LinksAssumption DEF LinkInv, TypeOK, BrSlots, Points
  <2>2. /\ Permitted(a) => i \in Points /\ (point[i].addr = a \/ point[i] = NoPoint)
        /\ ~Permitted(a) => i = 0
        /\ \A j \in Points : point[j].addr = a => j = i
    BY PlaceFacts
  <2>3. point' = IF i = 0 THEN point
                 ELSE [point EXCEPT ![i] = [addr |-> a, br |-> s, le |-> @.le]]
    BY <1>1 DEF InsertBr
  <2> HIDE DEF i
  <2> QED
    BY <2>1, <2>2, <2>3 DEF Point
<1> HIDE DEF i
<1>6. \A j \in Points :
        /\ point'[j].le = point[j].le
        /\ point[j].addr # NoAddr => point'[j].addr = point[j].addr
        /\ point[j].br \in sco \/ point'[j].br \in sco => point'[j] = point[j]
  <2> SUFFICES ASSUME NEW j \in Points
               PROVE  /\ point'[j].le = point[j].le
                      /\ point[j].addr # NoAddr => point'[j].addr = point[j].addr
                      /\ point[j].br \in sco \/ point'[j].br \in sco => point'[j] = point[j]
    OBVIOUS
  <2>1. CASE j # i \/ ~Permitted(a)
    BY <1>5, <2>1
  <2>2. CASE j = i /\ Permitted(a)
    <3>1. point[j].br # 0 => br[point[j].br] = point[j].addr
      BY DEF LinkInv, PointsMatchLinks
    <3>2. point[j].br \in 0 .. MaxBr
      BY DEF LinkInv, TypeOK, Point
    <3>3. point[j].br \notin sco
      <4>1. 0 \notin sco
        BY LinksAssumption DEF LinkInv, TypeOK, BrSlots
      <4>2. point[j].br \in BrSlots \/ point[j].br = 0
        BY <3>2, LinksAssumption DEF BrSlots
      <4>3. point[j] = NoPoint => point[j].br = 0
        BY DEF NoPoint
      <4> QED
        BY <1>3, <1>5, <2>2, <3>1, <4>1, <4>2, <4>3, <1>2, <1>4
    <3>4. point'[j].br = s
      BY <1>5, <2>2
    <3> QED
      BY <1>3, <1>5, <2>2, <3>3, <3>4 DEF NoPoint
  <2> QED
    BY <2>1, <2>2
<1>7. TypeOK'
  BY <1>1, <1>3, <1>5, RecountTypes DEF LinkInv, TypeOK
<1>8. BrTable'
  BY <1>1, <1>2, <1>3, <1>4 DEF LinkInv, BrTable
<1>9. LeTable'
  BY <1>1 DEF LinkInv, LeTable
<1>10. PointsMatchLinks'
  <2>1. ASSUME NEW j \in Points
        PROVE  /\ point'[j].addr = NoAddr => point'[j] = NoPoint
               /\ point'[j].addr # NoAddr => point'[j].br # 0 \/ point'[j].le # 0
               /\ point'[j].br # 0 => br'[point'[j].br] = point'[j].addr
               /\ point'[j].le # 0 => le'[point'[j].le].addr = point'[j].addr
    <3>1. /\ point[j].addr = NoAddr => point[j] = NoPoint
          /\ point[j].addr # NoAddr => point[j].br # 0 \/ point[j].le # 0
          /\ point[j].br # 0 => br[point[j].br] = point[j].addr
          /\ point[j].le # 0 => le[point[j].le].addr = point[j].addr
      BY DEF LinkInv, PointsMatchLinks
    <3>2. CASE j = i /\ Permitted(a)
      <4>1. point'[j].addr = a /\ point'[j].br = s /\ point'[j].le = point[j].le
        BY <1>5, <3>2
      <4>2. point[j].le # 0 => point[j].addr = a
        BY <1>5, <3>2 DEF NoPoint
      <4> QED
        BY <1>1, <1>2, <1>3, <1>4, <3>1, <4>1, <4>2
    <3>3. CASE ~(j = i /\ Permitted(a))
      <4>1. point'[j] = point[j] /\ (point[j].addr # a)
        BY <1>5, <3>3
      <4>2. point[j].br # 0 => point[j].br \in BrSlots
        BY LinksAssumption DEF LinkInv, TypeOK, Point, BrSlots
      <4>3. point[j].br # 0 => br'[point[j].br] = br[point[j].br]
        <5>1. CASE point[j].br # s
          BY <1>3, <4>2, <5>1
        <5>2. CASE point[j].br = s
          <6>1. point[j].addr = NoAddr
            BY <1>2, <3>1, <5>2
          <6>2. point[j].br = 0
            BY <3>1, <6>1 DEF NoPoint
          <6> QED
            BY <6>2
        <5> QED
          BY <5>1, <5>2
      <4> QED
        BY <1>1, <3>1, <4>1, <4>3
    <3> QED
      BY <3>2, <3>3
  <2>2. ASSUME NEW j \in Points, NEW k \in Points, point'[j].addr # NoAddr,
               point'[j].addr = point'[k].addr
        PROVE  j = k
    <3>1. \A x, y \in UsedIn(point) : point[x].addr = point[y].addr => x = y
      BY DEF LinkInv, PointsMatchLinks
    <3> QED
      BY <1>5, <2>2, <3>1 DEF UsedIn
  <2> QED
    BY <2>1, <2>2 DEF PointsMatchLinks, UsedIn
<1>11. LinksHavePoints'
  <2>1. ASSUME NEW t \in BrSlots, br'[t] \notin crowded' \cup {NoAddr}
        PROVE  \E j \in Points : point'[j].addr = br'[t] /\ point'[j].br = t
    <3>1. CASE t = s
      BY <1>1, <1>3, <1>5, <2>1, <3>1
    <3>2. CASE t # s
      <4>1. br'[t] = br[t] /\ br[t] # a /\ br[t] \notin crowded \cup {NoAddr}
        BY <1>1, <1>3, <2>1, <3>2
      <4>2. PICK j \in Points : point[j].addr = br[t] /\ point[j].br = t
        BY <4>1 DEF LinkInv, LinksHavePoints
      <4>3. point'[j] = point[j]
        BY <1>5, <4>1, <4>2 DEF NoPoint
      <4> QED
        BY <4>1, <4>2, <4>3
    <3> QED
      BY <3>1, <3>2
  <2>2. ASSUME NEW l \in LeSlots, le'[l].state = "authed"
        PROVE  \E j \in Points : point'[j].addr = le'[l].addr /\ point'[j].le = l
    <3>1. PICK j \in Points : point[j].addr = le[l].addr /\ point[j].le = l
      BY <1>1, <2>2 DEF LinkInv, LinksHavePoints
    <3>2. point[j].addr # NoAddr
      BY <1>1, <2>2, <3>1, LinksAssumption DEF LinkInv, LeTable
    <3> QED
      BY <1>1, <1>6, <3>1, <3>2
  <2> QED
    BY <2>1, <2>2 DEF LinksHavePoints
<1>12. ScoIn(point', sco) = ScoIn(point, sco)
  <2>1. \A j \in Points : j \in ScoIn(point', sco) <=> j \in ScoIn(point, sco)
    <3> SUFFICES ASSUME NEW j \in Points
                 PROVE  j \in ScoIn(point', sco) <=> j \in ScoIn(point, sco)
      OBVIOUS
    <3> QED
      BY <1>6 DEF ScoIn, BrIn, UsedIn
  <2> QED
    BY <2>1, PointSets
<1>13. LeIn(point') = LeIn(point) /\ LeaIn(point', le) = LeaIn(point, le)
  <2>1. ASSUME NEW j \in Points PROVE j \in LeIn(point') <=> j \in LeIn(point)
    <3>1. point[j].addr = NoAddr => point[j].le = 0
      BY DEF LinkInv, PointsMatchLinks, NoPoint
    <3> QED
      BY <1>6, <3>1 DEF LeIn, UsedIn
  <2>2. LeIn(point') = LeIn(point)
    BY <2>1, PointSets
  <2>3. \A j \in LeIn(point) : point'[j].le = point[j].le
    BY <1>6, PointSets
  <2> QED
    BY <2>2, <2>3 DEF LeaIn
<1>14. CountsExact'
  BY <1>1, <1>12, <1>13 DEF LinkInv, TypeOK, CountsExact, BrRecount
<1>15. Holds'
  <2>1. CallHoldsSniff'
    <3> SUFFICES ASSUME NEW j \in ScoIn(point', sco), point'[j].addr \notin exposed
                 PROVE  sniffOff
      BY <1>1 DEF CallHoldsSniff
    <3>1. j \in ScoIn(point, sco) /\ j \in Points /\ point'[j].addr = point[j].addr
      BY <1>6, <1>12, PointSets DEF ScoIn, BrIn, UsedIn
    <3> QED
      BY <3>1 DEF LinkInv, Holds, CallHoldsSniff
  <2> QED
    BY <1>1, <2>1 DEF LinkInv, Holds, PowerHeld, SniffFreed, DialingHolds, ConnectedHolds
<1> QED
  BY <1>7, <1>8, <1>9, <1>10, <1>11, <1>14, <1>15 DEF LinkInv

\* A BR link the table has no entry for is only up.
LEMMA BrUntrackedInv ==
  ASSUME LinkInv, NEW a \in Phones, BrConnected(a), FreeBr = 0
  PROVE  LinkInv'
<1>1. /\ a \in accepted
      /\ accepted' = accepted \ {a} /\ up' = up \cup {a}
      /\ UNCHANGED <<br, point, count, crowded>>
      /\ UNCHANGED <<sco, le, stayOn, overlooked, released,
                     dialing, sniffOff, exposed>>
  BY DEF BrConnected, power, calls
<1>2. TypeOK'
  BY <1>1 DEF LinkInv, TypeOK
<1>3. BrTable' /\ LeTable'
  BY <1>1 DEF LinkInv, BrTable, LeTable
<1>4. PointsMatchLinks' /\ LinksHavePoints'
  BY <1>1 DEF LinkInv, PointsMatchLinks, LinksHavePoints, UsedIn
<1>5. CountsExact'
  BY <1>1 DEF LinkInv, CountsExact, UsedIn, BrIn, ScoIn, LeIn, LeaIn
<1>6. Holds'
  BY <1>1 DEF LinkInv, Holds, PowerHeld, CallHoldsSniff, SniffFreed, DialingHolds,
     ConnectedHolds, ScoIn, BrIn, UsedIn
<1> QED
  BY <1>2, <1>3, <1>4, <1>5, <1>6 DEF LinkInv

\* What a BR link that ends does to the points, whether or not it had one.
LEMMA BrRemoved ==
  ASSUME LinkInv, NEW a \in Phones, BrDisconnected(a), BrOf(a) # 0
  PROVE  /\ point' \in [Points -> Point]
         /\ \A j \in Points :
              IF point[j].br = BrOf(a)
                THEN /\ point[j].addr = a
                     /\ point'[j] = IF point[j].le = 0 THEN NoPoint
                                    ELSE [point[j] EXCEPT !.br = 0]
                ELSE point'[j] = point[j]
         /\ count' = BrRecount(point')
<1> DEFINE s == BrOf(a)
<1>1. s \in BrSlots /\ br[s] = a /\ a # NoAddr
  BY BrOfFacts, LinksAssumption
<1>2. point \in [Points -> Point]
  BY DEF LinkInv, TypeOK
<1>3. \A j \in Points : point[j].br # 0 => br[point[j].br] = point[j].addr
  BY DEF LinkInv, PointsMatchLinks
<1>4. \A j \in Points : point[j].addr # NoAddr => point[j].br # 0 \/ point[j].le # 0
  BY DEF LinkInv, PointsMatchLinks
<1>5. \A j \in Points : point[j].addr = NoAddr => point[j] = NoPoint
  BY DEF LinkInv, PointsMatchLinks
<1>6. \A j \in Points : point[j].br = s => point[j].addr = a
  BY <1>1, <1>3
<1>7. \A j \in Points : point[j].addr = a => j = PointOf(a)
  BY <1>1, PointOfFacts DEF LinkInv, PointsMatchLinks, UsedIn
<1>8. \A j \in Points : point[j].addr = a => point[j].br \in {0, s}
  <2> SUFFICES ASSUME NEW j \in Points, point[j].addr = a, point[j].br # 0
               PROVE  point[j].br = s
    OBVIOUS
  <2>1. br[point[j].br] = a /\ point[j].br \in BrSlots
    BY <1>2, <1>3, LinksAssumption DEF Point, BrSlots
  <2> QED
    BY <1>1, <2>1 DEF LinkInv, BrTable
<1>9. CASE count.br > 0
  <2>1. point' = RemoveBr(a) /\ count' = BrRecount(point')
    BY <1>9 DEF BrDisconnected
  <2>2. CASE PointOf(a) = 0
    <3>1. \A j \in Points : point[j].addr # a
      BY <1>1, <2>2, PointOfFacts
    <3>2. point' = point
      BY <2>1, <2>2 DEF RemoveBr
    <3> QED
      BY <1>2, <1>6, <2>1, <3>1, <3>2
  <2>3. CASE PointOf(a) # 0
    <3>1. PointOf(a) \in Points /\ point[PointOf(a)].addr = a
      BY <2>3, PointOfFacts
    <3>2. point' = [point EXCEPT ![PointOf(a)] =
                     IF @.le = 0 THEN NoPoint ELSE [@ EXCEPT !.br = 0]]
      BY <2>1, <2>3 DEF RemoveBr
    <3>3. point' \in [Points -> Point]
      BY <1>2, <3>1, <3>2, LinksAssumption DEF Point, NoPoint
    <3>4. ASSUME NEW j \in Points, j # PointOf(a)
          PROVE  point'[j] = point[j] /\ point[j].br # s
      BY <1>2, <1>6, <1>7, <3>1, <3>2, <3>4
    <3>5. ASSUME NEW j \in Points, j = PointOf(a), point[j].br = s
          PROVE  /\ point[j].addr = a
                 /\ point'[j] = IF point[j].le = 0 THEN NoPoint
                                ELSE [point[j] EXCEPT !.br = 0]
      BY <1>2, <3>1, <3>2, <3>5
    <3>6. ASSUME NEW j \in Points, j = PointOf(a), point[j].br # s
          PROVE  point'[j] = point[j] /\ point[j].br = 0 /\ point[j].le # 0
      <4>1. point[j].br = 0 /\ point[j].le # 0
        BY <1>1, <1>4, <1>8, <3>1, <3>6
      <4>2. point'[j] = [point[j] EXCEPT !.br = 0]
        BY <1>2, <3>1, <3>2, <3>6, <4>1
      <4>3. point[j] \in Point
        BY <1>2
      <4> QED
        BY <4>1, <4>2, <4>3 DEF Point
    <3> QED
      BY <2>1, <3>1, <3>3, <3>4, <3>5, <3>6
  <2> QED
    BY <2>2, <2>3
<1>10. CASE ~(count.br > 0)
  <2>1. point' = point /\ count' = count
    BY <1>10 DEF BrDisconnected
  <2>2. BrIn(point) = {}
    <3>1. Cardinality(BrIn(point)) = 0
      BY <1>10, LinksAssumption DEF LinkInv, TypeOK, CountsExact
    <3> QED
      BY <3>1, PointSets, SizeFacts
  <2>3. \A j \in Points : point[j].br = 0
    BY <1>5, <2>2 DEF BrIn, UsedIn, NoPoint
  <2>4. s # 0
    BY <1>1 DEF BrSlots
  <2>5. count' = BrRecount(point')
    BY <2>1 DEF LinkInv, TypeOK, CountsExact, BrRecount
  <2> QED
    BY <1>2, <2>1, <2>3, <2>4, <2>5
<1> QED
  BY <1>9, <1>10 DEF LinkInv, TypeOK

LEMMA BrDisconnectedInv ==
  ASSUME LinkInv, NEW a \in Phones, BrDisconnected(a), BrOf(a) # 0
  PROVE  LinkInv'
<1> DEFINE s == BrOf(a)
<1>1. /\ a \in up /\ a \notin dialing /\ s \notin sco
      /\ up' = up \ {a} /\ crowded' = crowded \ {a}
      /\ br' = [br EXCEPT ![s] = NoAddr]
      /\ UNCHANGED <<accepted, sco, le, stayOn, overlooked, released,
                     dialing, sniffOff, exposed>>
  BY DEF BrDisconnected, power, calls
<1>2. s \in BrSlots /\ br[s] = a /\ a # NoAddr /\ s # 0
  BY BrOfFacts, LinksAssumption
<1>3. /\ br' \in [BrSlots -> Phones \cup {NoAddr}]
      /\ br'[s] = NoAddr
      /\ \A t \in BrSlots : t # s => br'[t] = br[t] /\ br[t] # a
  BY <1>1, <1>2 DEF LinkInv, TypeOK, BrTable
<1>4. /\ point' \in [Points -> Point]
      /\ \A j \in Points :
           IF point[j].br = s
             THEN /\ point[j].addr = a
                  /\ point'[j] = IF point[j].le = 0 THEN NoPoint
                                 ELSE [point[j] EXCEPT !.br = 0]
             ELSE point'[j] = point[j]
      /\ count' = BrRecount(point')
  BY BrRemoved
<1> HIDE DEF s
<1>5. \A j \in Points :
        /\ point[j] \in Point
        /\ point'[j].le = point[j].le
        /\ point'[j].addr # NoAddr => point'[j].addr = point[j].addr
        /\ point[j].le # 0 => point'[j].addr = point[j].addr
        /\ point'[j].br = IF point[j].br = s THEN 0 ELSE point[j].br
        /\ point[j].br # s => point'[j].addr = point[j].addr
  <2>1. \A j \in Points : point[j] \in Point
    BY DEF LinkInv, TypeOK
  <2> QED
    BY <1>2, <1>4, <2>1 DEF Point, NoPoint
<1>6. TypeOK'
  BY <1>1, <1>3, <1>4, RecountTypes DEF LinkInv, TypeOK
<1>7. BrTable'
  BY <1>1, <1>2, <1>3 DEF LinkInv, BrTable
<1>8. LeTable'
  BY <1>1 DEF LinkInv, LeTable
<1>9. PointsMatchLinks'
  <2>1. ASSUME NEW j \in Points
        PROVE  /\ point'[j].addr = NoAddr => point'[j] = NoPoint
               /\ point'[j].addr # NoAddr => point'[j].br # 0 \/ point'[j].le # 0
               /\ point'[j].br # 0 => br'[point'[j].br] = point'[j].addr
               /\ point'[j].le # 0 => le'[point'[j].le].addr = point'[j].addr
    <3>1. /\ point[j].addr = NoAddr => point[j] = NoPoint
          /\ point[j].addr # NoAddr => point[j].br # 0 \/ point[j].le # 0
          /\ point[j].br # 0 => br[point[j].br] = point[j].addr
          /\ point[j].le # 0 => le[point[j].le].addr = point[j].addr
      BY DEF LinkInv, PointsMatchLinks
    <3>2. CASE point[j].br = s
      BY <1>1, <1>2, <1>4, <1>5, <3>1, <3>2 DEF NoPoint
    <3>3. CASE point[j].br # s
      <4>1. point'[j] = point[j]
        BY <1>4, <3>3
      <4>2. point[j].br # 0 => point[j].br \in BrSlots
        BY <1>5, LinksAssumption DEF Point, BrSlots
      <4>3. point[j].br # 0 => br'[point[j].br] = br[point[j].br]
        BY <1>3, <3>3, <4>2
      <4> QED
        BY <1>1, <3>1, <4>1, <4>3
    <3> QED
      BY <3>2, <3>3
  <2>2. ASSUME NEW j \in Points, NEW k \in Points, point'[j].addr # NoAddr,
               point'[j].addr = point'[k].addr
        PROVE  j = k
    <3>1. \A x, y \in UsedIn(point) : point[x].addr = point[y].addr => x = y
      BY DEF LinkInv, PointsMatchLinks
    <3> QED
      BY <1>5, <2>2, <3>1 DEF UsedIn
  <2> QED
    BY <2>1, <2>2 DEF PointsMatchLinks, UsedIn
<1>10. LinksHavePoints'
  <2>1. ASSUME NEW t \in BrSlots, br'[t] \notin crowded' \cup {NoAddr}
        PROVE  \E j \in Points : point'[j].addr = br'[t] /\ point'[j].br = t
    <3>1. t # s
      BY <1>3, <2>1
    <3>2. br'[t] = br[t] /\ br[t] # a /\ br[t] \notin crowded \cup {NoAddr}
      BY <1>1, <1>3, <2>1, <3>1
    <3>3. PICK j \in Points : point[j].addr = br[t] /\ point[j].br = t
      BY <3>2 DEF LinkInv, LinksHavePoints
    <3> QED
      BY <1>4, <3>1, <3>2, <3>3
  <2>2. ASSUME NEW l \in LeSlots, le'[l].state = "authed"
        PROVE  \E j \in Points : point'[j].addr = le'[l].addr /\ point'[j].le = l
    <3>1. PICK j \in Points : point[j].addr = le[l].addr /\ point[j].le = l
      BY <1>1, <2>2 DEF LinkInv, LinksHavePoints
    <3> QED
      BY <1>1, <1>5, <3>1, LinksAssumption DEF LeSlots
  <2> QED
    BY <2>1, <2>2 DEF LinksHavePoints
<1>11. ScoIn(point', sco) = ScoIn(point, sco)
  <2>1. ASSUME NEW j \in Points
        PROVE  j \in ScoIn(point', sco) <=> j \in ScoIn(point, sco)
    BY <1>1, <1>5 DEF ScoIn, BrIn, UsedIn
  <2> QED
    BY <2>1, PointSets
<1>12. LeIn(point') = LeIn(point) /\ LeaIn(point', le) = LeaIn(point, le)
  <2>1. ASSUME NEW j \in Points PROVE j \in LeIn(point') <=> j \in LeIn(point)
    <3>1. point[j].addr = NoAddr => point[j].le = 0
      BY DEF LinkInv, PointsMatchLinks, NoPoint
    <3> QED
      BY <1>5, <3>1 DEF LeIn, UsedIn
  <2>2. LeIn(point') = LeIn(point)
    BY <2>1, PointSets
  <2>3. \A j \in LeIn(point) : point'[j].le = point[j].le
    BY <1>5, PointSets
  <2> QED
    BY <2>2, <2>3 DEF LeaIn
<1>13. CountsExact'
  BY <1>1, <1>4, <1>11, <1>12 DEF LinkInv, TypeOK, CountsExact, BrRecount
<1>14. Holds'
  <2>1. CallHoldsSniff'
    <3> SUFFICES ASSUME NEW j \in ScoIn(point', sco), point'[j].addr \notin exposed
                 PROVE  sniffOff
      BY <1>1 DEF CallHoldsSniff
    <3>1. j \in ScoIn(point, sco) /\ j \in Points /\ point'[j].addr = point[j].addr
      BY <1>1, <1>5, <1>11, PointSets DEF ScoIn, BrIn, UsedIn
    <3> QED
      BY <3>1 DEF LinkInv, Holds, CallHoldsSniff
  <2> QED
    BY <1>1, <2>1 DEF LinkInv, Holds, PowerHeld, SniffFreed, DialingHolds, ConnectedHolds
<1> QED
  BY <1>6, <1>7, <1>8, <1>9, <1>10, <1>13, <1>14 DEF LinkInv

LEMMA BrUntrackedEnds ==
  ASSUME LinkInv, NEW a \in Phones, BrDisconnected(a), BrOf(a) = 0
  PROVE  LinkInv'
<1>1. /\ a \in up /\ a \notin dialing
      /\ up' = up \ {a} /\ crowded' = crowded \ {a}
      /\ UNCHANGED <<br, point, count>>
      /\ UNCHANGED <<accepted, sco, le, stayOn, overlooked, released,
                     dialing, sniffOff, exposed>>
  BY DEF BrDisconnected, power, calls
<1>2. \A s \in BrSlots : br[s] # a
  BY BrOfFacts
<1>3. TypeOK'
  BY <1>1 DEF LinkInv, TypeOK
<1>4. BrTable' /\ LeTable'
  BY <1>1, <1>2 DEF LinkInv, BrTable, LeTable
<1>5. PointsMatchLinks' /\ LinksHavePoints'
  BY <1>1, <1>2 DEF LinkInv, PointsMatchLinks, LinksHavePoints, UsedIn
<1>6. CountsExact'
  BY <1>1 DEF LinkInv, CountsExact, UsedIn, BrIn, ScoIn, LeIn, LeaIn
<1>7. Holds'
  BY <1>1 DEF LinkInv, Holds, PowerHeld, CallHoldsSniff, SniffFreed, DialingHolds,
     ConnectedHolds, ScoIn, BrIn, UsedIn
<1> QED
  BY <1>3, <1>4, <1>5, <1>6, <1>7 DEF LinkInv


-----------------------------------------------------------------------------
(* Calls *)

\* Steps that change nothing but the calls keep what is not about them.
LEMMA CallsOnly ==
  ASSUME LinkInv, UNCHANGED <<acl, br, le, point, power, crowded>>,
         sco' \subseteq BrSlots, \A s \in sco' : br[s] # NoAddr,
         dialing' \subseteq up, exposed' \subseteq Phones, sniffOff' \in BOOLEAN,
         \/ count' = count /\ sco' = sco
         \/ count' = ScoRecount(sco'),
         CallHoldsSniff', SniffFreed', DialingHolds'
  PROVE  LinkInv'
<1> USE DEF acl, power
<1>1. count' \in [num : 0 .. MaxPoints, br : 0 .. MaxPoints, sco : 0 .. MaxPoints,
                  le : 0 .. MaxPoints, lea : 0 .. MaxPoints]
  BY RecountTypes DEF LinkInv, TypeOK
<1>2. TypeOK'
  BY <1>1 DEF LinkInv, TypeOK
<1>3. BrTable' /\ LeTable'
  BY DEF LinkInv, BrTable, LeTable
<1>4. PointsMatchLinks' /\ LinksHavePoints'
  BY DEF LinkInv, PointsMatchLinks, LinksHavePoints, UsedIn
<1>5. CountsExact'
  <2>1. /\ UsedIn(point') = UsedIn(point) /\ BrIn(point') = BrIn(point)
        /\ LeIn(point') = LeIn(point) /\ LeaIn(point', le') = LeaIn(point, le)
    BY DEF UsedIn, BrIn, LeIn, LeaIn
  <2>2. count'.sco = Cardinality(ScoIn(point', sco'))
    <3>1. ScoIn(point', sco') = ScoIn(point, sco')
      BY DEF ScoIn, BrIn, UsedIn
    <3> QED
      BY <3>1 DEF LinkInv, TypeOK, CountsExact, ScoRecount
  <2>3. /\ count'.num = count.num /\ count'.br = count.br
        /\ count'.le = count.le /\ count'.lea = count.lea
    BY DEF LinkInv, TypeOK, ScoRecount
  <2> QED
    BY <2>1, <2>2, <2>3 DEF LinkInv, CountsExact
<1>6. Holds'
  BY DEF LinkInv, Holds, PowerHeld, ConnectedHolds
<1> QED
  BY <1>2, <1>3, <1>4, <1>5, <1>6 DEF LinkInv

\* The counters tell when no call of a phone with a point is left.
LEMMA NoCallsLeftFacts ==
  ASSUME LinkInv, NEW talking \in SUBSET BrSlots
  PROVE  /\ NoCallsLeft(ScoRecount(talking)) => ScoIn(point, talking) = {}
         /\ ~NoCallsLeft(ScoRecount(talking)) => talking # {}
         /\ NoCallsLeft(count) => ScoIn(point, sco) = {}
         /\ ~NoCallsLeft(count) => sco # {}
<1>1. ScoRecount(talking).sco = Cardinality(ScoIn(point, talking))
  BY DEF ScoRecount, LinkInv, TypeOK
<1>2. count.sco = Cardinality(ScoIn(point, sco))
  BY DEF LinkInv, CountsExact
<1>3. ASSUME NEW T \in SUBSET BrSlots
      PROVE  /\ Cardinality(ScoIn(point, T)) = 0 => ScoIn(point, T) = {}
             /\ Cardinality(ScoIn(point, T)) # 0 => T # {}
  <2>1. T = {} => ScoIn(point, T) = {}
    BY DEF ScoIn
  <2>2. Cardinality({}) = 0
    BY FS_EmptySet
  <2> QED
    BY <2>1, <2>2, PointSets, SizeFacts
<1> QED
  BY <1>1, <1>2, <1>3 DEF NoCallsLeft, LinkInv, TypeOK

LEMMA ScoRingsInv ==
  ASSUME LinkInv, NEW a \in Phones, ScoConnInd(a) \/ ScoConnRsp(a)
  PROVE  LinkInv'
<1>1. /\ UNCHANGED <<acl, br, le, point, power, crowded, sco, count>>
      /\ sniffOff' = TRUE /\ exposed' = {}
      /\ dialing' \subseteq up /\ a \in dialing'
  BY DEF ScoConnInd, ScoConnRsp, DisableSniff, LinkInv, BrTable
<1>2. CallHoldsSniff' /\ SniffFreed' /\ DialingHolds'
  BY <1>1 DEF CallHoldsSniff, SniffFreed, DialingHolds
<1> QED
  BY <1>1, <1>2, CallsOnly DEF LinkInv, TypeOK, BrTable

\* A call that ends, fails or is not known frees the links only when the counters
\* show no other, and what is not counted is a call still being set up.
LEMMA ScoEndsInv ==
  ASSUME LinkInv, NEW a \in Phones, NEW talking \in SUBSET sco, NEW c,
         UNCHANGED <<acl, br, le, point, power, crowded>>,
         sco' = talking, count' = c, dialing' \subseteq dialing,
         EnableSniffIfQuiet(c),
         \/ c = count /\ talking = sco
         \/ c = ScoRecount(talking)
  PROVE  LinkInv'
<1>0. talking \in SUBSET BrSlots
  BY DEF LinkInv, TypeOK
<1>1. /\ NoCallsLeft(c) => ScoIn(point, talking) = {}
      /\ ~NoCallsLeft(c) => talking # {}
  BY <1>0, NoCallsLeftFacts
<1>2. ScoIn(point', sco') = ScoIn(point, talking) /\ ScoIn(point, talking) \subseteq ScoIn(point, sco)
  BY DEF ScoIn, BrIn, UsedIn
<1>3. CASE NoCallsLeft(c)
  <2>1. sniffOff' = FALSE /\ exposed' = dialing'
    BY <1>3 DEF EnableSniffIfQuiet
  <2>2. CallHoldsSniff' /\ SniffFreed' /\ DialingHolds'
    BY <1>1, <1>2, <1>3, <2>1 DEF CallHoldsSniff, SniffFreed, DialingHolds
  <2> QED
    BY <1>0, <2>1, <2>2, CallsOnly DEF LinkInv, TypeOK, BrTable
<1>4. CASE ~NoCallsLeft(c)
  <2>1. sniffOff' = sniffOff /\ exposed' = exposed
    BY <1>4 DEF EnableSniffIfQuiet
  <2>2. CallHoldsSniff' /\ SniffFreed' /\ DialingHolds'
    BY <1>1, <1>2, <1>4, <2>1 DEF LinkInv, Holds, CallHoldsSniff, SniffFreed, DialingHolds
  <2> QED
    BY <1>0, <2>1, <2>2, CallsOnly DEF LinkInv, TypeOK, BrTable
<1> QED
  BY <1>3, <1>4

LEMMA ScoConnectedInv ==
  ASSUME LinkInv, NEW a \in Phones, ScoConnected(a), BrOf(a) # 0
  PROVE  LinkInv'
<1> DEFINE s == BrOf(a)
<1>1. /\ a \in dialing /\ dialing' = dialing \ {a}
      /\ sco' = sco \cup {s} /\ count' = ScoRecount(sco')
      /\ UNCHANGED <<acl, br, le, point, power, crowded, sniffOff, exposed>>
  BY DEF ScoConnected
<1>2. s \in BrSlots /\ br[s] = a /\ a # NoAddr
  BY BrOfFacts, LinksAssumption
<1> HIDE DEF s
<1>3. CallHoldsSniff'
  <2> SUFFICES ASSUME NEW j \in ScoIn(point', sco'), point'[j].addr \notin exposed'
               PROVE  sniffOff
    BY <1>1 DEF CallHoldsSniff
  <2>1. /\ j \in BrIn(point) /\ j \in Points /\ point[j].addr \notin exposed
        /\ point[j].br \in sco \cup {s} /\ point[j].br # 0
    BY <1>1 DEF ScoIn, BrIn, UsedIn
  <2>2. CASE point[j].br \in sco
    BY <2>1, <2>2 DEF LinkInv, Holds, CallHoldsSniff, ScoIn
  <2>3. CASE point[j].br = s
    <3>1. point[j].addr = a
      BY <1>2, <2>1, <2>3 DEF LinkInv, PointsMatchLinks
    <3> QED
      BY <1>1, <2>1, <3>1 DEF LinkInv, Holds, DialingHolds
  <2> QED
    BY <2>1, <2>2, <2>3
<1>4. SniffFreed' /\ DialingHolds'
  BY <1>1 DEF LinkInv, Holds, SniffFreed, DialingHolds
<1>5. /\ sco' \subseteq BrSlots /\ \A t \in sco' : br[t] # NoAddr
      /\ dialing' \subseteq up /\ exposed' \subseteq Phones /\ sniffOff' \in BOOLEAN
  BY <1>1, <1>2 DEF LinkInv, TypeOK, BrTable
<1> QED
  BY <1>1, <1>3, <1>4, <1>5, CallsOnly

LEMMA ScoSteps ==
  ASSUME LinkInv, NEW a \in Phones,
         \/ ScoConnInd(a) \/ ScoConnRsp(a) \/ ScoConnected(a)
         \/ ScoFailed(a) \/ ScoDisconnected(a)
  PROVE  LinkInv'
<1>1. CASE ScoConnInd(a) \/ ScoConnRsp(a)
  BY <1>1, ScoRingsInv
<1>2. CASE ScoConnected(a) /\ BrOf(a) # 0
  BY <1>2, ScoConnectedInv
<1>3. CASE ScoConnected(a) /\ BrOf(a) = 0
  BY <1>3, ScoEndsInv DEF ScoConnected
<1>4. CASE ScoFailed(a)
  BY <1>4, ScoEndsInv DEF ScoFailed
<1>5. CASE ScoDisconnected(a)
  BY <1>5, ScoEndsInv DEF ScoDisconnected
<1> QED
  BY <1>1, <1>2, <1>3, <1>4, <1>5


-----------------------------------------------------------------------------
(* LE links *)

\* Steps that change LE entries but no address, phone or way in, and count LE
\* audio again at most.
LEMMA LeOnly ==
  ASSUME LinkInv, UNCHANGED <<acl, br, sco, point, calls, crowded>>,
         le' \in [LeSlots -> LeLink], LeTable', PowerHeld', ConnectedHolds',
         stayOn' \in BOOLEAN, overlooked' \subseteq LeSlots, released' \subseteq LeSlots,
         \A i \in Points : point[i].le # 0 => le'[point[i].le].addr = le[point[i].le].addr,
         \A l \in LeSlots :
           le'[l].state = "authed" => le[l].state = "authed" /\ le'[l].addr = le[l].addr,
         \/ count' = LeaRecount(le')
         \/ /\ count' = count
            /\ \A i \in Points : point[i].le # 0 => le'[point[i].le].lea = le[point[i].le].lea
  PROVE  LinkInv'
<1> USE DEF acl, calls
<1>1. count' \in [num : 0 .. MaxPoints, br : 0 .. MaxPoints, sco : 0 .. MaxPoints,
                  le : 0 .. MaxPoints, lea : 0 .. MaxPoints]
  <2>1. LeaRecount(le') \in [num : 0 .. MaxPoints, br : 0 .. MaxPoints,
                            sco : 0 .. MaxPoints, le : 0 .. MaxPoints,
                            lea : 0 .. MaxPoints]
    BY RecountTypes DEF LinkInv
  <2> QED
    BY <2>1 DEF LinkInv, TypeOK
<1>2. TypeOK'
  BY <1>1 DEF LinkInv, TypeOK
<1>3. BrTable'
  BY DEF LinkInv, BrTable
<1>4. PointsMatchLinks'
  BY DEF LinkInv, PointsMatchLinks, UsedIn
<1>5. LinksHavePoints'
  <2>1. \A s \in BrSlots :
          br'[s] \notin crowded' \cup {NoAddr} =>
            \E i \in Points : point'[i].addr = br'[s] /\ point'[i].br = s
    BY DEF LinkInv, LinksHavePoints
  <2>2. \A l \in LeSlots :
          le'[l].state = "authed" =>
            \E i \in Points : point'[i].addr = le'[l].addr /\ point'[i].le = l
    BY DEF LinkInv, LinksHavePoints
  <2> QED
    BY <2>1, <2>2 DEF LinksHavePoints
<1>6. CountsExact'
  <2>1. /\ UsedIn(point') = UsedIn(point) /\ BrIn(point') = BrIn(point)
        /\ LeIn(point') = LeIn(point) /\ ScoIn(point', sco') = ScoIn(point, sco)
    BY DEF UsedIn, BrIn, LeIn, ScoIn
  <2>2. count'.lea = Cardinality(LeaIn(point', le'))
    <3>1. CASE count' = LeaRecount(le')
      <4>1. LeaIn(point', le') = LeaIn(point, le')
        BY DEF LeaIn, LeIn, UsedIn
      <4> QED
        BY <3>1, <4>1 DEF LinkInv, TypeOK, LeaRecount
    <3>2. CASE /\ count' = count
               /\ \A i \in Points :
                    point[i].le # 0 => le'[point[i].le].lea = le[point[i].le].lea
      <4>1. LeaIn(point', le') = LeaIn(point, le)
        BY <3>2 DEF LeaIn, LeIn, UsedIn
      <4> QED
        BY <3>2, <4>1 DEF LinkInv, CountsExact
    <3> QED
      BY <3>1, <3>2
  <2>3. /\ count'.num = count.num /\ count'.br = count.br
        /\ count'.le = count.le /\ count'.sco = count.sco
    BY DEF LinkInv, TypeOK, LeaRecount
  <2> QED
    BY <2>1, <2>2, <2>3 DEF LinkInv, CountsExact
<1>7. Holds'
  BY DEF LinkInv, Holds, CallHoldsSniff, SniffFreed, DialingHolds, ScoIn, BrIn, UsedIn
<1> QED
  BY <1>2, <1>3, <1>4, <1>5, <1>6, <1>7 DEF LinkInv

\* An entry in use by a point has an address, so it is neither free nor new.
LEMMA PointedAt ==
  ASSUME LinkInv, NEW i \in Points, point[i].le # 0
  PROVE  /\ point[i].le \in LeSlots
         /\ le[point[i].le].addr # NoAddr
         /\ le[point[i].le].state \in {"authed", "closing"}
<1>1. point[i].le \in LeSlots
  BY LinksAssumption DEF LinkInv, TypeOK, Point, LeSlots
<1>2. le[point[i].le].addr = point[i].addr /\ point[i].addr # NoAddr
  BY DEF LinkInv, PointsMatchLinks, NoPoint
<1> QED
  BY <1>1, <1>2 DEF LinkInv, TypeOK, LeTable, LeLink, NoLe

LEMMA LeConnectingInv ==
  ASSUME LinkInv, NEW a \in Phones, LeConnecting(a)
  PROVE  LinkInv'
<1> DEFINE f == FreeLe
<1>1. f \in LeSlots /\ le[f].state = "free" /\ le[f] = NoLe
  BY FreeLeFacts DEF LeConnecting, LinkInv, LeTable
<1>2. /\ UNCHANGED <<acl, br, sco, point, count, power, calls, crowded>>
      /\ \A l \in LeSlots : le[l].phone # a
      /\ le' = [le EXCEPT ![f] = [NoLe EXCEPT !.phone = a, !.state = "connecting"]]
  BY DEF LeConnecting
<1> HIDE DEF f
<1>3. /\ le' \in [LeSlots -> LeLink]
      /\ le'[f] = [phone |-> a, addr |-> NoAddr, state |-> "connecting", lea |-> FALSE]
      /\ \A l \in LeSlots : l # f => le'[l] = le[l]
  BY <1>1, <1>2 DEF LinkInv, TypeOK, LeLink, NoLe
<1>4. LeTable'
  <2>1. \A l \in LeSlots :
          /\ le'[l].state = "free" => le'[l] = NoLe
          /\ le'[l].state # "free" => le'[l].phone \in Phones
          /\ le'[l].addr \in {NoAddr, le'[l].phone}
          /\ le'[l].state = "connecting" => le'[l].addr = NoAddr /\ ~le'[l].lea
          /\ le'[l].state = "connected" => le'[l].addr = NoAddr
          /\ le'[l].state = "authed" => le'[l].addr = le'[l].phone
    BY <1>3 DEF LinkInv, LeTable
  <2>2. ASSUME NEW l \in LeSlots, NEW k \in LeSlots,
               le'[l].phone = le'[k].phone, le'[l].phone # NoAddr
        PROVE  l = k
    <3>1. l # f /\ k # f => l = k
      BY <1>3, <2>2 DEF LinkInv, LeTable
    <3>2. \A m \in LeSlots : m # f => le'[m].phone # le'[f].phone
      BY <1>2, <1>3
    <3> QED
      BY <2>2, <3>1, <3>2
  <2> QED
    BY <2>1, <2>2 DEF LeTable
<1>5. PowerHeld' /\ ConnectedHolds'
  BY <1>2, <1>3 DEF LinkInv, Holds, PowerHeld, ConnectedHolds, power
<1>6. \A i \in Points : point[i].le # 0 => le'[point[i].le] = le[point[i].le]
  BY <1>1, <1>3, PointedAt
<1>7. \A l \in LeSlots :
        le'[l].state = "authed" => le[l].state = "authed" /\ le'[l].addr = le[l].addr
  BY <1>3
<1> QED
  BY <1>2, <1>3, <1>4, <1>5, <1>6, <1>7, LeOnly DEF LinkInv, TypeOK, power

LEMMA LeConnectedInv ==
  ASSUME LinkInv, NEW l \in LeSlots, LeConnected(l)
  PROVE  LinkInv'
<1>1. /\ UNCHANGED <<acl, br, sco, point, count, calls, crowded>>
      /\ le[l].state = "connecting" /\ stayOn' = TRUE
      /\ overlooked' = {} /\ released' = {}
      /\ le' = [le EXCEPT ![l].state = "connected"]
  BY DEF LeConnected
<1>2. /\ le' \in [LeSlots -> LeLink]
      /\ le'[l] = [le[l] EXCEPT !.state = "connected"]
      /\ \A k \in LeSlots : k # l => le'[k] = le[k]
  BY <1>1 DEF LinkInv, TypeOK, LeLink
<1>3. /\ le'[l].phone = le[l].phone /\ le'[l].addr = le[l].addr
      /\ le'[l].state = "connected" /\ le'[l].lea = le[l].lea
  BY <1>2 DEF LinkInv, TypeOK, LeLink
<1>4. LeTable'
  BY <1>1, <1>2, <1>3 DEF LinkInv, LeTable
<1>5. PowerHeld' /\ ConnectedHolds'
  BY <1>1 DEF PowerHeld, ConnectedHolds
<1>6. \A i \in Points : point[i].le # 0 => le'[point[i].le] = le[point[i].le]
  BY <1>1, <1>2, PointedAt
<1>7. \A k \in LeSlots :
        le'[k].state = "authed" => le[k].state = "authed" /\ le'[k].addr = le[k].addr
  BY <1>2, <1>3
<1> QED
  BY <1>1, <1>2, <1>4, <1>5, <1>6, <1>7, LeOnly

LEMMA LeaConnectInv ==
  ASSUME LinkInv, NEW l \in LeSlots, LeaConnect(l)
  PROVE  LinkInv'
<1>1. /\ UNCHANGED <<acl, br, sco, point, power, calls, crowded>>
      /\ le[l].state \in {"connected", "authed", "closing"}
      /\ le' = [le EXCEPT ![l].lea = TRUE]
      /\ count' = LeaRecount(le')
  BY DEF LeaConnect
<1>2. /\ le' \in [LeSlots -> LeLink]
      /\ \A k \in LeSlots : k # l => le'[k] = le[k]
      /\ le'[l].phone = le[l].phone /\ le'[l].addr = le[l].addr
      /\ le'[l].state = le[l].state /\ le'[l].lea = TRUE
  BY <1>1 DEF LinkInv, TypeOK, LeLink
<1>3. \A k \in LeSlots :
        /\ le'[k].phone = le[k].phone /\ le'[k].addr = le[k].addr
        /\ le'[k].state = le[k].state /\ (k # l => le'[k] = le[k])
        /\ ~le'[k].lea => ~le[k].lea
  BY <1>2
<1>4. LeTable'
  <2>1. le'[l].state \notin {"free", "connecting"}
    BY <1>1, <1>2
  <2> QED
    BY <1>3, <2>1 DEF LinkInv, LeTable
<1>5. PowerHeld' /\ ConnectedHolds'
  BY <1>1, <1>3 DEF LinkInv, Holds, PowerHeld, ConnectedHolds, power
<1>6. \A i \in Points : point[i].le # 0 => le'[point[i].le].addr = le[point[i].le].addr
  BY <1>3, PointedAt
<1> QED
  BY <1>1, <1>2, <1>3, <1>4, <1>5, <1>6, LeOnly DEF LinkInv, TypeOK, power

LEMMA MtcShutdownInv ==
  ASSUME LinkInv, MtcShutdown
  PROVE  LinkInv'
<1>1. /\ UNCHANGED <<acl, br, sco, point, calls, crowded>>
      /\ le' = [l \in LeSlots |->
                  IF le[l].lea THEN [le[l] EXCEPT !.lea = FALSE, !.state = "closing"]
                  ELSE le[l]]
      /\ count' = LeaRecount(le') /\ stayOn' = FALSE
      /\ released' = {l \in LeSlots : le'[l].state \in {"connected", "authed"}}
      /\ overlooked' = overlooked
  BY DEF MtcShutdown
<1>2. \A l \in LeSlots :
        /\ le'[l] \in LeLink
        /\ le'[l].phone = le[l].phone /\ le'[l].addr = le[l].addr
        /\ le[l].lea => le'[l].state = "closing" /\ le'[l].lea = FALSE
        /\ ~le[l].lea => le'[l] = le[l]
  BY <1>1 DEF LinkInv, TypeOK, LeLink
<1>3. le' \in [LeSlots -> LeLink]
  BY <1>1, <1>2
<1>4. LeTable'
  <2>1. \A l \in LeSlots : le[l].lea => le[l].state # "free"
    BY DEF LinkInv, LeTable, NoLe
  <2> QED
    BY <1>2, <2>1 DEF LinkInv, LeTable
<1>5. PowerHeld' /\ ConnectedHolds'
  BY <1>1 DEF PowerHeld, ConnectedHolds
<1>6. \A i \in Points : point[i].le # 0 => le'[point[i].le].addr = le[point[i].le].addr
  BY <1>2, PointedAt
<1>7. \A k \in LeSlots :
        le'[k].state = "authed" => le[k].state = "authed" /\ le'[k].addr = le[k].addr
  BY <1>2
<1>8. stayOn' \in BOOLEAN /\ overlooked' \subseteq LeSlots /\ released' \subseteq LeSlots
  BY <1>1 DEF LinkInv, TypeOK
<1> QED
  BY <1>1, <1>3, <1>4, <1>5, <1>6, <1>7, <1>8, LeOnly


LEMMA LeAuthenticatedInv ==
  ASSUME LinkInv, NEW l \in LeSlots, LeAuthenticated(l)
  PROVE  LinkInv'
<1> DEFINE a == le[l].phone
           i == Place(a)
<1>1. /\ le[l].state = "connected"
      /\ le' = [le EXCEPT ![l].addr = a,
                          ![l].state = IF Permitted(a) THEN "authed" ELSE "closing"]
      /\ point' = InsertLe(a, l)
      /\ count' = LeRecount(point', le')
      /\ UNCHANGED <<up, accepted, br, sco, stayOn, overlooked, released,
                     dialing, sniffOff, exposed, crowded>>
  BY DEF LeAuthenticated, acl, power, calls
<1>2. a \in Phones /\ a # NoAddr /\ le[l].addr = NoAddr /\ l # 0
  BY <1>1, LinksAssumption DEF LinkInv, LeTable, LeSlots
<1>3. /\ le' \in [LeSlots -> LeLink]
      /\ \A k \in LeSlots : k # l => le'[k] = le[k]
      /\ le'[l].addr = a /\ le'[l].phone = a /\ le'[l].lea = le[l].lea
      /\ le'[l].state = IF Permitted(a) THEN "authed" ELSE "closing"
  BY <1>1, <1>2 DEF LinkInv, TypeOK, LeLink
<1>4. /\ point' \in [Points -> Point]
      /\ \A j \in Points : j # i => point'[j] = point[j] /\ point[j].addr # a
      /\ Permitted(a) => /\ i \in Points
                         /\ point'[i].addr = a /\ point'[i].le = l
                         /\ point'[i].br = point[i].br
                         /\ point[i].addr = a \/ point[i] = NoPoint
      /\ ~Permitted(a) => point' = point /\ i \notin Points
  <2>1. point \in [Points -> Point] /\ l \in 0 .. MaxLe /\ 0 \notin Points
    BY LinksAssumption DEF LinkInv, TypeOK, LeSlots, Points
  <2>2. /\ Permitted(a) => i \in Points /\ (point[i].addr = a \/ point[i] = NoPoint)
        /\ ~Permitted(a) => i = 0
        /\ \A j \in Points : point[j].addr = a => j = i
    BY <1>2, PlaceFacts
  <2>3. point' = IF i = 0 THEN point
                 ELSE [point EXCEPT ![i] = [addr |-> a, br |-> @.br, le |-> l]]
    BY <1>1 DEF InsertLe
  <2> HIDE DEF i, a
  <2> QED
    BY <1>2, <2>1, <2>2, <2>3 DEF Point
<1> HIDE DEF i, a
<1>5. \A j \in Points :
        /\ point'[j].br = point[j].br
        /\ point[j].addr # NoAddr => point'[j].addr = point[j].addr
        /\ point[j].br # 0 => point[j].addr # NoAddr
  BY <1>4 DEF LinkInv, PointsMatchLinks, NoPoint
<1>6. LeTable'
  <2>1. \A k \in LeSlots :
          /\ le'[k].state = "free" => le'[k] = NoLe
          /\ le'[k].state # "free" => le'[k].phone \in Phones
          /\ le'[k].addr \in {NoAddr, le'[k].phone}
          /\ le'[k].state = "connecting" => le'[k].addr = NoAddr /\ ~le'[k].lea
          /\ le'[k].state = "connected" => le'[k].addr = NoAddr
          /\ le'[k].state = "authed" => le'[k].addr = le'[k].phone
    BY <1>2, <1>3 DEF LinkInv, LeTable
  <2>2. \A k \in LeSlots : le'[k].phone = le[k].phone
    BY <1>3 DEF a
  <2> QED
    BY <2>1, <2>2 DEF LinkInv, LeTable
<1>7. TypeOK'
  <2>1. count' \in [num : 0 .. MaxPoints, br : 0 .. MaxPoints, sco : 0 .. MaxPoints,
                    le : 0 .. MaxPoints, lea : 0 .. MaxPoints]
    BY <1>1, RecountTypes DEF LinkInv
  <2> QED
    BY <1>1, <1>3, <1>4, <2>1 DEF LinkInv, TypeOK
<1>8. BrTable'
  BY <1>1 DEF LinkInv, BrTable
<1>9. PointsMatchLinks'
  <2>1. ASSUME NEW j \in Points
        PROVE  /\ point'[j].addr = NoAddr => point'[j] = NoPoint
               /\ point'[j].addr # NoAddr => point'[j].br # 0 \/ point'[j].le # 0
               /\ point'[j].br # 0 => br'[point'[j].br] = point'[j].addr
               /\ point'[j].le # 0 => le'[point'[j].le].addr = point'[j].addr
    <3>1. /\ point[j].addr = NoAddr => point[j] = NoPoint
          /\ point[j].addr # NoAddr => point[j].br # 0 \/ point[j].le # 0
          /\ point[j].br # 0 => br[point[j].br] = point[j].addr
          /\ point[j].le # 0 => le[point[j].le].addr = point[j].addr
      BY DEF LinkInv, PointsMatchLinks
    <3>2. CASE j = i /\ Permitted(a)
      <4>1. point'[j].addr = a /\ point'[j].le = l /\ point'[j].br = point[j].br
        BY <1>4, <3>2
      <4>2. point[j].br # 0 => point[j].addr = a
        BY <1>4, <3>2 DEF NoPoint
      <4> QED
        BY <1>1, <1>2, <1>3, <3>1, <4>1, <4>2
    <3>3. CASE ~(j = i /\ Permitted(a))
      <4>1. point'[j] = point[j]
        BY <1>4, <3>3
      <4>2. point[j].le # 0 => point[j].le \in LeSlots /\ point[j].le # l
        BY <1>1, PointedAt
      <4> QED
        BY <1>1, <1>3, <3>1, <4>1, <4>2
    <3> QED
      BY <3>2, <3>3
  <2>2. ASSUME NEW j \in Points, NEW k \in Points, point'[j].addr # NoAddr,
               point'[j].addr = point'[k].addr
        PROVE  j = k
    <3>1. \A x, y \in UsedIn(point) : point[x].addr = point[y].addr => x = y
      BY DEF LinkInv, PointsMatchLinks
    <3> QED
      BY <1>4, <2>2, <3>1 DEF UsedIn
  <2> QED
    BY <2>1, <2>2 DEF PointsMatchLinks, UsedIn
<1>10. LinksHavePoints'
  <2>1. ASSUME NEW t \in BrSlots, br'[t] \notin crowded' \cup {NoAddr}
        PROVE  \E j \in Points : point'[j].addr = br'[t] /\ point'[j].br = t
    <3>1. PICK j \in Points : point[j].addr = br[t] /\ point[j].br = t
      BY <1>1, <2>1 DEF LinkInv, LinksHavePoints
    <3> QED
      BY <1>1, <1>5, <2>1, <3>1
  <2>2. ASSUME NEW k \in LeSlots, le'[k].state = "authed"
        PROVE  \E j \in Points : point'[j].addr = le'[k].addr /\ point'[j].le = k
    <3>1. CASE k = l
      BY <1>3, <1>4, <2>2, <3>1
    <3>2. CASE k # l
      <4>1. le'[k] = le[k] /\ le[k].state = "authed"
        BY <1>3, <2>2, <3>2
      <4>2. le[k].addr = le[k].phone /\ le[k].addr # NoAddr
        BY <4>1, LinksAssumption DEF LinkInv, LeTable
      <4>3. le[k].addr # a
        BY <1>2, <3>2, <4>2 DEF LinkInv, LeTable, a
      <4>4. PICK j \in Points : point[j].addr = le[k].addr /\ point[j].le = k
        BY <4>1 DEF LinkInv, LinksHavePoints
      <4>5. point'[j] = point[j]
        BY <1>4, <4>2, <4>3, <4>4 DEF NoPoint
      <4> QED
        BY <4>1, <4>4, <4>5
    <3> QED
      BY <3>1, <3>2
  <2> QED
    BY <2>1, <2>2 DEF LinksHavePoints
<1>11. BrIn(point') = BrIn(point) /\ ScoIn(point', sco) = ScoIn(point, sco)
  <2>1. ASSUME NEW j \in Points PROVE j \in BrIn(point') <=> j \in BrIn(point)
    <3>1. point[j].addr # NoAddr => point'[j].addr # NoAddr
      BY <1>5
    <3> QED
      BY <1>5, <3>1 DEF BrIn, UsedIn
  <2>2. BrIn(point') = BrIn(point)
    BY <2>1, PointSets
  <2>3. \A j \in BrIn(point) : point'[j].br = point[j].br
    BY <1>5, PointSets
  <2> QED
    BY <2>2, <2>3 DEF ScoIn
<1>12. CountsExact'
  BY <1>1, <1>11 DEF LinkInv, TypeOK, CountsExact, LeRecount
<1>13. Holds'
  <2>1. CallHoldsSniff'
    <3> SUFFICES ASSUME NEW j \in ScoIn(point', sco), point'[j].addr \notin exposed
                 PROVE  sniffOff
      BY <1>1 DEF CallHoldsSniff
    <3>1. j \in ScoIn(point, sco) /\ j \in Points /\ point'[j].addr = point[j].addr
      BY <1>5, <1>11, PointSets DEF ScoIn, BrIn, UsedIn
    <3> QED
      BY <3>1 DEF LinkInv, Holds, CallHoldsSniff
  <2>2. PowerHeld' /\ ConnectedHolds'
    BY <1>1, <1>3 DEF LinkInv, Holds, PowerHeld, ConnectedHolds
  <2> QED
    BY <1>1, <2>1, <2>2 DEF LinkInv, Holds, SniffFreed, DialingHolds
<1> QED
  BY <1>6, <1>7, <1>8, <1>9, <1>10, <1>12, <1>13 DEF LinkInv

\* The point of an LE link that ends, and no other, loses it.
LEMMA LeRemoved ==
  ASSUME LinkInv, NEW l \in LeSlots
  PROVE  LET pts == RemoveLe(le[l].addr)
         IN  /\ pts \in [Points -> Point]
             /\ \A j \in Points :
                  IF point[j].le = l
                    THEN /\ point[j].addr = le[l].addr
                         /\ pts[j] = IF point[j].br = 0 THEN NoPoint
                                     ELSE [point[j] EXCEPT !.le = 0]
                    ELSE pts[j] = point[j]
<1> DEFINE a == le[l].addr
           pts == RemoveLe(a)
<1>1. point \in [Points -> Point] /\ l # 0
  BY LinksAssumption DEF LinkInv, TypeOK, LeSlots
<1>2. \A j \in Points : point[j].le # 0 =>
        point[j].le \in LeSlots /\ le[point[j].le].addr = point[j].addr /\ point[j].addr # NoAddr
  BY PointedAt DEF LinkInv, PointsMatchLinks
<1>3. \A j \in Points : point[j].addr = NoAddr => point[j] = NoPoint
  BY DEF LinkInv, PointsMatchLinks
<1>4. \A j \in Points : point[j].addr # NoAddr => point[j].br # 0 \/ point[j].le # 0
  BY DEF LinkInv, PointsMatchLinks
<1>5. CASE PointOf(a) = 0
  <2>1. pts = point
    BY <1>5 DEF RemoveLe
  <2>2. \A j \in Points : point[j].le # l
    BY <1>1, <1>2, <1>5, PointOfFacts
  <2> QED
    BY <1>1, <2>1, <2>2
<1>6. CASE PointOf(a) # 0
  <2> DEFINE p == PointOf(a)
  <2>1. p \in Points /\ point[p].addr = a /\ a # NoAddr
    BY <1>6, PointOfFacts
  <2>2. pts = [point EXCEPT ![p] = IF @.br = 0 THEN NoPoint ELSE [@ EXCEPT !.le = 0]]
    BY <1>6 DEF RemoveLe
  <2> HIDE DEF p, pts
  <2>3. pts \in [Points -> Point]
    BY <1>1, <2>1, <2>2, LinksAssumption DEF Point, NoPoint
  <2>4. point[p].le \in {0, l}
    <3> SUFFICES ASSUME point[p].le # 0 PROVE point[p].le = l
      OBVIOUS
    <3>1. point[p].le \in LeSlots /\ le[point[p].le].addr = a
      BY <1>2, <2>1
    <3>2. le[point[p].le].phone = le[l].phone /\ le[l].phone # NoAddr
      BY <2>1, <3>1 DEF LinkInv, LeTable
    <3> QED
      BY <3>1, <3>2 DEF LinkInv, LeTable
  <2>5. \A j \in Points : point[j].le = l => j = p
    BY <1>1, <1>2, <2>1 DEF LinkInv, PointsMatchLinks, UsedIn
  <2>6. \A j \in Points : j # p => pts[j] = point[j]
    BY <1>1, <2>1, <2>2
  <2>7. CASE point[p].le = l
    BY <1>1, <2>1, <2>2, <2>3, <2>5, <2>6, <2>7 DEF pts
  <2>8. CASE point[p].le = 0
    <3>1. point[p].br # 0
      BY <1>4, <2>1, <2>8
    <3>2. pts[p] = [point[p] EXCEPT !.le = 0]
      BY <1>1, <2>1, <2>2, <3>1
    <3>3. pts[p] = point[p]
      BY <1>1, <2>1, <2>8, <3>2 DEF Point
    <3> QED
      BY <1>1, <2>3, <2>5, <2>6, <2>8, <3>3 DEF pts
  <2> QED
    BY <2>4, <2>7, <2>8
<1> QED
  BY <1>5, <1>6


\* When the counters see LE audio links only, every link that was let in is one.
LEMMA OnlyAudioFacts ==
  ASSUME NEW pts \in [Points -> Point], NEW links,
         Cardinality(LeIn(pts)) = Cardinality(LeaIn(pts, links)),
         NEW j \in Points, pts[j].addr # NoAddr, pts[j].le # 0
  PROVE  links[pts[j].le].lea
<1>1. LeaIn(pts, links) \in SUBSET LeIn(pts) /\ IsFiniteSet(LeIn(pts))
  BY PointSets, SizeFacts DEF LeaIn
<1>2. LeIn(pts) = LeaIn(pts, links)
  BY <1>1, FS_Subset
<1>3. j \in LeIn(pts)
  BY DEF LeIn, UsedIn
<1> QED
  BY <1>2, <1>3 DEF LeaIn

LEMMA LeDisconnectedInv ==
  ASSUME LinkInv, NEW l \in LeSlots, LeDisconnected(l)
  PROVE  LinkInv'
<1>1. /\ le' = [le EXCEPT ![l] = NoLe]
      /\ point' = RemoveLe(le[l].addr)
      /\ count' = LeRecount(point', le')
      /\ UNCHANGED <<up, accepted, br, sco, dialing, sniffOff, exposed, crowded>>
  BY DEF LeDisconnected, acl, calls
<1>2. /\ le' \in [LeSlots -> LeLink]
      /\ le'[l] = NoLe
      /\ \A k \in LeSlots : k # l => le'[k] = le[k]
  BY <1>1 DEF LinkInv, TypeOK, LeLink, NoLe
<1>3. /\ point' \in [Points -> Point]
      /\ \A j \in Points :
           IF point[j].le = l
             THEN /\ point[j].addr = le[l].addr
                  /\ point'[j] = IF point[j].br = 0 THEN NoPoint
                                 ELSE [point[j] EXCEPT !.le = 0]
             ELSE point'[j] = point[j]
  BY <1>1, LeRemoved
<1>4. \A j \in Points : point[j] \in Point /\ l # 0
  BY LinksAssumption DEF LinkInv, TypeOK, LeSlots
<1>5. \A j \in Points :
        /\ point'[j].br = point[j].br
        /\ point'[j].addr # NoAddr => point'[j].addr = point[j].addr
        /\ point[j].br # 0 => point'[j].addr = point[j].addr
        /\ point'[j].le = IF point[j].le = l THEN 0 ELSE point[j].le
        /\ point[j].le # l => point'[j].addr = point[j].addr
  BY <1>3, <1>4 DEF Point, NoPoint
<1>6. LeTable'
  BY <1>2 DEF LinkInv, LeTable, NoLe
<1>7. TypeOK'
  <2>1. count' \in [num : 0 .. MaxPoints, br : 0 .. MaxPoints, sco : 0 .. MaxPoints,
                    le : 0 .. MaxPoints, lea : 0 .. MaxPoints]
    BY <1>1, RecountTypes DEF LinkInv
  <2>2. stayOn' \in BOOLEAN /\ overlooked' \subseteq LeSlots /\ released' \subseteq LeSlots
    BY DEF LeDisconnected, LinkInv, TypeOK
  <2> QED
    BY <1>1, <1>2, <1>3, <2>1, <2>2 DEF LinkInv, TypeOK
<1>8. BrTable'
  BY <1>1 DEF LinkInv, BrTable
<1>9. PointsMatchLinks'
  <2>1. ASSUME NEW j \in Points
        PROVE  /\ point'[j].addr = NoAddr => point'[j] = NoPoint
               /\ point'[j].addr # NoAddr => point'[j].br # 0 \/ point'[j].le # 0
               /\ point'[j].br # 0 => br'[point'[j].br] = point'[j].addr
               /\ point'[j].le # 0 => le'[point'[j].le].addr = point'[j].addr
    <3>1. /\ point[j].addr = NoAddr => point[j] = NoPoint
          /\ point[j].addr # NoAddr => point[j].br # 0 \/ point[j].le # 0
          /\ point[j].br # 0 => br[point[j].br] = point[j].addr
          /\ point[j].le # 0 => le[point[j].le].addr = point[j].addr
      BY DEF LinkInv, PointsMatchLinks
    <3>2. CASE point[j].le = l
      <4>1. point[j].addr # NoAddr
        BY <1>4, <3>1, <3>2 DEF NoPoint
      <4>2. point'[j].le = 0 /\ point'[j].br = point[j].br
        BY <1>5, <3>2
      <4>3. CASE point[j].br = 0
        <5>1. point'[j] = NoPoint
          BY <1>3, <3>2, <4>3
        <5> QED
          BY <5>1 DEF NoPoint
      <4>4. CASE point[j].br # 0
        <5>1. point'[j].addr = point[j].addr
          BY <1>5, <4>4
        <5> QED
          BY <1>1, <3>1, <4>1, <4>2, <4>4, <5>1
      <4> QED
        BY <4>3, <4>4
    <3>3. CASE point[j].le # l
      <4>1. point'[j] = point[j]
        BY <1>3, <3>3
      <4>2. point[j].le # 0 => point[j].le \in LeSlots
        BY PointedAt
      <4> QED
        BY <1>1, <1>2, <3>1, <3>3, <4>1, <4>2
    <3> QED
      BY <3>2, <3>3
  <2>2. ASSUME NEW j \in Points, NEW k \in Points, point'[j].addr # NoAddr,
               point'[j].addr = point'[k].addr
        PROVE  j = k
    <3>1. \A x, y \in UsedIn(point) : point[x].addr = point[y].addr => x = y
      BY DEF LinkInv, PointsMatchLinks
    <3> QED
      BY <1>5, <2>2, <3>1 DEF UsedIn
  <2> QED
    BY <2>1, <2>2 DEF PointsMatchLinks, UsedIn
<1>10. LinksHavePoints'
  <2>1. ASSUME NEW t \in BrSlots, br'[t] \notin crowded' \cup {NoAddr}
        PROVE  \E j \in Points : point'[j].addr = br'[t] /\ point'[j].br = t
    <3>1. PICK j \in Points : point[j].addr = br[t] /\ point[j].br = t
      BY <1>1, <2>1 DEF LinkInv, LinksHavePoints
    <3>2. t # 0
      BY LinksAssumption DEF BrSlots
    <3> QED
      BY <1>1, <1>5, <2>1, <3>1, <3>2
  <2>2. ASSUME NEW k \in LeSlots, le'[k].state = "authed"
        PROVE  \E j \in Points : point'[j].addr = le'[k].addr /\ point'[j].le = k
    <3>1. k # l /\ le'[k] = le[k]
      BY <1>2, <2>2 DEF NoLe
    <3>2. PICK j \in Points : point[j].addr = le[k].addr /\ point[j].le = k
      BY <2>2, <3>1 DEF LinkInv, LinksHavePoints
    <3> QED
      BY <1>5, <3>1, <3>2
  <2> QED
    BY <2>1, <2>2 DEF LinksHavePoints
<1>11. BrIn(point') = BrIn(point) /\ ScoIn(point', sco) = ScoIn(point, sco)
  <2>1. ASSUME NEW j \in Points PROVE j \in BrIn(point') <=> j \in BrIn(point)
    BY <1>5 DEF BrIn, UsedIn
  <2>2. BrIn(point') = BrIn(point)
    BY <2>1, PointSets
  <2>3. \A j \in BrIn(point) : point'[j].br = point[j].br
    BY <1>5, PointSets
  <2> QED
    BY <2>2, <2>3 DEF ScoIn
<1>12. CountsExact'
  BY <1>1, <1>11 DEF LinkInv, TypeOK, CountsExact, LeRecount
<1>13. PowerHeld' /\ ConnectedHolds'
  <2>1. CASE OnlyAudioLeft(count')
    <3>1. overlooked' = {k \in LeSlots : le'[k].state = "connected"}
      BY <2>1 DEF LeDisconnected
    <3>2. ASSUME NEW k \in LeSlots, le'[k].state = "authed", ~le'[k].lea
          PROVE  FALSE
      <4>1. PICK j \in Points : point'[j].addr = le'[k].addr /\ point'[j].le = k
        BY <1>10, <3>2 DEF LinksHavePoints
      <4>2. k # 0
        BY LinksAssumption DEF LeSlots
      <4>3. point'[j].addr # NoAddr
        BY <1>9, <4>1, <4>2 DEF PointsMatchLinks, NoPoint
      <4>4. Cardinality(LeIn(point')) = Cardinality(LeaIn(point', le'))
        BY <1>12, <2>1 DEF CountsExact, OnlyAudioLeft
      <4>5. le'[point'[j].le].lea
        BY <1>3, <4>1, <4>2, <4>3, <4>4, OnlyAudioFacts
      <4> QED
        BY <3>2, <4>1, <4>5
    <3> QED
      BY <3>1, <3>2 DEF PowerHeld, ConnectedHolds
  <2>2. CASE ~OnlyAudioLeft(count')
    <3>1. stayOn' = stayOn /\ overlooked' = overlooked \ {l} /\ released' = released \ {l}
      BY <2>2 DEF LeDisconnected
    <3>2. \A k \in LeSlots : le'[k].state \in {"authed", "connected"} => k # l /\ le'[k] = le[k]
      BY <1>2 DEF NoLe
    <3> QED
      BY <3>1, <3>2 DEF LinkInv, Holds, PowerHeld, ConnectedHolds
  <2> QED
    BY <2>1, <2>2
<1>14. Holds'
  <2>1. CallHoldsSniff'
    <3> SUFFICES ASSUME NEW j \in ScoIn(point', sco), point'[j].addr \notin exposed
                 PROVE  sniffOff
      BY <1>1 DEF CallHoldsSniff
    <3>1. j \in ScoIn(point, sco) /\ j \in Points /\ point'[j].addr = point[j].addr
      BY <1>5, <1>11, PointSets DEF ScoIn, BrIn, UsedIn
    <3> QED
      BY <3>1 DEF LinkInv, Holds, CallHoldsSniff
  <2> QED
    BY <1>1, <1>13, <2>1 DEF LinkInv, Holds, SniffFreed, DialingHolds
<1> QED
  BY <1>6, <1>7, <1>8, <1>9, <1>10, <1>12, <1>14 DEF LinkInv

-----------------------------------------------------------------------------
(* The specification *)

LEMMA InitInv == Init => LinkInv
<1> SUFFICES ASSUME Init PROVE LinkInv
  OBVIOUS
<1>1. TypeOK
  <2>1. NoLe \in LeLink /\ NoPoint \in Point
    BY LinksAssumption DEF NoLe, NoPoint, LeLink, Point
  <2>2. 0 \in 0 .. MaxPoints
    BY LinksAssumption
  <2> HIDE DEF NoLe, NoPoint
  <2> QED
    BY <2>1, <2>2 DEF Init, TypeOK
<1>2. BrTable /\ LeTable
  BY LinksAssumption DEF Init, BrTable, LeTable, NoLe
<1>3. PointsMatchLinks /\ LinksHavePoints
  BY DEF Init, PointsMatchLinks, LinksHavePoints, NoPoint, NoLe, UsedIn
<1>4. CountsExact
  <2>1. UsedIn(point) = {}
    BY DEF Init, UsedIn, NoPoint
  <2>2. /\ BrIn(point) = {} /\ LeIn(point) = {}
        /\ ScoIn(point, sco) = {} /\ LeaIn(point, le) = {}
    BY <2>1 DEF BrIn, LeIn, ScoIn, LeaIn
  <2> QED
    BY <2>1, <2>2, FS_EmptySet DEF Init, CountsExact
<1>5. Holds
  BY DEF Init, Holds, PowerHeld, CallHoldsSniff, SniffFreed, DialingHolds,
     ConnectedHolds, NoLe, ScoIn
<1> QED
  BY <1>1, <1>2, <1>3, <1>4, <1>5 DEF LinkInv

LEMMA StutterInv ==
  ASSUME LinkInv, UNCHANGED vars
  PROVE  LinkInv'
<1>1. accepted' \subseteq Phones /\ accepted' \cap up = {}
  BY DEF LinkInv, TypeOK, BrTable, vars, acl
<1> QED
  BY <1>1, AcceptedInv DEF vars, acl

LEMMA NextInv == LinkInv /\ [Next]_vars => LinkInv'
<1> SUFFICES ASSUME LinkInv, [Next]_vars PROVE LinkInv'
  OBVIOUS
<1>1. ASSUME NEW a \in Phones, NEW force \in BOOLEAN,
         ConnInd(a) \/ PageOut(a, force) \/ ConnFailed(a) PROVE LinkInv'
  BY <1>1, ConnSteps
<1>2. ASSUME NEW a \in Phones, BrConnected(a) PROVE LinkInv'
  BY <1>2, BrConnectedInv, BrUntrackedInv
<1>3. ASSUME NEW a \in Phones, BrDisconnected(a) PROVE LinkInv'
  BY <1>3, BrDisconnectedInv, BrUntrackedEnds
<1>4. ASSUME NEW a \in Phones,
             \/ ScoConnInd(a) \/ ScoConnRsp(a) \/ ScoConnected(a)
             \/ ScoFailed(a) \/ ScoDisconnected(a)
      PROVE  LinkInv'
  BY <1>4, ScoSteps
<1>5. ASSUME NEW a \in Phones, LeConnecting(a) PROVE LinkInv'
  BY <1>5, LeConnectingInv
<1>6. ASSUME NEW l \in LeSlots,
             LeConnected(l) \/ LeAuthenticated(l) \/ LeDisconnected(l) \/ LeaConnect(l)
      PROVE  LinkInv'
  BY <1>6, LeConnectedInv, LeAuthenticatedInv, LeDisconnectedInv, LeaConnectInv
<1>7. CASE MtcShutdown
  BY <1>7, MtcShutdownInv
<1>8. CASE UNCHANGED vars
  BY <1>8, StutterInv
<1> QED
  BY <1>1, <1>2, <1>3, <1>4, <1>5, <1>6, <1>7, <1>8 DEF Next

LEMMA SpecInv == Spec => []LinkInv
BY InitInv, NextInv, PTL DEF Spec

\* Every variable of the link tables keeps its type.
THEOREM LinksTypeOK == Spec => []TypeOK
<1>1. LinkInv => TypeOK
  BY DEF LinkInv
<1> QED
  BY <1>1, SpecInv, PTL

\* The raw pointers of the points are never stale (app_bt_point.c:158-219).
THEOREM LinksPointsMatch == Spec => []PointsMatchLinks
<1>1. LinkInv => PointsMatchLinks
  BY DEF LinkInv
<1> QED
  BY <1>1, SpecInv, PTL

\* A link that was let in keeps its point while it lasts.
THEOREM LinksKeepPoints == Spec => []LinksHavePoints
<1>1. LinkInv => LinksHavePoints
  BY DEF LinkInv
<1> QED
  BY <1>1, SpecInv, PTL

\* The cached counters are exact after every event (app_bt_point.c:283-418).
THEOREM LinksCountsExact == Spec => []CountsExact
<1>1. LinkInv => CountsExact
  BY DEF LinkInv
<1> QED
  BY <1>1, SpecInv, PTL

\* An open LE link without LE audio holds off automatic power off, unless it was
\* not counted yet when another link's end cleared the reason, or mtc_shutdown has
\* cleared it over all open links (multitopology_ctrl.c:647-668).
THEOREM LinksPowerHeld == Spec => []PowerHeld
<1>1. LinkInv => PowerHeld
  BY DEF LinkInv, Holds
<1> QED
  BY <1>1, SpecInv, PTL

\* A call loses its hold on sniff mode only if it was being set up.
THEOREM LinksCallHoldsSniff == Spec => []CallHoldsSniff
<1>1. LinkInv => CallHoldsSniff
  BY DEF LinkInv, Holds
<1> QED
  BY <1>1, SpecInv, PTL

\* Sniff mode is not left off once the last call has ended.
THEOREM LinksSniffFreed == Spec => []SniffFreed
<1>1. LinkInv => SniffFreed
  BY DEF LinkInv, Holds
<1> QED
  BY <1>1, SpecInv, PTL

=============================================================================
