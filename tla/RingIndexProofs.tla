-------------------------- MODULE RingIndexProofs --------------------------
(***************************************************************************)
(* Facts about the ring arithmetic, for every page size and index width.   *)
(***************************************************************************)
EXTENDS RingIndex, TLAPS

\* Division with remainder by the page size.
LEMMA PageDivision ==
  ASSUME NEW x \in Nat
  PROVE  /\ x = MaxBD * (x \div MaxBD) + BdIndex(x)
         /\ BdIndex(x) \in 0 .. MaxBD - 1
         /\ x \div MaxBD \in Nat
BY RingAssumption DEF BdIndex

\* A number written as laps and a place on the page is read back as such.
LEMMA PageCompose ==
  ASSUME NEW q \in Nat, NEW r \in 0 .. MaxBD - 1
  PROVE  BdIndex(MaxBD * q + r) = r /\ (MaxBD * q + r) \div MaxBD = q
BY RingAssumption DEF BdIndex

LEMMA IndexSpaceFacts ==
  /\ IndexSpace \in Nat /\ IndexSpace >= MaxBD
  /\ PosCount \in Nat /\ PosCount >= Usable
  /\ Usable \in Nat /\ Usable >= 2
  /\ BdIndex(0) = 0 /\ BdIndex(IndexSpace) = 0
  /\ IndexSpace = PosCount + Pages
BY RingAssumption DEF IndexSpace, PosCount, Usable, BdIndex

LEMMA LapRange ==
  ASSUME NEW x \in HwIndex
  PROVE  /\ x \div MaxBD \in 0 .. Pages - 1
         /\ x \in Nat
<1>1. x \in Nat /\ x < MaxBD * Pages
  BY IndexSpaceFacts DEF HwIndex, IndexSpace
<1>2. QED
  BY <1>1, RingAssumption, SMTT(30)

\* The place of a driver index among the driver's indexes: its laps times
\* the usable descriptors, plus its place on the page.
LEMMA RankForm ==
  ASSUME NEW x \in RingPos
  PROVE  /\ Rank(x) = Usable * (x \div MaxBD) + BdIndex(x)
         /\ Rank(x) \in 0 .. PosCount - 1
         /\ BdIndex(x) \in Slot
<1>1. x \in HwIndex /\ BdIndex(x) # Usable
  BY DEF RingPos
<1>2. /\ x \div MaxBD \in 0 .. Pages - 1 /\ x \in Nat
      /\ x = MaxBD * (x \div MaxBD) + BdIndex(x)
      /\ BdIndex(x) \in 0 .. MaxBD - 1
  BY <1>1, LapRange, PageDivision
<1>3. BdIndex(x) \in Slot
  BY <1>1, <1>2, RingAssumption DEF Slot, Usable
<1>4. Rank(x) = Usable * (x \div MaxBD) + BdIndex(x)
  BY <1>2, RingAssumption DEF Rank, Usable
<1>5. Rank(x) \in 0 .. PosCount - 1
  <2> DEFINE q == x \div MaxBD
  <2>1. q \in 0 .. Pages - 1 /\ BdIndex(x) \in 0 .. Usable - 1
    BY <1>2, <1>3 DEF Slot
  <2>2. Usable \in Nat /\ Pages \in Nat
    BY IndexSpaceFacts, RingAssumption
  <2>3. Usable * q \in Nat /\ Usable * q + Usable <= Usable * Pages
    BY <2>1, <2>2, SMTT(30)
  <2>4. Rank(x) = Usable * q + BdIndex(x)
    BY <1>4
  <2> QED
    BY <2>1, <2>2, <2>3, <2>4 DEF PosCount
<1> QED
  BY <1>3, <1>4, <1>5

\* One step of the driver: the next place, cyclically, never the chain
\* pointer.
LEMMA NextBdStep ==
  ASSUME NEW x \in RingPos
  PROVE  /\ NextBd(x) \in RingPos
         /\ Rank(NextBd(x)) = IF Rank(x) = PosCount - 1 THEN 0 ELSE Rank(x) + 1
         /\ BdIndex(NextBd(x)) = IF BdIndex(x) = Usable - 1 THEN 0 ELSE BdIndex(x) + 1
<1> DEFINE q == x \div MaxBD
           r == BdIndex(x)
<1>1. /\ x \in Nat /\ x < IndexSpace
      /\ q \in 0 .. Pages - 1 /\ r \in 0 .. Usable - 1
      /\ x = MaxBD * q + r
      /\ Rank(x) = Usable * q + r
  BY RankForm, LapRange, PageDivision, IndexSpaceFacts DEF RingPos, HwIndex, Slot
<1>2. MaxBD \in Nat /\ MaxBD >= 3 /\ Usable = MaxBD - 1 /\ Pages \in Nat \ {0}
  BY RingAssumption DEF Usable
<1>3. CASE r # Usable - 1
  <2>1. x + 1 = MaxBD * q + (r + 1) /\ r + 1 \in 0 .. Usable - 1
    BY <1>1, <1>2, <1>3
  <2>2. BdIndex(x + 1) = r + 1 /\ (x + 1) \div MaxBD = q
    <3>1. q \in Nat /\ r + 1 \in 0 .. MaxBD - 1
      BY <2>1, <1>1, <1>2
    <3>2. BdIndex(MaxBD * q + (r + 1)) = r + 1 /\ (MaxBD * q + (r + 1)) \div MaxBD = q
      BY <3>1, PageCompose
    <3> QED BY <3>2, <2>1
  <2>3. x + 1 < IndexSpace
    <3>1. MaxBD * q + MaxBD <= MaxBD * Pages
      BY <1>1, <1>2, SMTT(30)
    <3> QED BY <3>1, <2>1, <1>1, <1>2 DEF IndexSpace
  <2>4. NextBd(x) = x + 1
    <3>1. (x + 1) % IndexSpace = x + 1
      BY <2>3, <1>1, IndexSpaceFacts
    <3> QED BY <3>1, <1>3 DEF NextBd
  <2>5. NextBd(x) \in RingPos
    BY <2>2, <2>3, <2>4, <2>1, <1>1, <1>2, IndexSpaceFacts DEF RingPos, HwIndex
  <2>6. Rank(NextBd(x)) = Rank(x) + 1
    BY <2>2, <2>4, <1>1 DEF Rank
  <2>7. Rank(x) # PosCount - 1
    <3>1. Rank(NextBd(x)) \in 0 .. PosCount - 1
      BY <2>5, RankForm
    <3>2. Rank(x) \in 0 .. PosCount - 1
      BY RankForm
    <3> HIDE DEF q, r
    <3> QED BY <3>1, <3>2, <2>6, IndexSpaceFacts
  <2> QED
    BY <2>2, <2>4, <2>5, <2>6, <2>7, <1>3
<1>4. CASE r = Usable - 1 /\ q # Pages - 1
  <2>1. x + 2 = MaxBD * (q + 1) + 0
    BY <1>1, <1>2, <1>4, SMTT(30)
  <2>2. BdIndex(x + 2) = 0 /\ (x + 2) \div MaxBD = q + 1
    <3>1. q + 1 \in Nat /\ 0 \in 0 .. MaxBD - 1
      BY <1>1, <1>2
    <3>2. /\ BdIndex(MaxBD * (q + 1) + 0) = 0
          /\ (MaxBD * (q + 1) + 0) \div MaxBD = q + 1
      BY <3>1, PageCompose
    <3> QED BY <3>2, <2>1
  <2>3. x + 2 < IndexSpace
    <3>1. q + 2 <= Pages /\ q \in Nat
      BY <1>1, <1>2, <1>4
    <3>2. MaxBD * (q + 2) <= MaxBD * Pages
      BY <3>1, <1>2, SMTT(30)
    <3>3. MaxBD * (q + 2) = MaxBD * (q + 1) + MaxBD
      BY <3>1, <1>2, SMTT(30)
    <3>4. MaxBD * (q + 1) \in Nat
      BY <3>1, <1>2, SMTT(30)
    <3> HIDE DEF q, r
    <3> QED BY <3>2, <3>3, <3>4, <2>1, <1>2 DEF IndexSpace
  <2>4. NextBd(x) = x + 2
    <3>1. (x + 2) % IndexSpace = x + 2
      BY <2>3, <1>1, IndexSpaceFacts
    <3> QED BY <3>1, <1>4 DEF NextBd
  <2>5. NextBd(x) \in RingPos
    BY <2>2, <2>3, <2>4, <1>1, <1>2, IndexSpaceFacts DEF RingPos, HwIndex
  <2>6. Rank(NextBd(x)) = Rank(x) + 1
    BY <2>2, <2>4, <1>1, <1>4, <1>2 DEF Rank
  <2>7. Rank(x) # PosCount - 1
    <3>1. Rank(NextBd(x)) \in 0 .. PosCount - 1
      BY <2>5, RankForm
    <3>2. Rank(x) \in 0 .. PosCount - 1
      BY RankForm
    <3> HIDE DEF q, r
    <3> QED BY <3>1, <3>2, <2>6, IndexSpaceFacts
  <2> QED
    BY <2>2, <2>4, <2>5, <2>6, <2>7, <1>4
<1>5. CASE r = Usable - 1 /\ q = Pages - 1
  <2>1. x + 2 = IndexSpace
    BY <1>1, <1>2, <1>5, SMTT(30) DEF IndexSpace
  <2>2. NextBd(x) = 0
    <3>1. (x + 2) % IndexSpace = 0
      BY <2>1, IndexSpaceFacts, RingAssumption
    <3> QED BY <3>1, <1>5 DEF NextBd
  <2>3. 0 \in RingPos /\ Rank(0) = 0
    <3>1. 0 \div MaxBD = 0
      BY <1>2
    <3> QED BY <3>1, IndexSpaceFacts, <1>2 DEF RingPos, HwIndex, Rank
  <2>4. Rank(x) = PosCount - 1
    BY <1>1, <1>2, <1>5, SMTT(30) DEF PosCount
  <2> QED
    BY <2>2, <2>3, <2>4, <1>5, IndexSpaceFacts
<1> QED
  BY <1>3, <1>4, <1>5

\* Two driver indexes at the same place are the same index: the 16-bit
\* comparison txCons != txConsNew tells the laps apart.
LEMMA RankInjective ==
  ASSUME NEW x \in RingPos, NEW y \in RingPos, Rank(x) = Rank(y)
  PROVE  x = y
<1> DEFINE q == x \div MaxBD
           p == y \div MaxBD
<1>1. /\ q \in Nat /\ p \in Nat
      /\ BdIndex(x) \in 0 .. Usable - 1 /\ BdIndex(y) \in 0 .. Usable - 1
      /\ Usable * q + BdIndex(x) = Usable * p + BdIndex(y)
      /\ x = MaxBD * q + BdIndex(x) /\ y = MaxBD * p + BdIndex(y)
  BY RankForm, LapRange, PageDivision DEF RingPos, Slot
<1>2. Usable \in Nat /\ Usable >= 2
  BY IndexSpaceFacts
<1>3. q = p
  <2>1. Usable * q \in Nat /\ Usable * p \in Nat
    BY <1>1, <1>2, SMTT(30)
  <2>2. CASE q < p
    <3>1. Usable * q + Usable <= Usable * p
      BY <1>1, <1>2, <2>2, SMTT(30)
    <3> HIDE DEF q, p
    <3> QED BY <3>1, <2>1, <1>1, <1>2
  <2>3. CASE p < q
    <3>1. Usable * p + Usable <= Usable * q
      BY <1>1, <1>2, <2>3, SMTT(30)
    <3> HIDE DEF q, p
    <3> QED BY <3>1, <2>1, <1>1, <1>2
  <2> QED BY <2>2, <2>3, <1>1
<1>4. Usable * q = Usable * p /\ MaxBD * q = MaxBD * p
  BY <1>3
<1>5. Usable * q \in Nat
  BY <1>1, <1>2, SMTT(30)
<1> HIDE DEF q, p
<1>6. BdIndex(x) = BdIndex(y)
  BY <1>1, <1>4, <1>5, <1>2
<1> QED
  BY <1>1, <1>4, <1>6

-----------------------------------------------------------------------------
(***************************************************************************)
(* The consumer index read from the status block.                          *)
(***************************************************************************)

\* The index after c, when c is not the last of the 16-bit range, has no
\* wrap; after the last one it is 0.
LEMMA IndexStep ==
  ASSUME NEW c \in HwIndex
  PROVE  /\ (c + 1) % IndexSpace \in HwIndex
         /\ c + 1 < IndexSpace => (c + 1) % IndexSpace = c + 1
         /\ c + 1 = IndexSpace => (c + 1) % IndexSpace = 0
BY IndexSpaceFacts DEF HwIndex

\* An index that stands on the chain pointer, plus one, is the first
\* descriptor of a lap.
LEMMA ChainStep ==
  ASSUME NEW c \in HwIndex, BdIndex(c) = Usable
  PROVE  BdIndex((c + 1) % IndexSpace) = 0
<1> DEFINE q == c \div MaxBD
<1>1. /\ c \in Nat /\ c < IndexSpace /\ q \in Nat
      /\ c = MaxBD * q + BdIndex(c)
  BY LapRange, PageDivision, IndexSpaceFacts DEF HwIndex
<1>2. MaxBD \in Nat /\ MaxBD >= 3 /\ Usable = MaxBD - 1
  BY RingAssumption DEF Usable
<1>3. c + 1 = MaxBD * (q + 1) + 0
  BY <1>1, <1>2, SMTT(30)
<1>4. BdIndex(c + 1) = 0
  <2>1. q + 1 \in Nat /\ 0 \in 0 .. MaxBD - 1
    BY <1>1, <1>2
  <2>2. BdIndex(MaxBD * (q + 1) + 0) = 0
    BY <2>1, PageCompose
  <2> QED BY <2>2, <1>3
<1>5. CASE c + 1 < IndexSpace
  BY <1>4, <1>5, IndexStep
<1>6. CASE c + 1 = IndexSpace
  BY <1>6, IndexStep, IndexSpaceFacts
<1> QED
  BY <1>1, <1>5, <1>6, IndexSpaceFacts

\* What readTxCons and readRxCons return is an index of the driver.
LEMMA ReadConsType ==
  ASSUME NEW c \in HwIndex
  PROVE  ReadCons(c) \in RingPos
<1>1. CASE BdIndex(c) = Usable
  <2>1. BdIndex((c + 1) % IndexSpace) = 0
    BY <1>1, ChainStep
  <2> QED BY <2>1, <1>1, IndexStep, IndexSpaceFacts DEF ReadCons, RingPos
<1>2. CASE BdIndex(c) # Usable
  BY <1>2 DEF ReadCons, RingPos
<1> QED
  BY <1>1, <1>2

\* The device passing a descriptor is the driver's next index; the device
\* passing the chain pointer is not seen by the driver.
LEMMA ReadConsStep ==
  ASSUME NEW c \in HwIndex
  PROVE  /\ BdIndex(c) = Usable => ReadCons((c + 1) % IndexSpace) = ReadCons(c)
         /\ BdIndex(c) # Usable =>
              /\ c \in RingPos /\ ReadCons(c) = c
              /\ ReadCons((c + 1) % IndexSpace) = NextBd(c)
<1>1. CASE BdIndex(c) = Usable
  <2>1. BdIndex((c + 1) % IndexSpace) = 0
    BY <1>1, ChainStep
  <2> QED BY <2>1, <1>1, IndexSpaceFacts DEF ReadCons
<1>2. CASE BdIndex(c) # Usable
  <2>1. c \in RingPos /\ ReadCons(c) = c
    BY <1>2 DEF RingPos, ReadCons
  <2>2. CASE BdIndex(c) = Usable - 1
    <3> DEFINE q == c \div MaxBD
    <3>1. /\ c \in Nat /\ c < IndexSpace /\ q \in Nat /\ q + 1 <= Pages
          /\ c = MaxBD * q + BdIndex(c)
      <4>1. c \in Nat /\ c < IndexSpace
        BY IndexSpaceFacts DEF HwIndex
      <4>2. q \in 0 .. Pages - 1 /\ Pages \in Nat
        BY LapRange, RingAssumption
      <4>3. c = MaxBD * q + BdIndex(c)
        BY <4>1, PageDivision
      <4> QED BY <4>1, <4>2, <4>3
    <3>2. MaxBD \in Nat /\ MaxBD >= 3 /\ Usable = MaxBD - 1 /\ Pages \in Nat
      BY RingAssumption DEF Usable
    <3>3. c + 1 = MaxBD * q + Usable
      BY <3>1, <3>2, <2>2
    <3>4. BdIndex(c + 1) = Usable
      <4>1. q \in Nat /\ Usable \in 0 .. MaxBD - 1
        BY <3>1, <3>2
      <4>2. BdIndex(MaxBD * q + Usable) = Usable
        BY <4>1, PageCompose
      <4> QED BY <4>2, <3>3
    <3>5. c + 1 < IndexSpace
      <4>1. MaxBD * (q + 1) <= MaxBD * Pages /\ MaxBD * (q + 1) = MaxBD * q + MaxBD
        BY <3>1, <3>2, SMTT(30)
      <4> HIDE DEF q
      <4> QED BY <4>1, <3>1, <3>2, <3>3 DEF IndexSpace
    <3>6. (c + 1) % IndexSpace = c + 1 /\ c + 1 \in Nat
      BY <3>5, <3>1, IndexStep
    <3>7. ReadCons(c + 1) = (c + 2) % IndexSpace
      <4>1. (c + 1) + 1 = c + 2
        BY <3>1
      <4> QED BY <4>1, <3>4 DEF ReadCons
    <3>8. NextBd(c) = (c + 2) % IndexSpace
      BY <2>2 DEF NextBd
    <3> HIDE DEF q
    <3> QED BY <3>6, <3>7, <3>8, <2>1, <1>2
  <2>3. CASE BdIndex(c) # Usable - 1
    <3>1. NextBd(c) = (c + 1) % IndexSpace
      BY <2>3 DEF NextBd
    <3>2. BdIndex(NextBd(c)) # Usable
      BY <2>1, NextBdStep DEF RingPos
    <3> QED BY <3>1, <3>2, <2>1 DEF ReadCons
  <2> QED BY <2>1, <2>2, <2>3, <1>2
<1> QED
  BY <1>1, <1>2
-----------------------------------------------------------------------------
(***************************************************************************)
(* Distances along the ring.                                               *)
(***************************************************************************)
LEMMA DistRange ==
  ASSUME NEW a \in RingPos, NEW b \in RingPos
  PROVE  /\ Dist(a, b) \in 0 .. PosCount - 1
         /\ Dist(a, b) = 0 <=> a = b
<1>1. /\ Rank(a) \in 0 .. PosCount - 1 /\ Rank(b) \in 0 .. PosCount - 1
      /\ PosCount \in Nat
  BY RankForm, IndexSpaceFacts
<1>2. Rank(a) = Rank(b) => a = b
  BY RankInjective
<1> QED
  BY <1>1, <1>2 DEF Dist

LEMMA DistNextTo ==
  ASSUME NEW a \in RingPos, NEW b \in RingPos, Dist(a, b) < PosCount - 1
  PROVE  Dist(a, NextBd(b)) = Dist(a, b) + 1
<1>1. /\ Rank(a) \in 0 .. PosCount - 1 /\ Rank(b) \in 0 .. PosCount - 1
      /\ PosCount \in Nat /\ PosCount >= 2
  BY RankForm, IndexSpaceFacts
<1>2. Rank(NextBd(b)) = IF Rank(b) = PosCount - 1 THEN 0 ELSE Rank(b) + 1
  BY NextBdStep
<1> QED
  BY <1>1, <1>2 DEF Dist

LEMMA DistNextFrom ==
  ASSUME NEW a \in RingPos, NEW b \in RingPos, Dist(a, b) > 0
  PROVE  Dist(NextBd(a), b) = Dist(a, b) - 1
<1>1. /\ Rank(a) \in 0 .. PosCount - 1 /\ Rank(b) \in 0 .. PosCount - 1
      /\ PosCount \in Nat /\ PosCount >= 2
  BY RankForm, IndexSpaceFacts
<1>2. Rank(NextBd(a)) = IF Rank(a) = PosCount - 1 THEN 0 ELSE Rank(a) + 1
  BY NextBdStep
<1> QED
  BY <1>1, <1>2 DEF Dist

LEMMA SlotDistFacts ==
  ASSUME NEW s \in Slot, NEW t \in Slot
  PROVE  /\ SlotDist(s, t) \in 0 .. Usable - 1
         /\ SlotDist(s, t) = 0 <=> s = t
         /\ \A u \in Slot : SlotDist(s, u) = SlotDist(s, t) => u = t
BY IndexSpaceFacts DEF Slot, SlotDist

\* Seen from the next index every slot is one nearer; the slot left behind
\* becomes the farthest.
LEMMA SlotShift ==
  ASSUME NEW a \in RingPos, NEW t \in Slot
  PROVE  SlotDist(BdIndex(NextBd(a)), t) =
           IF SlotDist(BdIndex(a), t) = 0 THEN Usable - 1
                                          ELSE SlotDist(BdIndex(a), t) - 1
<1>1. /\ BdIndex(a) \in Slot /\ Usable \in Nat /\ Usable >= 2
      /\ BdIndex(NextBd(a)) = IF BdIndex(a) = Usable - 1 THEN 0 ELSE BdIndex(a) + 1
  BY RankForm, NextBdStep, IndexSpaceFacts
<1> QED
  BY <1>1 DEF Slot, SlotDist

\* Within one lap the distance of two indexes is that of their slots: two
\* indexes less than a lap ahead of a share a slot only when they are equal.
LEMMA DistIsSlotDist ==
  ASSUME NEW a \in RingPos, NEW b \in RingPos, Dist(a, b) < Usable
  PROVE  SlotDist(BdIndex(a), BdIndex(b)) = Dist(a, b)
<1> DEFINE q == a \div MaxBD
           p == b \div MaxBD
<1>1. /\ q \in 0 .. Pages - 1 /\ p \in 0 .. Pages - 1
      /\ BdIndex(a) \in 0 .. Usable - 1 /\ BdIndex(b) \in 0 .. Usable - 1
      /\ Rank(a) = Usable * q + BdIndex(a) /\ Rank(b) = Usable * p + BdIndex(b)
  BY RankForm, LapRange DEF RingPos, Slot
<1>2. /\ Usable \in Nat /\ Usable >= 2 /\ Pages \in Nat
      /\ PosCount = Usable * Pages
  BY IndexSpaceFacts, RingAssumption DEF PosCount
<1>3. \E k \in {p - q, p - q + Pages} :
         /\ k >= 0 /\ k \in Int
         /\ Dist(a, b) = Usable * k + BdIndex(b) - BdIndex(a)
  <2>1. /\ Usable * (p - q) = Usable * p - Usable * q
        /\ Usable * (p - q + Pages) = Usable * p - Usable * q + Usable * Pages
        /\ Usable * p \in Nat /\ Usable * q \in Nat /\ Usable * Pages \in Nat
    BY <1>1, <1>2, SMTT(30)
  <2>2. CASE Rank(b) >= Rank(a)
    <3>1. p >= q
      <4>1. SUFFICES ASSUME p < q PROVE FALSE
        BY <1>1
      <4>2. Usable * p + Usable <= Usable * q
        BY <4>1, <1>1, <1>2, SMTT(30)
      <4> HIDE DEF p, q
      <4> QED BY <4>2, <2>1, <2>2, <1>1, <1>2
    <3>2. Dist(a, b) = Usable * (p - q) + BdIndex(b) - BdIndex(a)
      <4>1. Dist(a, b) = Rank(b) - Rank(a)
        BY <2>2 DEF Dist
      <4> HIDE DEF p, q
      <4> QED BY <4>1, <2>1, <1>1, <1>2
    <3> QED BY <3>1, <3>2, <1>1
  <2>3. CASE ~(Rank(b) >= Rank(a))
    <3>1. p - q + Pages >= 0
      BY <1>1, <1>2
    <3>2. Dist(a, b) = Usable * (p - q + Pages) + BdIndex(b) - BdIndex(a)
      <4>1. Dist(a, b) = Rank(b) - Rank(a) + PosCount
        BY <2>3 DEF Dist
      <4> HIDE DEF p, q
      <4> QED BY <4>1, <2>1, <1>1, <1>2
    <3> QED BY <3>1, <3>2, <1>1, <1>2
  <2> QED BY <2>2, <2>3
<1>4. PICK k \in Int : k >= 0 /\ Dist(a, b) = Usable * k + BdIndex(b) - BdIndex(a)
  BY <1>3
<1> HIDE DEF p, q
<1>5. Dist(a, b) \in Nat
  BY DistRange, IndexSpaceFacts
<1>6. k = 0 \/ k = 1
  <2>1. SUFFICES ASSUME k >= 2 PROVE FALSE
    BY <1>4
  <2>2. Usable * k >= Usable + Usable
    BY <2>1, <1>2, <1>4, SMTT(30)
  <2>3. Usable * k \in Nat
    BY <1>2, <1>4, SMTT(30)
  <2> QED BY <2>2, <2>3, <1>1, <1>2, <1>4
<1>7. CASE k = 0
  BY <1>7, <1>4, <1>5, <1>1, <1>2 DEF SlotDist
<1>8. CASE k = 1
  BY <1>8, <1>4, <1>5, <1>1, <1>2 DEF SlotDist
<1> QED
  BY <1>6, <1>7, <1>8
=============================================================================
