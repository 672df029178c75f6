---------------------------- MODULE RxRingProofs ----------------------------
(***************************************************************************)
(* Proofs about the receive path, for every ring size, index width, set of *)
(* mbufs and set of headers: first its ring, then what it hands up.        *)
(***************************************************************************)
EXTENDS RxInput, RingIndexProofs, SequenceTheorems

Owners == {"free", "driver", "stack"}

LEMMA Constants ==
  /\ NULL \notin Bufs
  /\ Usable \in Nat /\ Usable >= 2
  /\ PosCount \in Nat /\ PosCount > Usable
  /\ 0 \in RingPos /\ 0 \in HwIndex /\ 0 \in Slot
  /\ \A s \in Slot : s \in Nat /\ s < Usable
<1>1. PosCount = Usable * Pages /\ Pages \in Nat /\ Pages >= 2 /\ Usable \in Nat /\ Usable >= 2
  BY RxAssumption, RingAssumption DEF PosCount, Usable
<1>2. PosCount \in Nat /\ PosCount > Usable
  BY <1>1
<1>3. 0 \in RingPos /\ 0 \in HwIndex /\ 0 \in Slot
  BY <1>1, RingAssumption, IndexSpaceFacts DEF Slot, HwIndex, RingPos, Usable
<1> QED
  BY <1>1, <1>2, <1>3, RxAssumption DEF Slot

-----------------------------------------------------------------------------
(***************************************************************************)
(* Types.                                                                  *)
(***************************************************************************)
LEMMA RefillTypes ==
  ASSUME TypeOK, NEW s \in Slot, NEW own \in [Bufs -> Owners],
         RefillOk(s, own) \/ RefillFails(s, own)
  PROVE  /\ rxPackets' \in [Slot -> Bufs \cup {NULL}]
         /\ rxChain' \in [Slot -> Bufs \cup {NULL}]
         /\ owner' \in [Bufs -> Owners]
         /\ rxProd' \in RingPos /\ failed' \in BOOLEAN
<1>1. NextBd(rxProd) \in RingPos
  BY NextBdStep DEF TypeOK
<1>2. CASE RefillOk(s, own)
  BY <1>1, <1>2 DEF RefillOk, TypeOK, Owners
<1>3. CASE RefillNoPacket(s, own)
  BY <1>3 DEF RefillNoPacket, TypeOK
<1>4. CASE RefillNoSegment(s, own)
  BY <1>4 DEF RefillNoSegment, TypeOK, Owners
<1> QED
  BY <1>2, <1>3, <1>4 DEF RefillFails

LEMMA TypeInit == Init => TypeOK
<1> SUFFICES ASSUME Init PROVE TypeOK
  OBVIOUS
<1>1. rxPackets \in [Slot -> Bufs \cup {NULL}] /\ rxChain \in [Slot -> Bufs \cup {NULL}]
  BY DEF Init
<1>2. owner \in [Bufs -> {"free", "driver", "stack"}]
  BY DEF Init
<1>3. rxI \in 0 .. Usable
  BY Constants DEF Init
<1> QED
  BY <1>1, <1>2, <1>3, Constants DEF Init, TypeOK

\* The owners once a packet has been given away.
LEMMA GivenAway ==
  ASSUME TypeOK, NEW s \in Slot, NEW to \in {"stack", "free"}
  PROVE  [owner EXCEPT ![rxPackets[s]] = to] \in [Bufs -> Owners]
BY DEF TypeOK, Owners

LEMMA TypeStep == TypeOK /\ [Next]_vars => TypeOK'
<1> SUFFICES ASSUME TypeOK, [Next]_vars PROVE TypeOK'
  OBVIOUS
<1> USE DEF Owners
<1>1. CASE InitPost \/ InitFail
  <2>1. rxI \in Slot /\ owner \in [Bufs -> Owners] /\ rxI + 1 \in 0 .. Usable
    BY <1>1, Constants DEF InitPost, InitFail, TypeOK, Slot
  <2> QED
    BY <1>1, <2>1, RefillTypes DEF InitPost, InitFail, TypeOK, hwVars
<1>2. CASE InitDone \/ RxDone
  BY <1>2 DEF InitDone, RxDone, TypeOK, ringVars
<1>3. CASE RxEnter
  <2>1. ReadCons(statusCons) \in RingPos
    BY ReadConsType DEF TypeOK
  <2> QED BY <1>3, <2>1 DEF RxEnter, TypeOK, ringVars, hwVars
<1>4. ASSUME NEW to \in {"stack", "free"}, RxPacket(to) PROVE TypeOK'
  <2>1. BdIndex(rxCons) \in Slot /\ NextBd(rxCons) \in RingPos
    BY RankForm, NextBdStep DEF TypeOK
  <2>2. [owner EXCEPT ![rxPackets[BdIndex(rxCons)]] = to] \in [Bufs -> Owners]
    BY <2>1, GivenAway
  <2> QED
    BY <1>4, <2>1, <2>2, RefillTypes DEF RxPacket, TypeOK, hwVars
<1>5. CASE RxPanic
  BY <1>5 DEF RxPanic, TypeOK, ringVars, hwVars
<1>6. ASSUME NEW b \in Bufs, StackFree(b) PROVE TypeOK'
  BY <1>6 DEF StackFree, TypeOK, ringVars, hwVars
<1>7. CASE HwReceive \/ HwFollowChain
  <2>1. (hwCons + 1) % IndexSpace \in HwIndex
    BY IndexStep DEF TypeOK
  <2> QED BY <1>7, <2>1 DEF HwReceive, HwFollowChain, TypeOK, ringVars
<1>8. CASE HwStatus
  BY <1>8 DEF HwStatus, TypeOK, ringVars
<1>9. CASE UNCHANGED vars
  BY <1>9 DEF vars, TypeOK, ringVars, hwVars
<1> QED
  BY <1>1, <1>2, <1>3, <1>4, <1>5, <1>6, <1>7, <1>8, <1>9 DEF Next, Driver, Hw

\* The state of the receive path is well typed, whether allocations fail or
\* not: the driver's indexes never stand on the chain pointer.
THEOREM RxTypeCorrect == Spec => []TypeOK
<1> QED
  BY TypeInit, TypeStep, PTL DEF Spec
-----------------------------------------------------------------------------
(***************************************************************************)
(* The loop of handleRxInterrupt.                                          *)
(***************************************************************************)
\* The packets it has still to take.
WalkLeft == Dist(rxCons, rxConsNew)

\* While it runs nobody else touches its indexes, and each step of it takes one
\* packet or ends it: where it was meant to, or at an empty slot.
WalkShrinks ==
  [][(rxPc = "loop" =>
        \/ rxPc' = "idle" /\ rxCons = rxConsNew
        \/ rxPc' = "panic" /\ rxPackets[BdIndex(rxCons)] = NULL
        \/ WalkLeft' = WalkLeft - 1 /\ WalkLeft' \in Nat
        \/ UNCHANGED <<rxPc, rxCons, rxConsNew>>)]_vars

\* The loop of handleRxInterrupt, which tests for equality, comes to its end at
\* the index it was called with, whether or not a refill fails on the way.
THEOREM WalkTheorem == Spec => WalkShrinks
<1>1. TypeOK /\ [Next]_vars =>
        [(rxPc = "loop" =>
            \/ rxPc' = "idle" /\ rxCons = rxConsNew
            \/ rxPc' = "panic" /\ rxPackets[BdIndex(rxCons)] = NULL
            \/ WalkLeft' = WalkLeft - 1 /\ WalkLeft' \in Nat
            \/ UNCHANGED <<rxPc, rxCons, rxConsNew>>)]_vars
  <2> SUFFICES ASSUME TypeOK, Next, rxPc = "loop"
               PROVE  \/ rxPc' = "idle" /\ rxCons = rxConsNew
                      \/ rxPc' = "panic" /\ rxPackets[BdIndex(rxCons)] = NULL
                      \/ WalkLeft' = WalkLeft - 1 /\ WalkLeft' \in Nat
                      \/ UNCHANGED <<rxPc, rxCons, rxConsNew>>
    OBVIOUS
  <2>1. CASE RxPacket("stack") \/ RxPacket("free")
    <3>1. rxCons' = NextBd(rxCons) /\ rxConsNew' = rxConsNew /\ rxCons # rxConsNew
      BY <2>1 DEF RxPacket
    <3>2. Dist(rxCons, rxConsNew) \in Nat /\ Dist(rxCons, rxConsNew) > 0
      BY <3>1, DistRange, IndexSpaceFacts DEF TypeOK
    <3>3. Dist(NextBd(rxCons), rxConsNew) = Dist(rxCons, rxConsNew) - 1
      BY <3>2, DistNextFrom DEF TypeOK
    <3> QED BY <3>1, <3>2, <3>3 DEF WalkLeft
  <2>2. CASE RxPanic \/ RxDone
    BY <2>2 DEF RxPanic, RxDone
  <2>3. CASE Hw \/ \E b \in Bufs : StackFree(b)
    BY <2>3 DEF Hw, HwReceive, HwFollowChain, HwStatus, StackFree, ringVars
  <2> QED BY <2>1, <2>2, <2>3 DEF Next, Driver, InitPost, InitFail, InitDone, RxEnter
<1> QED
  BY <1>1, RxTypeCorrect, PTL DEF Spec, WalkShrinks
-----------------------------------------------------------------------------
(***************************************************************************)
(* Who owns what.                                                          *)
(***************************************************************************)

\* A refill keeps owners and slots in agreement when the slot's old packet is
\* no longer the driver's.
LEMMA RefillOwnership ==
  ASSUME TypeOK, RxOwnership, NEW s \in Slot, NEW own \in [Bufs -> Owners],
         \A b \in Bufs : own[b] = "driver" <=> \E t \in Slot : t # s /\ rxPackets[t] = b,
         RefillOk(s, own) \/ RefillFails(s, own)
  PROVE  RxOwnership'
<1>1. CASE RefillOk(s, own) \/ RefillNoSegment(s, own)
  <2>1. PICK b \in Bufs : /\ own[b] = "free"
                          /\ rxPackets' = [rxPackets EXCEPT ![s] = b]
                          /\ owner' = [own EXCEPT ![b] = "driver"]
    BY <1>1 DEF RefillOk, RefillNoSegment
  <2>2. \A t \in Slot : t # s => rxPackets[t] # b
    BY <2>1
  <2>3. rxPackets'[s] = b /\ \A t \in Slot : t # s => rxPackets'[t] = rxPackets[t]
    BY <2>1 DEF TypeOK
  <2>4. owner'[b] = "driver" /\ \A c \in Bufs : c # b => owner'[c] = own[c]
    BY <2>1
  <2>5. \A c \in Bufs : owner'[c] = "driver" <=> \E t \in Slot : rxPackets'[t] = c
    <3>1. ASSUME NEW c \in Bufs, c # b
          PROVE  owner'[c] = "driver" <=> \E t \in Slot : rxPackets'[t] = c
      BY <3>1, <2>3, <2>4
    <3> QED BY <3>1, <2>3, <2>4
  <2>6. \A t, u \in Slot : rxPackets'[t] = rxPackets'[u] /\ rxPackets'[t] # NULL => t = u
    BY <2>2, <2>3 DEF RxOwnership
  <2> QED BY <2>5, <2>6 DEF RxOwnership
<1>2. CASE RefillNoPacket(s, own)
  <2>1. /\ rxPackets'[s] = NULL /\ owner' = own
        /\ \A t \in Slot : t # s => rxPackets'[t] = rxPackets[t]
    BY <1>2 DEF RefillNoPacket, TypeOK
  <2>2. \A c \in Bufs : owner'[c] = "driver" <=> \E t \in Slot : rxPackets'[t] = c
    BY <2>1, Constants
  <2>3. \A t, u \in Slot : rxPackets'[t] = rxPackets'[u] /\ rxPackets'[t] # NULL => t = u
    BY <2>1 DEF RxOwnership
  <2> QED BY <2>2, <2>3 DEF RxOwnership
<1> QED
  BY <1>1, <1>2 DEF RefillFails

LEMMA OwnershipInit == Init => RxOwnership /\ EmptyInv
BY Constants DEF Init, RxOwnership, EmptyInv

LEMMA OwnershipStep ==
  TypeOK /\ RxOwnership /\ EmptyInv /\ [Next]_vars => RxOwnership' /\ EmptyInv'
<1> SUFFICES ASSUME TypeOK, RxOwnership, EmptyInv, [Next]_vars
             PROVE  RxOwnership' /\ EmptyInv'
  OBVIOUS
<1>1. CASE InitPost \/ InitFail
  <2>1. rxI \in Slot /\ rxPackets[rxI] = NULL
    BY <1>1, Constants DEF InitPost, InitFail, TypeOK, Slot, EmptyInv
  <2>2. owner \in [Bufs -> Owners]
    BY DEF TypeOK, Owners
  <2>3. \A b \in Bufs : owner[b] = "driver" <=> \E t \in Slot : t # rxI /\ rxPackets[t] = b
    BY <2>1, Constants DEF RxOwnership
  <2>4. RefillOk(rxI, owner) \/ RefillFails(rxI, owner)
    BY <1>1 DEF InitPost, InitFail
  <2>5. RxOwnership'
    BY <2>1, <2>2, <2>3, <2>4, RefillOwnership
  <2>6. EmptyInv'
    <3>1. CASE InitFail
      BY <3>1 DEF InitFail, EmptyInv
    <3>2. CASE InitPost
      <4>1. \A t \in Slot : t # rxI => rxPackets'[t] = rxPackets[t]
        BY <3>2, <2>1 DEF InitPost, RefillOk, TypeOK
      <4>2. rxI' = rxI + 1 /\ rxPc' = rxPc /\ rxI \in Nat
        BY <3>2, <2>1, Constants DEF InitPost
      <4> QED BY <4>1, <4>2, Constants DEF EmptyInv
    <3> QED BY <1>1, <3>1, <3>2
  <2> QED BY <2>5, <2>6
<1>2. CASE InitDone \/ RxDone
  BY <1>2 DEF InitDone, RxDone, ringVars, RxOwnership, EmptyInv
<1>3. CASE RxEnter
  BY <1>3 DEF RxEnter, ringVars, RxOwnership, EmptyInv
<1>4. ASSUME NEW to \in {"stack", "free"}, RxPacket(to) PROVE RxOwnership' /\ EmptyInv'
  <2> DEFINE s == BdIndex(rxCons)
             own == [owner EXCEPT ![rxPackets[s]] = to]
  <2>1. s \in Slot
    BY RankForm DEF TypeOK
  <2>2. own \in [Bufs -> Owners]
    BY <2>1, GivenAway
  <2>3. rxPackets[s] \in Bufs
    BY <1>4, <2>1 DEF RxPacket, TypeOK
  <2>4. \A b \in Bufs : own[b] = IF b = rxPackets[s] THEN to ELSE owner[b]
    BY <2>3 DEF TypeOK
  <2>5. \A b \in Bufs : own[b] = "driver" <=> \E t \in Slot : t # s /\ rxPackets[t] = b
    <3>1. \A t \in Slot : t # s => rxPackets[t] # rxPackets[s]
      BY <2>1, <1>4 DEF RxOwnership, RxPacket
    <3>2. \A b \in Bufs : owner[b] = "driver" <=> \E t \in Slot : rxPackets[t] = b
      BY DEF RxOwnership
    <3> HIDE DEF own, s
    <3>3. ASSUME NEW b \in Bufs, b = rxPackets[s]
          PROVE  own[b] # "driver" /\ ~\E t \in Slot : t # s /\ rxPackets[t] = b
      BY <3>1, <3>3, <2>4
    <3>4. ASSUME NEW b \in Bufs, b # rxPackets[s]
          PROVE  own[b] = "driver" <=> \E t \in Slot : t # s /\ rxPackets[t] = b
      BY <3>2, <3>4, <2>4
    <3> QED BY <3>3, <3>4
  <2>6. RefillOk(s, own) \/ RefillFails(s, own)
    BY <1>4 DEF RxPacket
  <2>7. RxOwnership'
    <3> HIDE DEF own, s
    <3> QED BY <2>1, <2>2, <2>5, <2>6, RefillOwnership
  <2>8. EmptyInv'
    BY <1>4 DEF RxPacket, EmptyInv
  <2> QED BY <2>7, <2>8
<1>5. CASE RxPanic
  BY <1>5 DEF RxPanic, ringVars, RxOwnership, EmptyInv
<1>6. ASSUME NEW b \in Bufs, StackFree(b) PROVE RxOwnership' /\ EmptyInv'
  <2>1. /\ rxPackets' = rxPackets /\ rxPc' = rxPc /\ rxI' = rxI
        /\ \A c \in Bufs : owner'[c] = IF c = b THEN "free" ELSE owner[c]
        /\ owner[b] = "stack"
    BY <1>6 DEF StackFree, ringVars, TypeOK
  <2>2. \A c \in Bufs : owner'[c] = "driver" <=> owner[c] = "driver"
    BY <2>1
  <2> QED BY <2>1, <2>2 DEF RxOwnership, EmptyInv
<1>7. CASE Hw
  BY <1>7 DEF Hw, HwReceive, HwFollowChain, HwStatus, ringVars, RxOwnership, EmptyInv
<1>8. CASE UNCHANGED vars
  BY <1>8 DEF vars, ringVars, RxOwnership, EmptyInv
<1> QED
  BY <1>1, <1>2, <1>3, <1>4, <1>5, <1>6, <1>7, <1>8 DEF Next, Driver

\* The mbufs the driver has are those in its slots, each in one: nothing is
\* leaked, handed up twice or freed twice, even when allocations fail.
THEOREM RxOwnershipTheorem == Spec => []RxOwnership
<1>1. TypeOK /\ RxOwnership /\ EmptyInv /\ [Next]_vars
        => (TypeOK /\ RxOwnership /\ EmptyInv)'
  BY TypeStep, OwnershipStep
<1> QED
  BY <1>1, TypeInit, OwnershipInit, PTL DEF Spec
-----------------------------------------------------------------------------
(***************************************************************************)
(* Indexes, slots and page stay in step while no refill has failed.        *)
(***************************************************************************)

\* There are places to spare beyond a lap: the index a lap ahead is not
\* taken for the one a step behind.
LEMMA LapFits == Usable \in Nat /\ PosCount \in Nat /\ Usable >= 2 /\ Usable < PosCount - 1
<1>1. PosCount = Usable * Pages /\ Pages \in Nat /\ Pages >= 2 /\ Usable \in Nat /\ Usable >= 2
  BY RxAssumption, RingAssumption DEF PosCount, Usable
<1>2. Usable * Pages >= Usable * 2
  BY <1>1, SMTT(30)
<1> QED
  BY <1>1, <1>2

LEMMA DistInjective ==
  ASSUME NEW a \in RingPos, NEW b \in RingPos, NEW c \in RingPos, Dist(a, b) = Dist(a, c)
  PROVE  b = c
<1>1. /\ Rank(a) \in 0 .. PosCount - 1 /\ Rank(b) \in 0 .. PosCount - 1
      /\ Rank(c) \in 0 .. PosCount - 1 /\ PosCount \in Nat
  BY RankForm, IndexSpaceFacts
<1>2. Rank(b) = Rank(c)
  BY <1>1 DEF Dist
<1> QED
  BY <1>2, RankInjective

LEMMA Zero == ReadCons(0) = 0 /\ Dist(0, 0) = 0 /\ BdIndex(0) = 0 /\ Usable # 0
BY IndexSpaceFacts, DistRange, Constants DEF ReadCons

\* What a refill that succeeds does to slots, page and producer index.
LEMMA RefillEffect ==
  ASSUME TypeOK, NEW s \in Slot, NEW own, RefillOk(s, own)
  PROVE  /\ rxPackets'[s] # NULL /\ rxChain'[s] = rxPackets'[s]
         /\ \A t \in Slot : t # s => rxPackets'[t] = rxPackets[t] /\ rxChain'[t] = rxChain[t]
         /\ rxProd' = NextBd(rxProd) /\ failed' = failed
BY Constants DEF TypeOK, RefillOk

LEMMA RefillFailure ==
  ASSUME NEW s, NEW own, RefillFails(s, own)
  PROVE  failed'
BY DEF RefillFails, RefillNoPacket, RefillNoSegment

InStep == FilledInv /\ StartInv /\ OrderInv

LEMMA InStepInit == Init => InStep
<1> SUFFICES ASSUME Init PROVE InStep
  OBVIOUS
<1>1. FilledInv
  BY Constants DEF Init, FilledInv
<1>2. StartInv
  BY Zero DEF Init, StartInv, D
<1>3. OrderInv
  BY DEF Init, OrderInv
<1> QED
  BY <1>1, <1>2, <1>3 DEF InStep

LEMMA InitPostInStep ==
  ASSUME TypeOK, InStep, InitPost
  PROVE  InStep'
<1>1. /\ rxI \in Slot /\ RefillOk(rxI, owner)
      /\ rxPc = "init" /\ rxPc' = "init" /\ rxI' = rxI + 1 /\ rxCons' = rxCons
      /\ hwProd' = hwProd /\ hwCons' = hwCons /\ statusCons' = statusCons
  BY Constants DEF InitPost, TypeOK, Slot, hwVars
<1>2. /\ rxPackets'[rxI] # NULL /\ rxChain'[rxI] = rxPackets'[rxI]
      /\ \A t \in Slot : t # rxI => rxPackets'[t] = rxPackets[t] /\ rxChain'[t] = rxChain[t]
      /\ rxProd' = NextBd(rxProd) /\ failed' = failed
  BY <1>1, RefillEffect
<1>3. FilledInv'
  <2> SUFFICES ASSUME ~failed', NEW s \in Slot, s < rxI + 1
               PROVE  rxPackets'[s] # NULL /\ rxChain'[s] = rxPackets'[s]
    BY <1>1 DEF FilledInv
  <2>1. CASE s = rxI
    BY <2>1, <1>2
  <2>2. CASE s # rxI
    <3>1. s < rxI
      BY <2>2, <1>1, Constants
    <3>2. rxPackets[s] # NULL /\ rxChain[s] = rxPackets[s]
      BY <3>1, <1>1, <1>2 DEF InStep, FilledInv
    <3> QED BY <3>2, <2>2, <1>2
  <2> QED BY <2>1, <2>2
<1>4. StartInv'
  <2> SUFFICES ASSUME ~failed' PROVE StartInv'
    BY DEF StartInv
  <2>1. /\ rxCons = 0 /\ hwProd = 0 /\ hwCons = 0 /\ statusCons = 0
        /\ Dist(rxCons, rxProd) = rxI /\ BdIndex(rxProd) = rxI
        /\ rxProd \in RingPos /\ rxCons \in RingPos
        /\ rxI \in Nat /\ rxI < Usable
    BY <1>1, <1>2, Constants DEF InStep, StartInv, D, TypeOK
  <2>2. Dist(rxCons, NextBd(rxProd)) = rxI + 1
    BY <2>1, LapFits, DistNextTo
  <2>3. BdIndex(NextBd(rxProd)) = IF rxI + 1 = Usable THEN 0 ELSE rxI + 1
    BY <2>1, NextBdStep, LapFits
  <2> QED BY <1>1, <1>2, <2>1, <2>2, <2>3 DEF StartInv, D
<1>5. OrderInv'
  BY <1>1 DEF OrderInv
<1> QED
  BY <1>3, <1>4, <1>5 DEF InStep

LEMMA InitDoneInStep ==
  ASSUME TypeOK, InStep, InitDone
  PROVE  InStep'
<1>1. /\ rxPc = "init" /\ rxI = Usable /\ hwProd' = rxProd /\ rxPc' = "idle"
      /\ rxProd' = rxProd /\ rxCons' = rxCons /\ rxPackets' = rxPackets
      /\ rxChain' = rxChain /\ failed' = failed
      /\ hwCons' = hwCons /\ statusCons' = statusCons
  BY DEF InitDone, ringVars
<1>2. FilledInv'
  BY <1>1, Constants DEF InStep, FilledInv
<1>3. StartInv'
  BY <1>1 DEF StartInv
<1>4. OrderInv'
  <2> SUFFICES ASSUME ~failed' PROVE OrderInv'
    BY DEF OrderInv
  <2>1. /\ rxCons = 0 /\ hwCons = 0 /\ statusCons = 0
        /\ Dist(rxCons, rxProd) = Usable /\ BdIndex(rxProd) = 0
    BY <1>1 DEF InStep, StartInv, D
  <2>2. Dist(0, ReadCons(0)) = 0
    BY Zero
  <2> QED BY <1>1, <2>1, <2>2, Zero, LapFits DEF OrderInv, D
<1> QED
  BY <1>2, <1>3, <1>4 DEF InStep

LEMMA RxPacketInStep ==
  ASSUME TypeOK, InStep, NEW to, RxPacket(to)
  PROVE  InStep'
<1> DEFINE s == BdIndex(rxCons)
           own == [owner EXCEPT ![rxPackets[s]] = to]
<1>1. /\ s \in Slot /\ rxPc = "loop" /\ rxPc' = "loop" /\ rxCons # rxConsNew
      /\ rxCons' = NextBd(rxCons) /\ rxConsNew' = rxConsNew
      /\ hwProd' = hwProd /\ hwCons' = hwCons /\ statusCons' = statusCons
      /\ RefillOk(s, own) \/ RefillFails(s, own)
  BY RankForm DEF RxPacket, TypeOK, hwVars
<1>2. StartInv'
  BY <1>1 DEF StartInv
<1> HIDE DEF own, s
<1>3. CASE RefillFails(s, own)
  <2>1. failed'
    BY <1>3, RefillFailure
  <2> QED BY <2>1, <1>2 DEF InStep, FilledInv, OrderInv
<1>4. CASE RefillOk(s, own)
  <2>1. /\ rxPackets'[s] # NULL /\ rxChain'[s] = rxPackets'[s]
        /\ \A t \in Slot : t # s => rxPackets'[t] = rxPackets[t] /\ rxChain'[t] = rxChain[t]
        /\ rxProd' = NextBd(rxProd) /\ failed' = failed
    BY <1>1, <1>4, RefillEffect
  <2>2. FilledInv'
    <3> SUFFICES ASSUME ~failed', NEW t \in Slot
                 PROVE  rxPackets'[t] # NULL /\ rxChain'[t] = rxPackets'[t]
      BY DEF FilledInv
    <3>1. rxPackets[t] # NULL /\ rxChain[t] = rxPackets[t]
      BY <2>1, <1>1 DEF InStep, FilledInv
    <3> QED BY <3>1, <2>1
  <2>3. OrderInv'
    <3> SUFFICES ASSUME ~failed' PROVE OrderInv'
      BY DEF OrderInv
    <3> DEFINE st == ReadCons(statusCons)
               hc == ReadCons(hwCons)
    <3>1. /\ rxProd \in RingPos /\ rxCons \in RingPos /\ rxConsNew \in RingPos
          /\ hwProd \in RingPos /\ st \in RingPos /\ hc \in RingPos
      BY ReadConsType DEF TypeOK
    <3>2. /\ Dist(rxCons, rxProd) = Usable /\ BdIndex(rxProd) = BdIndex(rxCons)
          /\ Dist(rxCons, st) <= Dist(rxCons, hc)
          /\ Dist(rxCons, hc) <= Dist(rxCons, hwProd) /\ Dist(rxCons, hwProd) <= Usable
          /\ Dist(rxCons, rxConsNew) <= Dist(rxCons, st)
      BY <2>1, <1>1 DEF InStep, OrderInv, D
    <3>3. st' = st /\ hc' = hc
      BY <1>1
    <3> HIDE DEF st, hc
    <3>4. /\ Dist(rxCons, rxConsNew) \in Nat /\ Dist(rxCons, st) \in Nat
          /\ Dist(rxCons, hc) \in Nat /\ Dist(rxCons, hwProd) \in Nat
          /\ Dist(rxCons, rxConsNew) > 0
      BY <3>1, <1>1, DistRange, LapFits
    <3>5. Dist(rxCons, st) > 0 /\ Dist(rxCons, hc) > 0 /\ Dist(rxCons, hwProd) > 0
      BY <3>2, <3>4, LapFits
    <3>6. /\ Dist(rxCons', rxConsNew) = Dist(rxCons, rxConsNew) - 1
          /\ Dist(rxCons', st) = Dist(rxCons, st) - 1
          /\ Dist(rxCons', hc) = Dist(rxCons, hc) - 1
          /\ Dist(rxCons', hwProd) = Dist(rxCons, hwProd) - 1
      BY <1>1, <3>1, <3>4, <3>5, DistNextFrom
    <3>7. Dist(rxCons', rxProd') = Usable
      <4>1. Dist(rxCons, NextBd(rxProd)) = Usable + 1 /\ NextBd(rxProd) \in RingPos
        BY <3>1, <3>2, DistNextTo, LapFits, NextBdStep
      <4>2. Dist(NextBd(rxCons), NextBd(rxProd)) = Usable + 1 - 1
        BY <4>1, <3>1, DistNextFrom, LapFits
      <4> QED BY <4>2, <1>1, <2>1, LapFits
    <3>8. BdIndex(rxProd') = BdIndex(rxCons')
      BY <3>1, <3>2, <1>1, <2>1, NextBdStep
    <3>9. /\ Dist(rxCons', st) <= Dist(rxCons', hc)
          /\ Dist(rxCons', hc) <= Dist(rxCons', hwProd) /\ Dist(rxCons', hwProd) <= Usable
          /\ Dist(rxCons', rxConsNew) <= Dist(rxCons', st)
      BY <3>2, <3>4, <3>6, LapFits
    <3>10. /\ Dist(rxCons', st') <= Dist(rxCons', hc')
           /\ Dist(rxCons', hc') <= Dist(rxCons', hwProd') /\ Dist(rxCons', hwProd') <= Usable
           /\ Dist(rxCons', rxConsNew') <= Dist(rxCons', st')
      BY <3>9, <3>3, <1>1
    <3> QED BY <3>7, <3>8, <3>10, <1>1 DEF OrderInv, D, st, hc
  <2> QED BY <2>2, <2>3, <1>2 DEF InStep
<1> QED
  BY <1>1, <1>3, <1>4

LEMMA RxDoneInStep ==
  ASSUME TypeOK, InStep, RxDone
  PROVE  InStep'
<1>1. /\ rxPc = "loop" /\ rxPc' = "idle" /\ hwProd' = rxProd
      /\ rxProd' = rxProd /\ rxCons' = rxCons /\ rxPackets' = rxPackets
      /\ rxChain' = rxChain /\ failed' = failed
      /\ hwCons' = hwCons /\ statusCons' = statusCons
  BY DEF RxDone, ringVars
<1>2. FilledInv' /\ StartInv'
  BY <1>1 DEF InStep, FilledInv, StartInv
<1>3. OrderInv'
  <2> SUFFICES ASSUME ~failed' PROVE OrderInv'
    BY DEF OrderInv
  <2>1. /\ Dist(rxCons, rxProd) = Usable /\ BdIndex(rxProd) = BdIndex(rxCons)
        /\ Dist(rxCons, ReadCons(statusCons)) <= Dist(rxCons, ReadCons(hwCons))
        /\ Dist(rxCons, ReadCons(hwCons)) <= Dist(rxCons, hwProd)
        /\ Dist(rxCons, hwProd) <= Usable
    BY <1>1 DEF InStep, OrderInv, D
  <2>2. Dist(rxCons, ReadCons(hwCons)) \in Nat /\ Dist(rxCons, hwProd) \in Nat
    BY ReadConsType, DistRange, LapFits DEF TypeOK
  <2>3. Dist(rxCons, ReadCons(hwCons)) <= Usable
    BY <2>1, <2>2, LapFits
  <2> QED BY <1>1, <2>1, <2>3, LapFits DEF OrderInv, D
<1> QED
  BY <1>2, <1>3 DEF InStep

\* While initRxRing runs the device has nothing to do.
LEMMA HwIdleAtStart ==
  ASSUME TypeOK, InStep, Hw, ~failed
  PROVE  rxPc # "init"
<1> SUFFICES ASSUME rxPc = "init" PROVE FALSE
  OBVIOUS
<1>1. hwProd = 0 /\ hwCons = 0 /\ statusCons = 0
  BY DEF InStep, StartInv
<1> QED
  BY <1>1, Zero DEF Hw, HwReceive, HwFollowChain, HwStatus

LEMMA HwInStep ==
  ASSUME TypeOK, InStep, Hw
  PROVE  InStep'
<1>1. /\ rxPc' = rxPc /\ rxProd' = rxProd /\ rxCons' = rxCons /\ rxConsNew' = rxConsNew
      /\ rxPackets' = rxPackets /\ rxChain' = rxChain /\ rxI' = rxI
      /\ failed' = failed /\ hwProd' = hwProd
  BY DEF Hw, HwReceive, HwFollowChain, HwStatus, ringVars
<1>2. FilledInv'
  BY <1>1 DEF InStep, FilledInv
<1>3. CASE failed
  BY <1>1, <1>2, <1>3 DEF InStep, StartInv, OrderInv
<1>4. CASE ~failed
  <2>1. rxPc # "init"
    BY <1>4, HwIdleAtStart
  <2>2. StartInv'
    BY <2>1, <1>1 DEF StartInv
  <2> DEFINE st == ReadCons(statusCons)
             hc == ReadCons(hwCons)
  <2>3. /\ Dist(rxCons, rxProd) = Usable /\ BdIndex(rxProd) = BdIndex(rxCons)
        /\ Dist(rxCons, st) <= Dist(rxCons, hc)
        /\ Dist(rxCons, hc) <= Dist(rxCons, hwProd) /\ Dist(rxCons, hwProd) <= Usable
        /\ rxPc = "idle" => hwProd = rxProd
        /\ rxPc = "loop" => Dist(rxCons, rxConsNew) <= Dist(rxCons, st)
        /\ rxPc # "panic"
    BY <1>4, <2>1 DEF InStep, OrderInv, D
  <2>4. /\ rxProd \in RingPos /\ rxCons \in RingPos /\ rxConsNew \in RingPos
        /\ hwProd \in RingPos /\ st \in RingPos /\ hc \in RingPos /\ hwCons \in HwIndex
    BY ReadConsType DEF TypeOK
  <2>5. /\ Dist(rxCons, rxConsNew) \in Nat /\ Dist(rxCons, st) \in Nat
        /\ Dist(rxCons, hc) \in Nat /\ Dist(rxCons, hwProd) \in Nat
    BY <2>4, DistRange, LapFits
  <2>6. /\ Dist(rxCons, st') <= Dist(rxCons, hc')
        /\ Dist(rxCons, hc') <= Dist(rxCons, hwProd)
        /\ rxPc = "loop" => Dist(rxCons, rxConsNew) <= Dist(rxCons, st')
    <3>1. CASE HwReceive
      <4>1. hc = hwCons /\ hc # hwProd /\ hc' = NextBd(hc) /\ st' = st
        BY <3>1, <2>4, ReadConsStep DEF HwReceive
      <4> HIDE DEF st, hc
      <4>2. Dist(rxCons, hc) # Dist(rxCons, hwProd)
        BY <4>1, <2>4, DistInjective
      <4>3. Dist(rxCons, hc) < Dist(rxCons, hwProd) /\ Dist(rxCons, hc) < PosCount - 1
        BY <4>2, <2>3, <2>5, LapFits
      <4>4. Dist(rxCons, hc') = Dist(rxCons, hc) + 1
        BY <4>1, <4>3, <2>4, DistNextTo
      <4>5. /\ Dist(rxCons, st) <= Dist(rxCons, hc')
            /\ Dist(rxCons, hc') <= Dist(rxCons, hwProd)
        BY <4>3, <4>4, <2>3, <2>5
      <4> QED BY <4>1, <4>5, <2>3
    <3>2. CASE HwFollowChain
      <4>1. hc' = hc /\ st' = st
        BY <3>2, <2>4, ReadConsStep DEF HwFollowChain
      <4> HIDE DEF st, hc
      <4> QED BY <4>1, <2>3
    <3>3. CASE HwStatus
      <4>1. hc' = hc /\ st' = hc
        BY <3>3 DEF HwStatus
      <4> HIDE DEF st, hc
      <4> QED BY <4>1, <2>3, <2>5
    <3> QED BY <3>1, <3>2, <3>3 DEF Hw
  <2>7. OrderInv'
    <3> HIDE DEF st, hc
    <3> QED BY <2>1, <2>3, <2>6, <1>1 DEF OrderInv, D, st, hc
  <2> QED BY <1>2, <2>2, <2>7 DEF InStep
<1> QED
  BY <1>3, <1>4

LEMMA InStepStep == TypeOK /\ InStep /\ [Next]_vars => InStep'
<1> SUFFICES ASSUME TypeOK, InStep, [Next]_vars PROVE InStep'
  OBVIOUS
<1>1. CASE InitPost
  BY <1>1, InitPostInStep
<1>2. CASE InitFail
  <2>1. failed' /\ rxPc' = "idle"
    BY <1>2, RefillFailure DEF InitFail
  <2> QED BY <2>1 DEF InStep, FilledInv, StartInv, OrderInv
<1>3. CASE InitDone
  BY <1>3, InitDoneInStep
<1>4. CASE RxEnter
  <2>1. /\ rxPc = "idle" /\ rxPc' = "loop" /\ rxConsNew' = ReadCons(statusCons)
        /\ rxProd' = rxProd /\ rxCons' = rxCons /\ rxPackets' = rxPackets
        /\ rxChain' = rxChain /\ failed' = failed /\ hwProd' = hwProd
        /\ hwCons' = hwCons /\ statusCons' = statusCons
    BY <1>4 DEF RxEnter, ringVars, hwVars
  <2>2. FilledInv' /\ StartInv'
    BY <2>1 DEF InStep, FilledInv, StartInv
  <2>3. Dist(rxCons, ReadCons(statusCons)) \in Nat
    BY ReadConsType, DistRange, LapFits DEF TypeOK
  <2>4. OrderInv'
    BY <2>1, <2>3 DEF InStep, OrderInv, D
  <2> QED BY <2>2, <2>4 DEF InStep
<1>5. ASSUME NEW to \in {"stack", "free"}, RxPacket(to) PROVE InStep'
  BY <1>5, RxPacketInStep
<1>6. CASE RxPanic
  <2>1. /\ rxPc = "loop" /\ failed' = failed /\ rxPc' = "panic"
        /\ rxPackets[BdIndex(rxCons)] = NULL /\ BdIndex(rxCons) \in Slot
    BY <1>6, RankForm DEF RxPanic, TypeOK
  <2>2. failed
    BY <2>1 DEF InStep, FilledInv
  <2> QED BY <2>1, <2>2 DEF InStep, FilledInv, StartInv, OrderInv
<1>7. CASE RxDone
  BY <1>7, RxDoneInStep
<1>8. CASE Hw
  BY <1>8, HwInStep
<1>9. CASE UNCHANGED <<ringVars, rxPc, rxI, rxConsNew, failed, hwVars>>
  BY <1>9 DEF ringVars, hwVars, InStep, FilledInv, StartInv, OrderInv, D
<1> QED
  BY <1>1, <1>2, <1>3, <1>4, <1>5, <1>6, <1>7, <1>8, <1>9 DEF Next, Driver, StackFree, vars

\* The inductive invariant of the receive path.
THEOREM RxInvariant == Spec => []IInv
<1>1. Init => IInv
  BY TypeInit, OwnershipInit, InStepInit DEF IInv, InStep
<1>2. IInv /\ [Next]_vars => IInv'
  BY TypeStep, OwnershipStep, InStepStep DEF IInv, InStep
<1> QED
  BY <1>1, <1>2, PTL DEF Spec
-----------------------------------------------------------------------------
(***************************************************************************)
(* What it is for.                                                         *)
(***************************************************************************)

\* As long as no call of initRxDescriptor has failed, a descriptor the device
\* may use holds the address of the packet the driver will take from it.
THEOREM PreparedTheorem == Spec => []PreparedSoFar
<1>1. IInv => PreparedSoFar
  <2> SUFFICES ASSUME IInv, ~failed, NEW s \in Slot, Posted(s)
               PROVE  rxPackets[s] # NULL /\ rxChain[s] = rxPackets[s]
    BY DEF PreparedSoFar, DescriptorPrepared
  <2>1. rxPc # "init"
    <3> SUFFICES ASSUME rxPc = "init" PROVE FALSE
      OBVIOUS
    <3>1. rxCons = 0 /\ D(hwProd) = 0
      BY Zero DEF IInv, StartInv, D
    <3>2. Off(s) \in Nat
      BY SlotDistFacts, Constants, <3>1, Zero DEF Off
    <3> QED BY <3>1, <3>2 DEF Posted
  <2> QED BY <2>1 DEF IInv, FilledInv
<1> QED
  BY <1>1, RxInvariant, PTL

\* As long as no call of initRxDescriptor has failed, it refills the slot that
\* was emptied, and the handler leaves the whole ring posted.
THEOREM RefillTheorem == Spec => []RefillInPlace
<1>1. IInv => RefillInPlace
  BY DEF IInv, OrderInv, RefillInPlace
<1> QED
  BY <1>1, RxInvariant, PTL

\* As long as no call of initRxDescriptor has failed, the device never laps
\* the driver.
THEOREM NoOverwriteTheorem == Spec => []NoOverwrite
<1>1. IInv => NoOverwrite
  <2> SUFFICES ASSUME IInv, ~failed PROVE NoOverwrite
    BY DEF NoOverwrite
  <2>1. CASE rxPc = "init"
    <3>1. rxCons = 0 /\ hwProd = 0 /\ hwCons = 0 /\ statusCons = 0
      BY <2>1 DEF IInv, StartInv
    <3>2. D(ReadCons(hwCons)) = 0 /\ D(ReadCons(statusCons)) = 0 /\ D(hwProd) = 0
      BY <3>1, Zero DEF D
    <3> QED BY <3>2, LapFits DEF NoOverwrite
  <2>2. CASE rxPc # "init"
    BY <2>2 DEF IInv, OrderInv, NoOverwrite
  <2> QED BY <2>1, <2>2
<1> QED
  BY <1>1, RxInvariant, PTL

-----------------------------------------------------------------------------
(***************************************************************************)
(* What is in the packets, and what is handed up.                          *)
(***************************************************************************)

\* Every step of RxInput is a step of RxRing.
LEMMA InputIsRing == [NextInput]_<<vars, inVars>> => [Next]_vars
BY DEF NextInput, InputEnter, InputDrop, InputUp, InputOther, InputReceive,
       Next, Driver, Hw

-----------------------------------------------------------------------------
(***************************************************************************)
(* Functions on 1 .. n as sequences.                                       *)
(***************************************************************************)
LEMMA EmptyIsSeq == ASSUME NEW f, f = [k \in 1 .. 0 |-> {}] PROVE f = <<>>
OBVIOUS

LEMMA GrownSeq ==
  ASSUME NEW S, NEW n \in Nat, NEW g \in [1 .. n -> S], NEW f \in [1 .. n + 1 -> S],
         \A k \in 1 .. n : f[k] = g[k]
  PROVE  f = Append(g, f[n + 1])
<1>1. g \in Seq(S) /\ Len(g) = n
  OBVIOUS
<1>2. Append(g, f[n + 1]) = [k \in 1 .. n + 1 |-> IF k = n + 1 THEN f[n + 1] ELSE g[k]]
  BY <1>1
<1> QED
  BY <1>2

LEMMA TailSeq ==
  ASSUME NEW S, NEW n \in Nat, NEW f \in [1 .. n + 1 -> S], NEW g \in [1 .. n -> S],
         \A k \in 1 .. n : g[k] = f[k + 1]
  PROVE  f # <<>> /\ Head(f) = f[1] /\ Tail(f) = g
<1>1. f \in Seq(S) /\ Len(f) = n + 1
  OBVIOUS
<1>2. f # <<>> /\ Head(f) = f[1]
  BY <1>1
<1>3. /\ Tail(f) \in Seq(S) /\ Len(Tail(f)) = n
      /\ \A k \in 1 .. n : Tail(f)[k] = f[k + 1]
  BY <1>1, <1>2, HeadTailProperties
<1>4. g \in Seq(S) /\ Len(g) = n
  OBVIOUS
<1>5. Tail(f) = g
  BY <1>3, <1>4, SeqEqual
<1> QED
  BY <1>2, <1>5
-----------------------------------------------------------------------------
(***************************************************************************)
(* The slots the queue is read from.                                       *)
(***************************************************************************)
LEMMA Wrap ==
  ASSUME NEW i \in 0 .. 2 * Usable - 1
  PROVE  i % Usable = IF i < Usable THEN i ELSE i - Usable
<1>1. Usable \in Nat /\ Usable >= 2 /\ i \in Nat /\ i < 2 * Usable
  BY Constants
<1> QED
  BY <1>1, SMTT(30)

LEMMA SlotAfter ==
  ASSUME NEW s \in Slot, NEW k \in 1 .. Usable
  PROVE  /\ (s + k - 1) % Usable \in Slot
         /\ SlotDist(s, (s + k - 1) % Usable) = k - 1
         /\ \A t \in Slot : SlotDist(s, t) = k - 1 => t = (s + k - 1) % Usable
<1> DEFINE i == s + k - 1
<1>1. i \in 0 .. 2 * Usable - 1 /\ Usable \in Nat /\ Usable >= 2
  BY Constants DEF Slot
<1>2. i % Usable = IF i < Usable THEN i ELSE i - Usable
  <2> HIDE DEF i
  <2> QED BY <1>1, Wrap
<1> QED
  BY <1>1, <1>2 DEF Slot, SlotDist

LEMMA SlotAtFacts ==
  ASSUME TypeOK, NEW k \in 1 .. Usable
  PROVE  /\ SlotAt(k) \in Slot /\ Off(SlotAt(k)) = k - 1
         /\ \A s \in Slot : Off(s) = k - 1 => s = SlotAt(k)
<1>1. BdIndex(rxCons) \in Slot
  BY RankForm DEF TypeOK
<1> QED
  BY <1>1, SlotAfter DEF SlotAt, Off

LEMMA FirstSlot == ASSUME TypeOK PROVE SlotAt(1) = BdIndex(rxCons)
<1>1. BdIndex(rxCons) \in Slot /\ 1 \in 1 .. Usable
  BY Constants, RankForm DEF TypeOK
<1>2. Off(BdIndex(rxCons)) = 1 - 1
  BY <1>1, SlotDistFacts DEF Off
<1> QED
  BY <1>1, <1>2, SlotAtFacts

\* How many frames have been received and not yet taken.
Count == D(ReadCons(hwCons))

LEMMA CountType == ASSUME IInv PROVE Count \in Nat /\ (~failed => Count <= Usable)
<1>1. Count \in Nat
  BY ReadConsType, DistRange, LapFits DEF IInv, TypeOK, Count, D
<1>2. ~failed => Count <= Usable
  <2>1. CASE ~failed /\ rxPc = "init"
    BY <2>1, Zero, LapFits DEF IInv, StartInv, Count, D
  <2>2. CASE ~failed /\ rxPc # "init"
    <3>1. D(hwProd) \in Nat
      BY DistRange, LapFits DEF IInv, TypeOK, D
    <3> QED
      BY <1>1, <2>2, <3>1, LapFits DEF IInv, OrderInv, Count
  <2> QED BY <2>1, <2>2
<1> QED
  BY <1>1, <1>2

\* Until a refill has failed every entry of the queue is one header.
LEMMA QueueType ==
  ASSUME InputInv, ~failed
  PROVE  /\ Arrived \in [1 .. Count -> SUBSET Headers]
         /\ \A k \in 1 .. Count :
              /\ SlotAt(k) \in Slot /\ Off(SlotAt(k)) = k - 1
              /\ rxPackets[SlotAt(k)] \in Bufs
              /\ Arrived[k] = content[rxPackets[SlotAt(k)]]
              /\ \E h \in Headers : Arrived[k] = {h}
<1>1. /\ TypeOK /\ FilledInv /\ InputTypeOK /\ ContentInv
      /\ Count \in Nat /\ Count <= Usable /\ Usable \in Nat
  BY CountType, Constants DEF InputInv, IInv
<1>2. ASSUME NEW k \in 1 .. Count
      PROVE  /\ SlotAt(k) \in Slot /\ Off(SlotAt(k)) = k - 1
             /\ rxPackets[SlotAt(k)] \in Bufs
             /\ Arrived[k] = content[rxPackets[SlotAt(k)]]
             /\ \E h \in Headers : Arrived[k] = {h}
  <2>1. k \in 1 .. Usable
    BY <1>1
  <2>2. SlotAt(k) \in Slot /\ Off(SlotAt(k)) = k - 1
    BY <1>1, <2>1, SlotAtFacts
  <2>3. Off(SlotAt(k)) < Count
    BY <1>1, <2>2
  <2>4. \E h \in Headers : content[rxPackets[SlotAt(k)]] = {h}
    BY <1>1, <2>2, <2>3 DEF ContentInv, Count
  <2>5. rxPackets[SlotAt(k)] \in Bufs \cup {NULL}
    BY <1>1, <2>2 DEF TypeOK
  <2>6. rxPackets[SlotAt(k)] # NULL
    <3>1. CASE rxPc # "init"
      BY <1>1, <2>2, <3>1 DEF FilledInv
    <3>2. CASE rxPc = "init"
      <4>1. Count = 0
        BY <3>2, Zero DEF InputInv, IInv, StartInv, Count, D
      <4> QED BY <4>1
    <3> QED BY <3>1, <3>2
  <2>7. Arrived[k] = content[rxPackets[SlotAt(k)]]
    BY <2>6 DEF Arrived, Received, Count
  <2> QED BY <2>2, <2>4, <2>5, <2>6, <2>7
<1>3. Arrived = [k \in 1 .. Count |-> Arrived[k]]
  BY DEF Arrived, Count
<1>4. \A k \in 1 .. Count : Arrived[k] \in SUBSET Headers
  BY <1>2
<1>5. Arrived \in [1 .. Count -> SUBSET Headers]
  <2> HIDE DEF Arrived
  <2> QED BY <1>3, <1>4
<1> QED
  BY <1>2, <1>5

-----------------------------------------------------------------------------
(***************************************************************************)
(* One packet taken: the queue loses its head.                             *)
(***************************************************************************)

\* As long as no refill fails, the first frame of the queue is the one in
\* the slot looked at, and the others keep their slots and contents.
LEMMA Taken ==
  ASSUME InputInv, NEW to \in {"stack", "free"}, RxPacket(to), ~failed',
         content' = Emptied(rxPackets[BdIndex(rxCons)])
  PROVE  /\ ~failed /\ Count > 0 /\ Count' = Count - 1
         /\ rxPackets[BdIndex(rxCons)] \in Bufs
         /\ \E h \in Headers : /\ content[rxPackets[BdIndex(rxCons)]] = {h}
                               /\ Arrived[1] = {h}
         /\ \A k \in 1 .. Count' :
              /\ SlotAt(k)' = SlotAt(k + 1)
              /\ Arrived'[k] = Arrived[k + 1]
         /\ \A t \in Slot : Off(t)' < Count' =>
              /\ Off(t)' = Off(t) - 1
              /\ content'[rxPackets'[t]] = content[rxPackets[t]]
         /\ hwProd' # rxProd'
<1> DEFINE s == BdIndex(rxCons)
           own == [owner EXCEPT ![rxPackets[s]] = to]
<1>1. /\ TypeOK /\ InStep /\ RxOwnership /\ InputTypeOK
      /\ Usable \in Nat /\ Usable >= 2 /\ s \in Slot
  BY RankForm, Constants DEF InputInv, IInv, InStep, TypeOK
<1>2. /\ rxPc = "loop" /\ rxPc' = "loop" /\ rxCons # rxConsNew
      /\ rxPackets[s] # NULL
      /\ rxCons' = NextBd(rxCons) /\ hwProd' = hwProd /\ hwCons' = hwCons
      /\ RefillOk(s, own) \/ RefillFails(s, own)
  BY DEF RxPacket, hwVars
<1>3. /\ RefillOk(s, own)
      /\ \A t \in Slot : t # s => rxPackets'[t] = rxPackets[t]
      /\ rxProd' = NextBd(rxProd) /\ failed' = failed
  <2> HIDE DEF own, s
  <2>1. RefillOk(s, own)
    BY <1>2, RefillFailure
  <2> QED BY <1>1, <2>1, RefillEffect
<1>4. ~failed
  BY <1>3
<1>5. rxPackets[s] \in Bufs
  BY <1>1, <1>2 DEF TypeOK
<1>6. content' = [content EXCEPT ![rxPackets[s]] = {}]
  BY DEF Emptied
<1>7. Count \in Nat /\ Count <= Usable
  BY <1>4, CountType DEF InputInv
<1>8. Count > 0 /\ Count' = Count - 1 /\ Dist(rxCons', hwProd) = Dist(rxCons, hwProd) - 1
  <2> DEFINE st == ReadCons(statusCons)
             hc == ReadCons(hwCons)
  <2>1. /\ rxCons \in RingPos /\ rxConsNew \in RingPos /\ hwProd \in RingPos
        /\ st \in RingPos /\ hc \in RingPos
    BY <1>1, ReadConsType DEF TypeOK
  <2>2. /\ Dist(rxCons, st) <= Dist(rxCons, hc)
        /\ Dist(rxCons, hc) <= Dist(rxCons, hwProd)
        /\ Dist(rxCons, rxConsNew) <= Dist(rxCons, st)
    BY <1>1, <1>2, <1>4 DEF InStep, OrderInv, D
  <2>3. Count = Dist(rxCons, hc) /\ Count' = Dist(rxCons', hc)
    BY <1>2 DEF Count, D
  <2> HIDE DEF st, hc
  <2>4. /\ Dist(rxCons, rxConsNew) \in Nat /\ Dist(rxCons, st) \in Nat
        /\ Dist(rxCons, hc) \in Nat /\ Dist(rxCons, hwProd) \in Nat
        /\ Dist(rxCons, rxConsNew) > 0
    BY <2>1, <1>2, DistRange, LapFits
  <2>5. Dist(rxCons, hc) > 0 /\ Dist(rxCons, hwProd) > 0
    BY <2>2, <2>4, LapFits
  <2>6. /\ Dist(NextBd(rxCons), hc) = Dist(rxCons, hc) - 1
        /\ Dist(NextBd(rxCons), hwProd) = Dist(rxCons, hwProd) - 1
    BY <2>1, <2>5, DistNextFrom
  <2> QED BY <2>3, <2>5, <2>6, <1>2
<1> DEFINE m == Dist(rxCons', ReadCons(hwCons'))
           off(t) == SlotDist(BdIndex(rxCons'), t)
<1>9. m = Count - 1 /\ \A t \in Slot : off(t) = IF t = s THEN Usable - 1 ELSE Off(t) - 1
  <2>1. m = Count - 1
    BY <1>8 DEF Count, D
  <2>2. ASSUME NEW t \in Slot
        PROVE  off(t) = IF t = s THEN Usable - 1 ELSE Off(t) - 1
    <3>1. Off(t) = 0 <=> s = t
      BY <1>1, SlotDistFacts DEF Off
    <3>2. off(t) = IF Off(t) = 0 THEN Usable - 1 ELSE Off(t) - 1
      BY <1>1, <1>2, SlotShift DEF Off, TypeOK
    <3> QED BY <3>1, <3>2
  <2> QED BY <2>1, <2>2
<1>10. ASSUME NEW t \in Slot, Off(t)' < Count'
       PROVE  t # s /\ Off(t)' = Off(t) - 1 /\ content'[rxPackets'[t]] = content[rxPackets[t]]
  <2>1. off(t) < m
    BY <1>10 DEF Off, Count, D
  <2>2. t # s /\ off(t) = Off(t) - 1
    <3> HIDE DEF m, off, s
    <3> QED BY <1>1, <1>7, <1>9, <2>1
  <2>3. rxPackets'[t] = rxPackets[t] /\ rxPackets[t] # rxPackets[s]
    BY <2>2, <1>1, <1>2, <1>3 DEF RxOwnership
  <2>4. content'[rxPackets[t]] = content[rxPackets[t]]
    BY <2>3, <1>6, <1>1 DEF InputTypeOK
  <2> QED BY <2>2, <2>3, <2>4 DEF Off
<1>11. \E h \in Headers : content[rxPackets[s]] = {h} /\ Arrived[1] = {h}
  <2>1. 1 \in 1 .. Count
    BY <1>7, <1>8
  <2>2. SlotAt(1) = s
    BY <1>1, FirstSlot
  <2> QED BY <2>1, <2>2, <1>4, QueueType
<1>12. ASSUME NEW k \in 1 .. Count'
       PROVE  SlotAt(k)' = SlotAt(k + 1) /\ Arrived'[k] = Arrived[k + 1]
  <2>1. k \in 1 .. m
    BY <1>12 DEF Count, D
  <2>2. k + 1 \in 1 .. Count /\ k \in 1 .. Usable /\ k \in Nat
    <3> HIDE DEF m
    <3> QED BY <1>1, <1>7, <1>9, <2>1
  <2>3. /\ SlotAt(k + 1) \in Slot /\ Off(SlotAt(k + 1)) = k
        /\ rxPackets[SlotAt(k + 1)] \in Bufs
        /\ Arrived[k + 1] = content[rxPackets[SlotAt(k + 1)]]
    BY <2>2, <1>4, QueueType
  <2>4. SlotAt(k + 1) # s
    <3>1. Off(s) = 0
      BY <1>1, SlotDistFacts DEF Off
    <3> QED BY <2>1, <2>3, <3>1
  <2>5. off(SlotAt(k + 1)) = k - 1
    <3> HIDE DEF off, s
    <3> QED BY <2>2, <2>3, <2>4, <1>9
  <2>6. SlotAt(k)' = SlotAt(k + 1)
    <3>1. BdIndex(rxCons') \in Slot
      BY <1>1, <1>2, NextBdStep, RankForm DEF TypeOK
    <3>2. SlotAt(k)' = (BdIndex(rxCons') + k - 1) % Usable
      BY DEF SlotAt
    <3> QED BY <2>2, <2>3, <2>5, <3>1, <3>2, SlotAfter
  <2>7. Arrived'[k] = content'[rxPackets'[SlotAt(k)']]
    <3>1. rxPackets'[SlotAt(k)'] = rxPackets[SlotAt(k + 1)]
      BY <2>3, <2>4, <2>6, <1>3
    <3>2. Arrived'[k] = Received(rxPackets[SlotAt(k)])'
      BY <2>1 DEF Arrived, D
    <3> QED BY <2>3, <3>1, <3>2, Constants DEF Received
  <2>8. content'[rxPackets'[SlotAt(k)']] = content[rxPackets[SlotAt(k + 1)]]
    <3>1. rxPackets'[SlotAt(k + 1)] = rxPackets[SlotAt(k + 1)]
      BY <2>3, <2>4, <1>3
    <3>2. rxPackets[SlotAt(k + 1)] # rxPackets[s]
      BY <1>1, <1>2, <2>3, <2>4 DEF RxOwnership
    <3> QED BY <2>3, <2>6, <3>1, <3>2, <1>1, <1>6 DEF InputTypeOK
  <2> QED BY <2>3, <2>6, <2>7, <2>8
<1>13. hwProd' # rxProd'
  <2>1. Dist(rxCons', rxProd') = Usable
    <3>1. Dist(rxCons, rxProd) = Usable /\ rxProd \in RingPos /\ rxCons \in RingPos
      BY <1>1, <1>2, <1>4 DEF InStep, OrderInv, D, TypeOK
    <3>2. Dist(rxCons, NextBd(rxProd)) = Usable + 1 /\ NextBd(rxProd) \in RingPos
      BY <3>1, DistNextTo, LapFits, NextBdStep
    <3>3. Dist(NextBd(rxCons), NextBd(rxProd)) = Usable + 1 - 1
      BY <3>1, <3>2, DistNextFrom, LapFits
    <3> QED BY <3>3, <1>2, <1>3, LapFits
  <2>2. Dist(rxCons, hwProd) <= Usable /\ Dist(rxCons, hwProd) \in Nat
    BY <1>1, <1>2, <1>4, DistRange, LapFits DEF InStep, OrderInv, D, TypeOK
  <2>3. Dist(rxCons', hwProd) # Usable
    BY <2>2, <1>8, <1>1
  <2> QED BY <2>1, <2>3, <1>2
<1> QED
  BY <1>4, <1>5, <1>8, <1>10, <1>11, <1>12, <1>13

-----------------------------------------------------------------------------
(***************************************************************************)
(* One frame received: the queue grows by it.                              *)
(***************************************************************************)
LEMMA Filled ==
  ASSUME InputInv, ~failed, NEW h \in Headers, InputReceive(h)
  PROVE  /\ Count' = Count + 1
         /\ Arrived'[Count + 1] = {h}
         /\ \A k \in 1 .. Count : Arrived'[k] = Arrived[k]
         /\ \A t \in Slot :
              content'[rxPackets[t]] = IF Off(t) = Count THEN {h} ELSE content[rxPackets[t]]
<1> DEFINE s == BdIndex(hwCons)
<1>1. /\ TypeOK /\ InStep /\ RxOwnership /\ InputTypeOK /\ ContentInv
      /\ Usable \in Nat /\ Usable >= 2
  BY Constants DEF InputInv, IInv, InStep
<1>2. /\ s # Usable /\ hwCons # hwProd /\ hwCons' = (hwCons + 1) % IndexSpace
      /\ rxPc' = rxPc /\ rxProd' = rxProd /\ rxCons' = rxCons /\ rxPackets' = rxPackets
      /\ rxChain' = rxChain /\ hwProd' = hwProd
      /\ content' = IF rxChain[s] = NULL THEN content ELSE [content EXCEPT ![rxChain[s]] = {h}]
  BY DEF InputReceive, HwReceive, ringVars
<1>3. rxPc # "init"
  BY <1>1, HwIdleAtStart DEF InputReceive, Hw
<1>4. /\ rxCons \in RingPos /\ hwProd \in RingPos /\ hwCons \in RingPos
      /\ ReadCons(hwCons) = hwCons /\ ReadCons(hwCons') = NextBd(hwCons)
      /\ s \in Slot
  BY <1>1, <1>2, ReadConsStep, RankForm DEF TypeOK
<1>5. Count \in Nat /\ Count < Usable /\ Count = Dist(rxCons, hwCons)
  <2>1. Count = Dist(rxCons, hwCons)
    BY <1>4 DEF Count, D
  <2>2. Dist(rxCons, hwCons) <= Dist(rxCons, hwProd) /\ Dist(rxCons, hwProd) <= Usable
    BY <1>1, <1>3, <1>4 DEF InStep, OrderInv, D
  <2>3. Dist(rxCons, hwCons) \in Nat /\ Dist(rxCons, hwProd) \in Nat
    BY <1>4, DistRange, LapFits
  <2>4. Dist(rxCons, hwCons) # Dist(rxCons, hwProd)
    BY <1>2, <1>4, DistInjective
  <2> QED BY <2>1, <2>2, <2>3, <2>4, <1>1
<1>6. Count' = Count + 1
  <2>1. Count' = Dist(rxCons, NextBd(hwCons))
    BY <1>2, <1>4 DEF Count, D
  <2> QED BY <2>1, <1>4, <1>5, DistNextTo, LapFits
<1>7. Off(s) = Count /\ \A t \in Slot : Off(t) = Count => t = s
  BY <1>4, <1>5, DistIsSlotDist, SlotDistFacts, RankForm DEF Off
<1>8. rxPackets[s] \in Bufs /\ rxChain[s] = rxPackets[s]
  BY <1>1, <1>3, <1>4 DEF InStep, FilledInv, TypeOK
<1>9. content' = [content EXCEPT ![rxPackets[s]] = {h}]
  BY <1>2, <1>8, Constants
<1>10. ASSUME NEW t \in Slot
       PROVE  content'[rxPackets[t]] = IF Off(t) = Count THEN {h} ELSE content[rxPackets[t]]
  <2>1. CASE t = s
    BY <2>1, <1>1, <1>7, <1>8, <1>9 DEF InputTypeOK
  <2>2. CASE t # s
    <3>1. rxPackets[t] # rxPackets[s]
      BY <2>2, <1>1, <1>4, <1>8, Constants DEF RxOwnership
    <3> QED BY <2>2, <3>1, <1>1, <1>7, <1>9 DEF InputTypeOK
  <2> QED BY <2>1, <2>2
<1>11. ASSUME NEW k \in 1 .. Count + 1
       PROVE  Arrived'[k] = IF k = Count + 1 THEN {h} ELSE content[rxPackets[SlotAt(k)]]
  <2>1. k \in 1 .. Usable /\ k \in 1 .. Count'
    BY <1>1, <1>5, <1>6
  <2>2. SlotAt(k) \in Slot /\ Off(SlotAt(k)) = k - 1
    BY <1>1, <2>1, SlotAtFacts
  <2>3. rxPackets[SlotAt(k)] # NULL
    BY <1>1, <1>3, <2>2 DEF InStep, FilledInv
  <2>4. Arrived'[k] = Received(rxPackets[SlotAt(k)])'
    BY <2>1 DEF Arrived, Count
  <2>5. Received(rxPackets[SlotAt(k)])' = content'[rxPackets[SlotAt(k)]]
    BY <1>2, <2>3 DEF Received, SlotAt
  <2>6. Off(SlotAt(k)) = Count <=> k = Count + 1
    BY <2>2, <1>5
  <2> QED BY <2>2, <2>4, <2>5, <2>6, <1>10
<1>12. \A k \in 1 .. Count : Arrived'[k] = Arrived[k]
  BY <1>5, <1>11, QueueType
<1>13. Arrived'[Count + 1] = {h}
  BY <1>5, <1>11
<1> QED
  BY <1>6, <1>10, <1>12, <1>13

-----------------------------------------------------------------------------
(***************************************************************************)
(* The invariant.                                                          *)
(***************************************************************************)
LEMMA HeaderChecks == ASSUME NEW h \in Headers PROVE h.status \subseteq Checks
<1>1. h \in [length : UInt16, errors : BOOLEAN, status : SUBSET Checks]
  BY InputAssumption
<1> QED
  BY <1>1

LEMMA InputInit == InitInput => InputInv
<1> SUFFICES ASSUME InitInput PROVE InputInv
  OBVIOUS
<1>1. IInv
  BY TypeInit, OwnershipInit, InStepInit DEF InitInput, IInv, InStep
<1>2. InputTypeOK /\ MaskInv
  BY DEF InitInput, Nothing, InputTypeOK, MaskInv
<1>3. ContentInv
  <2>1. D(ReadCons(hwCons)) = 0 /\ rxCons = 0
    BY Zero DEF InitInput, Init, D
  <2>2. \A s \in Slot : Off(s) \in Nat
    BY <2>1, SlotDistFacts, Zero, Constants DEF Off
  <2> QED BY <2>1, <2>2 DEF ContentInv
<1> QED
  BY <1>1, <1>2, <1>3 DEF InputInv

LEMMA EmptiedType ==
  ASSUME InputTypeOK, NEW b
  PROVE  Emptied(b) \in [Bufs -> SUBSET Headers]
BY DEF InputTypeOK, Emptied, Nothing

\* Whatever becomes of the packet taken.
LEMMA TakenStep ==
  ASSUME InputInv, NEW to \in {"stack", "free"}, RxPacket(to),
         content' = Emptied(rxPackets[BdIndex(rxCons)])
  PROVE  ContentInv' /\ MaskInv'
<1>1. CASE failed'
  BY <1>1 DEF ContentInv, MaskInv
<1>2. CASE ~failed'
  <2>1. /\ ~failed /\ Count \in Nat /\ Count' = Count - 1
        /\ \A t \in Slot : Off(t)' < Count' =>
             Off(t)' = Off(t) - 1 /\ content'[rxPackets'[t]] = content[rxPackets[t]]
        /\ hwProd' # rxProd'
    BY <1>2, Taken, CountType DEF InputInv
  <2>2. ContentInv'
    <3> SUFFICES ASSUME NEW t \in Slot, Off(t)' < Count'
                 PROVE  \E h \in Headers : content'[rxPackets'[t]] = {h}
      BY DEF ContentInv, Count
    <3>1. Off(t) < Count
      <4>1. Off(t) \in Nat
        BY SlotDistFacts, RankForm, Constants DEF Off, InputInv, IInv, TypeOK
      <4>2. Off(t) - 1 < Count - 1
        BY <2>1
      <4> QED BY <4>1, <4>2, <2>1
    <3>2. \E h \in Headers : content[rxPackets[t]] = {h}
      BY <3>1, <2>1 DEF InputInv, ContentInv, Count
    <3> QED BY <3>2, <2>1
  <2>3. MaskInv'
    BY <2>1 DEF MaskInv
  <2> QED BY <2>2, <2>3
<1> QED
  BY <1>1, <1>2

LEMMA ReceiveStep ==
  ASSUME InputInv, NEW h \in Headers, InputReceive(h)
  PROVE  InputTypeOK' /\ ContentInv' /\ MaskInv'
<1>1. /\ failed' = failed /\ rxPc' = rxPc /\ hwProd' = hwProd /\ rxProd' = rxProd
      /\ rxPackets' = rxPackets /\ rxCons' = rxCons
      /\ checksumValidMask' = checksumValidMask
  BY DEF InputReceive, HwReceive, ringVars
<1>2. InputTypeOK'
  BY <1>1 DEF InputReceive, InputInv, InputTypeOK
<1>3. MaskInv'
  BY <1>1 DEF InputInv, MaskInv
<1>4. ContentInv'
  <2> SUFFICES ASSUME ~failed, NEW t \in Slot, Off(t) < Count'
               PROVE  \E g \in Headers : content'[rxPackets[t]] = {g}
    BY <1>1 DEF ContentInv, Count, Off
  <2>1. /\ Count \in Nat /\ Count' = Count + 1
        /\ content'[rxPackets[t]] = IF Off(t) = Count THEN {h} ELSE content[rxPackets[t]]
    BY Filled, CountType DEF InputInv
  <2>2. Off(t) \in Nat
    BY SlotDistFacts, RankForm, Constants DEF Off, InputInv, IInv, TypeOK
  <2>3. CASE Off(t) = Count
    BY <2>1, <2>3
  <2>4. CASE Off(t) # Count
    <3>1. Off(t) < Count
      BY <2>1, <2>2, <2>4
    <3>2. \E g \in Headers : content[rxPackets[t]] = {g}
      BY <3>1 DEF InputInv, ContentInv, Count
    <3> QED BY <3>2, <2>1, <2>4
  <2> QED BY <2>3, <2>4
<1> QED
  BY <1>2, <1>3, <1>4

\* The steps that leave the device and the slots in use alone.
LEMMA OtherStep ==
  ASSUME InputInv, InputOther \/ UNCHANGED <<vars, inVars>>
  PROVE  /\ InputTypeOK' /\ ContentInv' /\ MaskInv'
         /\ ~failed' => Arrived' = Arrived
<1>1. content' = content /\ checksumValidMask' = checksumValidMask /\ input' = input
  BY DEF InputOther, inVars
<1>2. InputTypeOK'
  BY <1>1 DEF InputInv, InputTypeOK
<1>3. CASE InitPost
  <2>1. InStep' /\ InStep
    BY <1>3, InitPostInStep DEF InputInv, IInv, InStep
  <2>2. /\ rxPc = "init" /\ rxPc' = "init" /\ failed' = failed
        /\ rxCons' = rxCons /\ hwCons' = hwCons
    BY <1>3 DEF InitPost, RefillOk, hwVars
  <2>3. MaskInv'
    BY <2>2 DEF MaskInv
  <2>4. ~failed => rxCons = 0 /\ Count = 0
    BY <2>1, <2>2, Zero DEF InStep, StartInv, Count, D
  <2>5. Count' = Count
    BY <2>2 DEF Count, D
  <2>6. ContentInv'
    <3> SUFFICES ASSUME ~failed, NEW t \in Slot PROVE ~(Off(t)' < Count')
      BY <2>2 DEF ContentInv, Count
    <3>1. Off(t)' = SlotDist(BdIndex(0), t)
      BY <2>2, <2>4 DEF Off
    <3>2. Off(t)' \in Nat
      BY <3>1, SlotDistFacts, Zero, Constants
    <3> QED BY <3>2, <2>4, <2>5
  <2>7. ~failed' => Arrived' = Arrived
    BY <2>2, <2>4, <2>5 DEF Arrived, Count
  <2> QED BY <1>2, <2>3, <2>6, <2>7
<1>4. CASE InitFail
  <2>1. failed'
    BY <1>4, RefillFailure DEF InitFail
  <2> QED BY <2>1, <1>2 DEF ContentInv, MaskInv
<1>5. CASE \/ InitDone \/ RxPanic \/ RxDone \/ HwFollowChain \/ HwStatus
           \/ (\E b \in Bufs : StackFree(b)) \/ UNCHANGED <<vars, inVars>>
  <2>1. /\ rxCons' = rxCons /\ rxPackets' = rxPackets /\ failed' = failed
        /\ hwCons' = hwCons \/ HwFollowChain
        /\ rxPc' # "loop" \/ (rxPc' = rxPc /\ hwProd' = hwProd /\ rxProd' = rxProd)
    BY <1>5 DEF InitDone, RxPanic, RxDone, HwFollowChain, HwStatus, StackFree,
                ringVars, hwVars, vars
  <2>2. ReadCons(hwCons') = ReadCons(hwCons)
    BY <2>1, ReadConsStep DEF HwFollowChain, InputInv, IInv, TypeOK
  <2>3. MaskInv'
    BY <2>1, <1>1 DEF InputInv, MaskInv
  <2>4. ContentInv'
    BY <2>1, <2>2, <1>1 DEF InputInv, ContentInv, Off, D
  <2>5. Arrived' = Arrived
    BY <2>1, <2>2, <1>1 DEF Arrived, Received, SlotAt, D
  <2> QED BY <1>2, <2>3, <2>4, <2>5
<1> QED
  BY <1>3, <1>4, <1>5 DEF InputOther

LEMMA EnterStep ==
  ASSUME InputInv, InputEnter
  PROVE  InputTypeOK' /\ ContentInv' /\ MaskInv' /\ Arrived' = Arrived
<1>1. /\ rxCons' = rxCons /\ rxPackets' = rxPackets /\ failed' = failed
      /\ hwCons' = hwCons /\ content' = content /\ checksumValidMask' = {}
  BY DEF InputEnter, RxEnter, ringVars, hwVars
<1>2. InputTypeOK' /\ MaskInv'
  BY <1>1 DEF InputInv, InputTypeOK, MaskInv
<1>3. ContentInv'
  BY <1>1 DEF InputInv, ContentInv, Off, D
<1>4. Arrived' = Arrived
  BY <1>1 DEF Arrived, Received, SlotAt, D
<1> QED
  BY <1>2, <1>3, <1>4

LEMMA InputStep == InputInv /\ [NextInput]_<<vars, inVars>> => InputInv'
<1> SUFFICES ASSUME InputInv, [NextInput]_<<vars, inVars>> PROVE InputInv'
  OBVIOUS
<1>1. IInv'
  BY InputIsRing, TypeStep, OwnershipStep, InStepStep DEF InputInv, IInv, InStep
<1>2. CASE InputEnter
  BY <1>1, <1>2, EnterStep DEF InputInv
<1>3. CASE InputDrop
  <2>1. /\ RxPacket("free") /\ content' = Emptied(rxPackets[BdIndex(rxCons)])
        /\ checksumValidMask' = checksumValidMask
    BY <1>3 DEF InputDrop
  <2>2. ContentInv' /\ MaskInv'
    BY <2>1, TakenStep
  <2>3. InputTypeOK'
    BY <2>1, EmptiedType DEF InputInv, InputTypeOK
  <2> QED BY <1>1, <2>2, <2>3 DEF InputInv
<1>4. CASE InputUp
  <2>1. PICK h \in HeaderOf(rxPackets[BdIndex(rxCons)]) :
          /\ RxPacket("stack") /\ content' = Emptied(rxPackets[BdIndex(rxCons)])
          /\ checksumValidMask' = checksumValidMask \cup h.status
    BY <1>4 DEF InputUp
  <2>2. h \in Headers
    <3>1. rxPackets[BdIndex(rxCons)] \in Bufs
      BY <2>1, RankForm DEF RxPacket, InputInv, IInv, TypeOK
    <3> QED BY <3>1, Constants DEF HeaderOf, InputInv, InputTypeOK
  <2>3. ContentInv' /\ MaskInv'
    BY <2>1, TakenStep
  <2>4. InputTypeOK'
    BY <2>1, <2>2, HeaderChecks, EmptiedType DEF InputInv, InputTypeOK
  <2> QED BY <1>1, <2>3, <2>4 DEF InputInv
<1>5. ASSUME NEW h \in Headers, InputReceive(h) PROVE InputInv'
  BY <1>1, <1>5, ReceiveStep DEF InputInv
<1>6. CASE InputOther \/ UNCHANGED <<vars, inVars>>
  BY <1>1, <1>6, OtherStep DEF InputInv
<1> QED
  BY <1>2, <1>3, <1>4, <1>5, <1>6 DEF NextInput

\* The inductive invariant of the receive path with its contents: a packet the
\* device has filled and the driver has not yet taken holds the header of one
\* frame, and every burst begins without checks.
THEOREM InputInvariant == SpecInput => []InputInv
BY InputInit, InputStep, PTL DEF SpecInput

-----------------------------------------------------------------------------
(***************************************************************************)
(* The checks claimed.                                                     *)
(***************************************************************************)
LEMMA ClaimsStep ==
  InputInv /\ ClaimsOwnChecks /\ [NextInput]_<<vars, inVars>> => ClaimsOwnChecks'
<1> SUFFICES ASSUME InputInv, ClaimsOwnChecks, [NextInput]_<<vars, inVars>>
             PROVE  ClaimsOwnChecks'
  OBVIOUS
<1>1. CASE input' = input
  BY <1>1 DEF ClaimsOwnChecks
<1>2. CASE input' = NoInput
  BY <1>2 DEF ClaimsOwnChecks, NoInput
<1>3. CASE InputUp /\ ~failed'
  <2>1. PICK h \in HeaderOf(rxPackets[BdIndex(rxCons)]) :
          /\ RxPacket("stack") /\ content' = Emptied(rxPackets[BdIndex(rxCons)])
          /\ checksumValidMask' = checksumValidMask \cup h.status
          /\ input' = [header |-> {h}, checked |-> checksumValidMask',
                       first |-> hwProd = rxProd]
    BY <1>3 DEF InputUp
  <2>2. rxPc = "loop" /\ ~failed
    BY <2>1, <1>3, Taken DEF RxPacket
  <2>3. hwProd = rxProd => checksumValidMask' = h.status
    BY <2>1, <2>2 DEF InputInv, MaskInv
  <2> QED BY <2>1, <2>3 DEF ClaimsOwnChecks
<1> QED
  BY <1>1, <1>2, <1>3
     DEF NextInput, InputEnter, InputDrop, InputUp, InputOther, InputReceive, inVars

\* The packet that begins a burst is handed up with the checks the device made
\* on it, whatever headers the device writes.
THEOREM ClaimsTheorem == SpecInput => []ClaimsOwnChecks
<1>1. InitInput => ClaimsOwnChecks
  BY DEF InitInput, NoInput, ClaimsOwnChecks
<1> QED
  BY <1>1, ClaimsStep, InputInvariant, PTL DEF SpecInput
-----------------------------------------------------------------------------
(***************************************************************************)
(* The refinement: RxInput implements RxFifo.                              *)
(***************************************************************************)

\* A length smaller than the checksum wraps around to a large one.
LEMMA LengthWraps ==
  ASSUME NEW n \in UInt16
  PROVE  (n + UInt16Count - 4) % UInt16Count > 1522 <=> n < 4 \/ n > 1522 + 4
<1>1. UInt16Count \in Nat /\ UInt16Count > 2000
  BY DEF UInt16Count
<1>2. n \in Nat /\ n < UInt16Count
  BY <1>1 DEF UInt16
<1>3. (n + UInt16Count - 4) % UInt16Count = IF n < 4 THEN n + UInt16Count - 4 ELSE n - 4
  BY <1>1, <1>2
<1> QED
  BY <1>1, <1>2, <1>3

\* What the driver takes for garbage are the frames nobody wants.
LEMMA GarbageIsBad == ASSUME NEW h \in Headers PROVE {h} \in BadFrames <=> Garbage(h)
<1>1. h \in [length : UInt16, errors : BOOLEAN, status : SUBSET Checks]
  BY InputAssumption
<1>2. h.length \in UInt16
  BY <1>1
<1>3. packetLength(h) > MAX_PACKET_SIZE <=>
        h.length < CRCSize \/ h.length > MAX_PACKET_SIZE + CRCSize
  <2>1. packetLength(h) = (h.length + UInt16Count - 4) % UInt16Count
    BY DEF packetLength, CRCSize
  <2> QED BY <2>1, <1>2, LengthWraps DEF CRCSize, MAX_PACKET_SIZE
<1>4. {h} \in BadFrames <=> \/ h.length < CRCSize \/ h.length > MAX_PACKET_SIZE + CRCSize
                            \/ h.errors
  BY DEF BadFrames
<1> QED
  BY <1>3, <1>4, Zenon DEF Garbage

LEMMA QueueInit == InitInput => Fifo!Init
<1> SUFFICES ASSUME InitInput PROVE Arrived = <<>> /\ failed = FALSE
  BY DEF Fifo!Init
<1>1. D(ReadCons(hwCons)) = 0
  BY Zero DEF InitInput, Init, D
<1> QED
  BY <1>1 DEF InitInput, Init, Arrived

\* A packet taken is the head of the queue.
LEMMA TakenIsHead ==
  ASSUME InputInv, NEW to \in {"stack", "free"}, RxPacket(to), ~failed',
         content' = Emptied(rxPackets[BdIndex(rxCons)]),
         NEW h \in HeaderOf(rxPackets[BdIndex(rxCons)])
  PROVE  /\ h \in Headers
         /\ Arrived # <<>> /\ Head(Arrived) = {h} /\ Arrived' = Tail(Arrived)
<1>1. /\ ~failed /\ Count > 0 /\ Count' = Count - 1
      /\ rxPackets[BdIndex(rxCons)] \in Bufs
      /\ \E g \in Headers : content[rxPackets[BdIndex(rxCons)]] = {g} /\ Arrived[1] = {g}
      /\ \A k \in 1 .. Count' : Arrived'[k] = Arrived[k + 1]
  BY Taken
<1>2. h \in Headers /\ Arrived[1] = {h}
  <2>1. PICK g \in Headers : content[rxPackets[BdIndex(rxCons)]] = {g} /\ Arrived[1] = {g}
    BY <1>1
  <2>2. HeaderOf(rxPackets[BdIndex(rxCons)]) = {g}
    BY <1>1, <2>1, Constants DEF HeaderOf
  <2> QED BY <2>1, <2>2
<1> DEFINE n == Count'
<1>3. n \in Nat /\ Count = n + 1
  BY <1>1, CountType DEF InputInv
<1>4. Arrived \in [1 .. n + 1 -> SUBSET Headers]
  <2> HIDE DEF n
  <2> QED BY <1>1, <1>3, QueueType
<1>5. \A k \in 1 .. n : Arrived'[k] = Arrived[k + 1]
  BY <1>1
<1>6. Arrived' = [k \in 1 .. n |-> Arrived'[k]]
  BY DEF Arrived, Count
<1> DEFINE q == Arrived
           r == Arrived'
<1> HIDE DEF n, q, r
<1>7. r \in [1 .. n -> SUBSET Headers]
  <2>1. \A k \in 1 .. n : q[k + 1] \in SUBSET Headers
    BY <1>3, <1>4 DEF q
  <2>2. \A k \in 1 .. n : r[k] \in SUBSET Headers
    BY <2>1, <1>5 DEF q, r
  <2>3. r = [k \in 1 .. n |-> r[k]]
    BY <1>6 DEF r
  <2> QED BY <2>2, <2>3
<1>8. q # <<>> /\ Head(q) = q[1] /\ Tail(q) = r
  BY <1>3, <1>4, <1>5, <1>7, TailSeq DEF q, r
<1> QED
  BY <1>2, <1>8 DEF q, r

LEMMA ReceivedIsLast ==
  ASSUME InputInv, ~failed, NEW h \in Headers, InputReceive(h)
  PROVE  Arrived' = Append(Arrived, {h})
<1>1. /\ Count \in Nat /\ Count' = Count + 1
      /\ Arrived'[Count + 1] = {h} /\ \A k \in 1 .. Count : Arrived'[k] = Arrived[k]
      /\ Arrived \in [1 .. Count -> SUBSET Headers]
  BY Filled, CountType, QueueType DEF InputInv
<1>2. Arrived' = [k \in 1 .. Count' |-> Arrived'[k]]
  BY DEF Arrived, Count
<1> DEFINE n == Count
           q == Arrived
           r == Arrived'
<1>3. Arrived' = [k \in 1 .. n + 1 |-> Arrived'[k]]
  BY <1>1, <1>2
<1> HIDE DEF n, q, r
<1>4. /\ n \in Nat /\ q \in [1 .. n -> SUBSET Headers]
      /\ r[n + 1] = {h} /\ \A k \in 1 .. n : r[k] = q[k]
  BY <1>1 DEF n, q, r
<1>5. r \in [1 .. n + 1 -> SUBSET Headers]
  <2>1. r = [k \in 1 .. n + 1 |-> r[k]]
    BY <1>3 DEF r
  <2>2. \A k \in 1 .. n + 1 : r[k] \in SUBSET Headers
    BY <1>4
  <2> QED BY <2>1, <2>2
<1>6. r = Append(q, r[n + 1])
  BY <1>4, <1>5, GrownSeq
<1> QED
  BY <1>4, <1>6 DEF q, r

LEMMA QueueStep == InputInv /\ [NextInput]_<<vars, inVars>> => [Fifo!Next]_(Fifo!vars)
<1> SUFFICES ASSUME InputInv, [NextInput]_<<vars, inVars>>, ~failed'
             PROVE  [Fifo!Next]_(Fifo!vars)
  BY DEF Fifo!Next
<1>1. failed = FALSE /\ failed' = FALSE
  <2>1. TypeOK /\ TypeOK' /\ [Next]_vars
    BY InputIsRing, TypeStep DEF InputInv, IInv
  <2>2. failed => failed'
    BY <2>1 DEF Next, Driver, Hw, InitPost, InitFail, InitDone, RxEnter, RxPacket, RxPanic,
       RxDone, StackFree, HwReceive, HwFollowChain, HwStatus, RefillOk, RefillFails,
       RefillNoPacket, RefillNoSegment, vars
  <2> QED BY <2>1, <2>2 DEF TypeOK
<1>2. CASE InputEnter \/ InputOther \/ UNCHANGED <<vars, inVars>>
  <2>1. Arrived' = Arrived
    BY <1>2, EnterStep, OtherStep
  <2>2. input' = input
    BY <1>2 DEF InputEnter, InputOther, inVars
  <2> QED BY <1>1, <2>1, <2>2 DEF Fifo!vars
<1>3. CASE InputDrop
  <2>1. PICK h \in HeaderOf(rxPackets[BdIndex(rxCons)]) :
          /\ Garbage(h) /\ RxPacket("free")
          /\ content' = Emptied(rxPackets[BdIndex(rxCons)]) /\ input' = input
    BY <1>1, <1>3 DEF InputDrop
  <2>2. /\ h \in Headers
        /\ Arrived # <<>> /\ Head(Arrived) = {h} /\ Arrived' = Tail(Arrived)
    BY <2>1, TakenIsHead
  <2>3. {h} \in BadFrames
    BY <2>1, <2>2, GarbageIsBad
  <2>4. Fifo!Drop
    BY <1>1, <2>1, <2>2, <2>3 DEF Fifo!Drop
  <2> QED BY <2>4 DEF Fifo!Next
<1>4. CASE InputUp
  <2>1. PICK h \in HeaderOf(rxPackets[BdIndex(rxCons)]) :
          /\ ~Garbage(h) /\ RxPacket("stack")
          /\ content' = Emptied(rxPackets[BdIndex(rxCons)]) /\ input'.header = {h}
    BY <1>1, <1>4 DEF InputUp
  <2>2. /\ h \in Headers
        /\ Arrived # <<>> /\ Head(Arrived) = {h} /\ Arrived' = Tail(Arrived)
    BY <2>1, TakenIsHead
  <2>3. {h} \notin BadFrames
    BY <2>1, <2>2, GarbageIsBad
  <2>4. Fifo!HandUp
    BY <1>1, <2>1, <2>2, <2>3 DEF Fifo!HandUp
  <2> QED BY <2>4 DEF Fifo!Next
<1>5. ASSUME NEW h \in Headers, InputReceive(h) PROVE [Fifo!Next]_(Fifo!vars)
  <2>1. Arrived' = Append(Arrived, {h}) /\ input' = input
    BY <1>1, <1>5, ReceivedIsLast DEF InputReceive
  <2>2. Fifo!Receive({h})
    BY <1>1, <2>1 DEF Fifo!Receive
  <2> QED BY <2>2 DEF Fifo!Next
<1> QED
  BY <1>2, <1>3, <1>4, <1>5 DEF NextInput

\* handleRxInterrupt and the device together are a queue of frames: what is
\* received is taken in order and once, the bad frames are dropped and the others
\* handed up, for any ring, any mbufs and any headers, until a refill fails.
THEOREM RxFifoTheorem == SpecInput => IsRxFifo
BY QueueInit, QueueStep, InputInvariant, PTL DEF SpecInput, IsRxFifo, Fifo!Spec
=============================================================================
