---------------------------- MODULE TxRingProofs ----------------------------
(***************************************************************************)
(* Proofs about the transmit path, for every ring size, index width and    *)
(* set of packets.                                                         *)
(***************************************************************************)
EXTENDS TxQueue, RingIndexProofs

LEMMA Constants ==
  /\ MaxSeg \in Nat /\ MaxSeg >= 1 /\ MaxSeg < Usable - 1
  /\ NULL \notin Packets
  /\ Usable \in Nat /\ Usable >= 2
  /\ PosCount \in Nat /\ PosCount >= Usable
  /\ IndexSpace \in Nat /\ IndexSpace > Usable
  /\ 0 \in RingPos /\ 0 \in HwIndex /\ 0 \in Slot
  /\ Slot \subseteq 0 .. Usable /\ Usable \notin Slot
BY TxAssumption, RingAssumption, IndexSpaceFacts
   DEF Slot, HwIndex, RingPos, Usable

LEMMA Modulo ==
  ASSUME NEW x \in Int
  PROVE  /\ x % IndexSpace \in HwIndex
         /\ x \in HwIndex => x % IndexSpace = x
BY Constants DEF HwIndex

\* What TxFill does to the page: one usable descriptor is written, the chain
\* pointer is not.
LEMMA ChainUpdate ==
  ASSUME TypeOK, TxFill
  PROVE  /\ txChain' \in [0 .. Usable -> [pkt : Packets \cup {NULL},
                                         flags : SUBSET {"START", "END", "CHAIN"}]]
         /\ txChain'[Usable] = ChainPtr
         /\ BdIndex(txProd) \in Slot
         /\ txChain'[BdIndex(txProd)].pkt = outPkt
         /\ txChain'[BdIndex(txProd)].flags = BdFlags(outI)
         /\ \A t \in Slot : t # BdIndex(txProd) => txChain'[t] = txChain[t]
<1> DEFINE s == BdIndex(txProd)
           f == BdFlags(outI)
<1>1. s \in Slot
  BY RankForm DEF TypeOK
<1>2. s \in 0 .. Usable /\ s # Usable /\ Usable \in 0 .. Usable /\ Slot \subseteq 0 .. Usable
  BY <1>1, Constants DEF Slot
<1>3. f \in SUBSET {"START", "END", "CHAIN"}
  BY DEF BdFlags
<1>4. txChain' = [txChain EXCEPT ![s] = Bd(outPkt, f)]
  BY DEF TxFill
<1>5. /\ Bd(outPkt, f) \in [pkt : Packets \cup {NULL}, flags : SUBSET {"START", "END", "CHAIN"}]
      /\ Bd(outPkt, f).pkt = outPkt /\ Bd(outPkt, f).flags = f
  BY <1>3 DEF Bd, TypeOK
<1> HIDE DEF s, f
<1>6. txChain'[s] = Bd(outPkt, f)
  BY <1>2, <1>4 DEF TypeOK
<1>7. /\ txChain' \in [0 .. Usable -> [pkt : Packets \cup {NULL},
                                       flags : SUBSET {"START", "END", "CHAIN"}]]
      /\ txChain'[Usable] = ChainPtr
      /\ \A t \in Slot : t # s => txChain'[t] = txChain[t]
  BY <1>2, <1>4, <1>5 DEF TypeOK
<1> QED
  BY <1>1, <1>5, <1>6, <1>7 DEF s, f

LEMMA TypeInit == Init => TypeOK
<1> SUFFICES ASSUME Init PROVE TypeOK
  OBVIOUS
<1>1. Usable - 1 \in HwIndex
  BY Constants DEF HwIndex
<1>2. /\ txChain \in [0 .. Usable -> [pkt : Packets \cup {NULL},
                                      flags : SUBSET {"START", "END", "CHAIN"}]]
      /\ txChain[Usable] = ChainPtr
  BY Constants DEF Init, ChainPtr, Bd
<1>3. txPackets \in [Slot -> Packets \cup {NULL}]
  BY DEF Init
<1>4. outSegs \in 0 .. MaxSeg /\ outI \in 0 .. outSegs
  BY Constants DEF Init
<1>5. outPkt = NULL /\ outPc = "idle" /\ held = {}
  BY DEF Init
<1> QED
  BY <1>1, <1>2, <1>3, <1>4, <1>5, Constants DEF Init, TypeOK

\* Type correctness is preserved by every step, with either counter.
LEMMA TypeStep == TypeOK /\ [Next]_vars => TypeOK'
<1> SUFFICES ASSUME TypeOK, [Next]_vars PROVE TypeOK'
  OBVIOUS
<1> USE Constants
<1>1. ASSUME NEW p \in Packets, NEW n \in 0 .. MaxSeg, OutputPacket(p, n)
      PROVE  TypeOK'
  <2>1. /\ outPkt' \in Packets \cup {NULL} /\ (outPkt' = NULL <=> outPc' = "idle")
        /\ outPc' = "check" /\ held' \subseteq Packets
    BY <1>1 DEF OutputPacket, TypeOK
  <2>2. outSegs' \in 0 .. MaxSeg /\ outI' \in 0 .. outSegs'
    BY <1>1 DEF OutputPacket
  <2> QED
    BY <1>1, <2>1, <2>2 DEF OutputPacket, TypeOK, ringVars, irqVars, hwVars
<1>2. CASE SendDropped \/ QueueStall
  BY <1>2 DEF SendDropped, QueueStall, TypeOK, ringVars, irqVars, hwVars, queueVars
<1>3. CASE SendStall \/ SendFits
  BY <1>3 DEF SendStall, SendFits, TypeOK, ringVars, irqVars, hwVars, queueVars
<1>4. CASE TxFill
  <2>1. BdIndex(txProd) \in Slot /\ NextBd(txProd) \in RingPos
    BY RankForm, NextBdStep DEF TypeOK
  <2>3. /\ txChain' \in [0 .. Usable -> [pkt : Packets \cup {NULL},
                                         flags : SUBSET {"START", "END", "CHAIN"}]]
        /\ txChain'[Usable] = ChainPtr
    BY <1>4, ChainUpdate
  <2>4. outI' \in 0 .. outSegs
    BY <1>4 DEF TxFill, TypeOK
  <2> QED
    BY <1>4, <2>1, <2>3, <2>4 DEF TxFill, TypeOK, irqVars, hwVars, queueVars
<1>5. CASE TxStore
  BY <1>5 DEF TxStore, TypeOK, irqVars, hwVars, queueVars
<1>6. CASE TxSubtract \/ TxSubtractStore
  <2>1. txFreeDescriptors' \in HwIndex
    <3>1. txFreeDescriptors - outSegs \in Int /\ outFree - outSegs \in Int
      BY DEF TypeOK, HwIndex
    <3> QED BY <1>6, <3>1, Modulo DEF TxSubtract, TxSubtractStore
  <2> QED
    BY <1>6, <2>1 DEF TxSubtract, TxSubtractStore, TypeOK, irqVars, hwVars, queueVars
<1>7. CASE TxSubtractLoad
  BY <1>7 DEF TxSubtractLoad, TypeOK, ringVars, irqVars, hwVars, queueVars
<1>8. CASE TxNotify
  BY <1>8 DEF TxNotify, TypeOK, ringVars, irqVars, queueVars
<1>9. CASE IrqEnter
  <2>1. ReadCons(statusCons) \in RingPos
    BY ReadConsType DEF TypeOK
  <2> QED
    BY <1>9, <2>1 DEF IrqEnter, TypeOK, ringVars, outVars, hwVars, queueVars
<1>10. CASE IrqReclaim
  BY <1>10 DEF IrqReclaim, TypeOK, outVars, hwVars, queueVars
<1>11. CASE IrqCount \/ IrqCountStore
  <2>1. NextBd(txCons) \in RingPos
    BY NextBdStep DEF TypeOK
  <2>2. txFreeDescriptors' \in HwIndex
    <3>1. txFreeDescriptors + 1 \in Int /\ irqFree + 1 \in Int
      BY DEF TypeOK, HwIndex
    <3> QED BY <1>11, <3>1, Modulo DEF IrqCount, IrqCountStore
  <2> QED
    BY <1>11, <2>1, <2>2 DEF IrqCount, IrqCountStore, TypeOK, outVars, hwVars, queueVars
<1>12. CASE IrqCountLoad \/ IrqService
  BY <1>12 DEF IrqCountLoad, IrqService, TypeOK, ringVars, outVars, hwVars, queueVars
<1>13. CASE Hw
  <2>1. hwCons + 1 \in Int
    BY DEF TypeOK, HwIndex
  <2>2. (hwCons + 1) % IndexSpace \in HwIndex
    BY <2>1, Modulo
  <2> QED
    BY <1>13, <2>2 DEF Hw, HwTransmit, HwFollowChain, HwStatus, TypeOK, ringVars,
                       outVars, irqVars, queueVars
<1>14. CASE UNCHANGED vars
  BY <1>14 DEF vars, TypeOK, ringVars, outVars, irqVars, hwVars, queueVars
<1> QED
  BY <1>1, <1>2, <1>3, <1>4, <1>5, <1>6, <1>7, <1>8, <1>9, <1>10, <1>11, <1>12,
     <1>13, <1>14 DEF Next, Output, Irq

\* The state of the transmit path is well typed: in particular the driver's
\* indexes never stand on the chain pointer, which is never overwritten.
THEOREM TypeCorrect == Spec => []TypeOK
<1> QED
  BY TypeInit, TypeStep, PTL DEF Spec
-----------------------------------------------------------------------------
(***************************************************************************)
(* The loop of handleTxInterrupt.                                          *)
(***************************************************************************)
\* The descriptors it has still to walk over, and what is left of a turn.
WalkLeft == Dist(txCons, irqCons)
TurnLeft == [loop |-> 2, count |-> 1, countStore |-> 0]

\* While it runs nobody else touches its indexes, and each step of it ends it
\* where it was meant to, goes on with its turn or leaves one descriptor less.
WalkShrinks ==
  [][(irqPc # "idle" =>
        \/ irqPc' = "idle" /\ txCons = irqCons
        \/ WalkLeft' = WalkLeft - 1 /\ WalkLeft' \in Nat
        \/ WalkLeft' = WalkLeft /\ TurnLeft[irqPc'] < TurnLeft[irqPc]
        \/ UNCHANGED <<irqPc, txCons, irqCons>>)]_vars

\* A turn is begun only before the index it was called with.
InTurn == irqPc \in {"count", "countStore"} => txCons # irqCons

LEMMA InTurnStep == InTurn /\ [Next]_vars => InTurn'
<1> SUFFICES ASSUME InTurn, [Next]_vars PROVE InTurn'
  OBVIOUS
<1>1. CASE Irq
  BY <1>1 DEF Irq, IrqEnter, IrqReclaim, IrqCount, IrqCountLoad, IrqCountStore, IrqService,
              InTurn, ringVars
<1>2. CASE UNCHANGED <<irqVars, txCons>>
  BY <1>2 DEF InTurn, irqVars
<1> QED
  BY <1>1, <1>2 DEF Next, Output, OutputPacket, SendDropped, SendStall, QueueStall, SendFits,
     TxFill, TxStore, TxSubtract, TxSubtractLoad, TxSubtractStore, TxNotify, Hw, HwTransmit,
     HwFollowChain, HwStatus, vars, ringVars

LEMMA WalkStep ==
  ASSUME TypeOK, InTurn, Irq, irqPc # "idle"
  PROVE  \/ irqPc' = "idle" /\ txCons = irqCons
         \/ WalkLeft' = WalkLeft - 1 /\ WalkLeft' \in Nat
         \/ WalkLeft' = WalkLeft /\ TurnLeft[irqPc'] < TurnLeft[irqPc]
<1>1. txCons \in RingPos /\ irqCons \in RingPos
  BY DEF TypeOK
<1>2. CASE IrqService
  BY <1>2 DEF IrqService
<1>3. CASE IrqReclaim \/ IrqCountLoad
  <2>1. /\ UNCHANGED <<txCons, irqCons>>
        /\ \/ irqPc = "loop" /\ irqPc' = "count"
           \/ irqPc = "count" /\ irqPc' = "countStore"
    BY <1>3 DEF IrqReclaim, IrqCountLoad, ringVars
  <2> QED BY <2>1 DEF WalkLeft, TurnLeft
<1>4. CASE IrqCount \/ IrqCountStore
  <2>1. txCons' = NextBd(txCons) /\ irqCons' = irqCons /\ txCons # irqCons
    BY <1>4 DEF IrqCount, IrqCountStore, InTurn
  <2>2. Dist(txCons, irqCons) \in Nat /\ Dist(txCons, irqCons) > 0
    BY <1>1, <2>1, DistRange, IndexSpaceFacts
  <2>3. Dist(NextBd(txCons), irqCons) = Dist(txCons, irqCons) - 1
    BY <1>1, <2>2, DistNextFrom
  <2> QED BY <2>1, <2>2, <2>3 DEF WalkLeft
<1> QED
  BY <1>2, <1>3, <1>4 DEF Irq, IrqEnter

\* The loop of handleTxInterrupt, which tests for equality, comes to its end at
\* the index it was called with, whether or not updates of the counter are lost.
THEOREM WalkTheorem == Spec => WalkShrinks
<1>1. Init => InTurn
  BY DEF Init, InTurn
<1>2. TypeOK /\ InTurn /\ [Next]_vars =>
        [(irqPc # "idle" =>
            \/ irqPc' = "idle" /\ txCons = irqCons
            \/ WalkLeft' = WalkLeft - 1 /\ WalkLeft' \in Nat
            \/ WalkLeft' = WalkLeft /\ TurnLeft[irqPc'] < TurnLeft[irqPc]
            \/ UNCHANGED <<irqPc, txCons, irqCons>>)]_vars
  <2>1. ASSUME Output \/ Hw PROVE UNCHANGED <<irqPc, txCons, irqCons>>
    BY <2>1 DEF Output, OutputPacket, SendDropped, SendStall, QueueStall, SendFits,
       TxFill, TxStore, TxSubtract, TxSubtractLoad, TxSubtractStore, TxNotify, Hw, HwTransmit,
       HwFollowChain, HwStatus, ringVars, irqVars
  <2> QED BY <2>1, WalkStep DEF Next
<1> QED
  BY <1>1, <1>2, InTurnStep, TypeCorrect, PTL DEF Spec, WalkShrinks
-----------------------------------------------------------------------------
(***************************************************************************)
(* The inductive invariant.  First what the places in the ring are.        *)
(***************************************************************************)
LEMMA Places ==
  ASSUME TypeOK
  PROVE  /\ D(txProd) \in 0 .. PosCount - 1 /\ D(hwProd) \in 0 .. PosCount - 1
         /\ D(irqCons) \in 0 .. PosCount - 1
         /\ D(ReadCons(hwCons)) \in 0 .. PosCount - 1
         /\ D(ReadCons(statusCons)) \in 0 .. PosCount - 1
         /\ BdIndex(txCons) \in Slot /\ Off(BdIndex(txCons)) = 0
         /\ \A s \in Slot : Off(s) \in 0 .. Usable - 1
         /\ \A s, t \in Slot : Off(s) = Off(t) => s = t
         /\ txFreeDescriptors \in Nat /\ outI \in Nat /\ outSegs \in Nat
<1>1. /\ txCons \in RingPos /\ ReadCons(hwCons) \in RingPos
      /\ ReadCons(statusCons) \in RingPos /\ txProd \in RingPos
      /\ hwProd \in RingPos /\ irqCons \in RingPos
  BY ReadConsType DEF TypeOK
<1>2. BdIndex(txCons) \in Slot
  BY <1>1, RankForm
<1>3. txFreeDescriptors \in Nat /\ outI \in Nat /\ outSegs \in Nat
  BY Constants DEF TypeOK, HwIndex
<1>4. /\ \A s \in Slot : Off(s) \in 0 .. Usable - 1
      /\ \A s, t \in Slot : Off(s) = Off(t) => s = t
      /\ Off(BdIndex(txCons)) = 0
  BY <1>2, SlotDistFacts DEF Off
<1> QED
  BY <1>1, <1>2, <1>3, <1>4, DistRange DEF D

LEMMA InitInv == Init => IInv
<1> SUFFICES ASSUME Init PROVE IInv
  OBVIOUS
<1>1. TypeOK
  BY TypeInit
<1>2. ReadCons(0) = 0 /\ Dist(0, 0) = 0
  BY Constants, DistRange, IndexSpaceFacts DEF ReadCons
<1>3. D(txProd) = 0 /\ D(hwProd) = 0 /\ D(ReadCons(hwCons)) = 0 /\ D(ReadCons(statusCons)) = 0
  BY <1>2 DEF Init, D
<1>4. \A s \in Slot : ~(Off(s) < 0)
  BY <1>1, Places, Constants
<1>5. \A s \in Slot : txPackets[s] = NULL
  BY DEF Init
<1>6. PcInv /\ OrderInv /\ FreeCountExact /\ LastIndexInv /\ WakeInv
  BY <1>3, Constants DEF Init, PcInv, OrderInv, Unnotified, FreeCountExact, InFlight,
                         LastIndexInv, WakeInv
<1>7. RecordInv /\ Ownership
  BY <1>5, Constants DEF Init, RecordInv, Ownership, Recorded
<1>8. FilledInv /\ EndInv /\ CoverInv
  <2>1. outPc # "fill" /\ Stored = 0
    BY <1>3 DEF Init, Stored
  <2> QED
    BY <2>1, <1>4 DEF FilledInv, EndInv, CoverInv
<1> QED
  BY <1>1, <1>6, <1>7, <1>8 DEF IInv

LEMMA OutputPacketStep ==
  ASSUME IInv, NEW p \in Packets, NEW n \in 0 .. MaxSeg, OutputPacket(p, n)
  PROVE  IInv'
<1>1. TypeOK'
  BY TypeStep DEF IInv, Next, Output
<1>2. PcInv' /\ OrderInv' /\ FreeCountExact' /\ LastIndexInv'
  BY Places, Constants DEF IInv, OutputPacket, TypeOK, ringVars, outVars, irqVars, hwVars, queueVars, PcInv, OrderInv, Unnotified, FreeCountExact, InFlight, LastIndexInv, D, Off
<1>3. RecordInv' /\ Ownership'
  <2>1. /\ txPackets' = txPackets /\ txCons' = txCons /\ txProd' = txProd
        /\ hwProd' = hwProd /\ outIndex' = outIndex /\ irqPc' = irqPc
        /\ outPc = "idle" /\ outPc' = "check" /\ outPkt' = p /\ p \notin held
        /\ held' = held \cup {p}
    BY DEF OutputPacket, ringVars, irqVars, hwVars
  <2>2. outPkt = NULL /\ held = Recorded \ {NULL}
    BY <2>1 DEF IInv, TypeOK, Ownership
  <2>3. Recorded' = Recorded /\ p \notin Recorded /\ p # NULL
    BY <2>1, <2>2, Constants DEF Recorded
  <2>4. Stored' = Stored /\ \A s \in Slot : Off(s)' = Off(s)
    BY <2>1 DEF Stored, D, Off
  <2>5. RecordInv'
    BY <2>1, <2>3, <2>4 DEF IInv, RecordInv
  <2>6. held' = (Recorded' \cup {outPkt'}) \ {NULL}
    BY <2>1, <2>2, <2>3
  <2>7. Ownership'
    BY <2>1, <2>6 DEF IInv, Ownership
  <2> QED BY <2>5, <2>7
<1>4. FilledInv' /\ EndInv' /\ CoverInv'
  BY Places, Constants DEF IInv, OutputPacket, TypeOK, ringVars, outVars, irqVars, hwVars, queueVars, FilledInv, EndInv, CoverInv, Stored, D, Off
<1>5. WakeInv'
  BY Places, Constants DEF IInv, OutputPacket, TypeOK, ringVars, outVars, irqVars, hwVars, queueVars, WakeInv, D
<1> QED
  BY <1>1, <1>2, <1>3, <1>4, <1>5 DEF IInv

LEMMA SendDroppedStep ==
  ASSUME IInv, SendDropped
  PROVE  IInv'
<1>1. TypeOK'
  BY TypeStep DEF IInv, Next, Output
<1>2. PcInv' /\ OrderInv' /\ FreeCountExact' /\ LastIndexInv'
  BY Places, Constants DEF IInv, SendDropped, TypeOK, ringVars, outVars, irqVars, hwVars, queueVars, PcInv, OrderInv, Unnotified, FreeCountExact, InFlight, LastIndexInv, D, Off
<1>3. RecordInv' /\ Ownership'
  <2>1. /\ UNCHANGED <<txPackets, txCons, txProd, hwProd, outIndex, irqPc>>
        /\ outPc = "check" /\ outPc' = "idle" /\ outPkt' = NULL /\ held' = held \ {outPkt}
    BY DEF SendDropped, ringVars, irqVars, hwVars
  <2>2. Recorded' = Recorded /\ Stored' = Stored /\ \A s \in Slot : Off(s)' = Off(s)
    BY <2>1 DEF Recorded, Stored, D, Off
  <2>3. RecordInv'
    BY <2>1, <2>2 DEF IInv, RecordInv
  <2>4. held' = (Recorded' \cup {outPkt'}) \ {NULL}
    BY <2>1, <2>2 DEF IInv, Ownership, RecordInv
  <2>5. Ownership'
    BY <2>1, <2>4 DEF IInv, Ownership
  <2> QED BY <2>3, <2>5
<1>4. FilledInv' /\ EndInv' /\ CoverInv'
  BY Places, Constants DEF IInv, SendDropped, TypeOK, ringVars, outVars, irqVars, hwVars, queueVars, FilledInv, EndInv, CoverInv, Stored, D, Off
<1>5. WakeInv'
  BY Places, Constants DEF IInv, SendDropped, TypeOK, ringVars, outVars, irqVars, hwVars, queueVars, WakeInv, D
<1> QED
  BY <1>1, <1>2, <1>3, <1>4, <1>5 DEF IInv

LEMMA SendStallStep ==
  ASSUME IInv, SendStall
  PROVE  IInv'
<1>1. TypeOK'
  BY TypeStep DEF IInv, Next, Output
<1>2. PcInv' /\ OrderInv' /\ FreeCountExact' /\ LastIndexInv'
  BY Places, Constants DEF IInv, SendStall, TypeOK, ringVars, outVars, irqVars, hwVars, queueVars, PcInv, OrderInv, Unnotified, FreeCountExact, InFlight, LastIndexInv, D, Off
<1>3. RecordInv' /\ Ownership'
  <2>1. /\ UNCHANGED <<txPackets, txCons, txProd, hwProd, outIndex, irqPc>>
        /\ outPc = "check" /\ outPc' = "stall" /\ outPkt' = outPkt /\ held' = held
    BY DEF SendStall, ringVars, irqVars, hwVars
  <2>2. Recorded' = Recorded /\ Stored' = Stored /\ \A s \in Slot : Off(s)' = Off(s)
    BY <2>1 DEF Recorded, Stored, D, Off
  <2>3. RecordInv'
    BY <2>1, <2>2 DEF IInv, RecordInv
  <2>4. held' = (Recorded' \cup {outPkt'}) \ {NULL}
    BY <2>1, <2>2 DEF IInv, Ownership
  <2>5. Ownership'
    BY <2>1, <2>4 DEF IInv, Ownership
  <2> QED BY <2>3, <2>5
<1>4. FilledInv' /\ EndInv' /\ CoverInv'
  BY Places, Constants DEF IInv, SendStall, TypeOK, ringVars, outVars, irqVars, hwVars, queueVars, FilledInv, EndInv, CoverInv, Stored, D, Off
<1>5. WakeInv'
  BY Places, Constants DEF IInv, SendStall, TypeOK, ringVars, outVars, irqVars, hwVars, queueVars, WakeInv,
     D, FreeCountExact, InFlight, OrderInv, Unnotified
<1> QED
  BY <1>1, <1>2, <1>3, <1>4, <1>5 DEF IInv

LEMMA QueueStallStep ==
  ASSUME IInv, QueueStall
  PROVE  IInv'
<1>1. TypeOK'
  BY TypeStep DEF IInv, Next, Output
<1>2. PcInv' /\ OrderInv' /\ FreeCountExact' /\ LastIndexInv'
  BY Places, Constants DEF IInv, QueueStall, TypeOK, ringVars, outVars, irqVars, hwVars, queueVars, PcInv, OrderInv, Unnotified, FreeCountExact, InFlight, LastIndexInv, D, Off
<1>3. RecordInv' /\ Ownership'
  <2>1. /\ UNCHANGED <<txPackets, txCons, txProd, hwProd, outIndex, irqPc>>
        /\ outPc = "stall" /\ outPc' = "idle" /\ outPkt' = NULL /\ held' = held \ {outPkt}
    BY DEF QueueStall, ringVars, irqVars, hwVars
  <2>2. Recorded' = Recorded /\ Stored' = Stored /\ \A s \in Slot : Off(s)' = Off(s)
    BY <2>1 DEF Recorded, Stored, D, Off
  <2>3. RecordInv'
    BY <2>1, <2>2 DEF IInv, RecordInv
  <2>4. held' = (Recorded' \cup {outPkt'}) \ {NULL}
    BY <2>1, <2>2 DEF IInv, Ownership, RecordInv
  <2>5. Ownership'
    BY <2>1, <2>4 DEF IInv, Ownership
  <2> QED BY <2>3, <2>5
<1>4. FilledInv' /\ EndInv' /\ CoverInv'
  BY Places, Constants DEF IInv, QueueStall, TypeOK, ringVars, outVars, irqVars, hwVars, queueVars, FilledInv, EndInv, CoverInv, Stored, D, Off
<1>5. WakeInv'
  BY Places, Constants DEF IInv, QueueStall, TypeOK, ringVars, outVars, irqVars, hwVars, queueVars, WakeInv, D
<1> QED
  BY <1>1, <1>2, <1>3, <1>4, <1>5 DEF IInv

LEMMA SendFitsStep ==
  ASSUME IInv, SendFits
  PROVE  IInv'
<1>1. TypeOK'
  BY TypeStep DEF IInv, Next, Output
<1>2. PcInv' /\ OrderInv' /\ FreeCountExact' /\ LastIndexInv' /\ WakeInv'
  BY Places, Constants
     DEF IInv, SendFits, TypeOK, ringVars, irqVars, hwVars, queueVars, PcInv, OrderInv,
         Unnotified, FreeCountExact, InFlight, LastIndexInv, WakeInv, D, Off
<1>3. /\ D(txProd)' = D(txProd) /\ D(hwProd)' = D(hwProd)
      /\ D(ReadCons(hwCons))' = D(ReadCons(hwCons))
      /\ \A s \in Slot : Off(s)' = Off(s)
  BY DEF SendFits, D, Off, ringVars, hwVars
<1>4. Stored = D(txProd) /\ Stored' = D(txProd) /\ D(hwProd) = D(txProd)
  BY <1>3, Places DEF IInv, SendFits, Stored, OrderInv, Unnotified
<1>5. RecordInv' /\ Ownership'
  BY <1>3, <1>4
     DEF IInv, SendFits, ringVars, irqVars, RecordInv, Ownership, Recorded
<1>6. FilledInv'
  BY <1>3, <1>4, Places, Constants DEF IInv, FilledInv
<1>7. EndInv' /\ CoverInv'
  BY <1>3, <1>4 DEF IInv, SendFits, ringVars, EndInv, CoverInv
<1> QED
  BY <1>1, <1>2, <1>5, <1>6, <1>7 DEF IInv

\* Where the descriptor being filled lies: less than a lap ahead of txCons.
LEMMA FillPlace ==
  ASSUME IInv, TxFill
  PROVE  /\ D(txProd) < Usable - 2
         /\ BdIndex(txProd) \in Slot /\ Off(BdIndex(txProd)) = D(txProd)
         /\ Dist(txCons, NextBd(txProd)) = D(txProd) + 1
         /\ D(txProd) = D(hwProd) + outI
<1>1. /\ D(txProd) < Usable - 2 /\ D(txProd) < PosCount - 1
      /\ D(txProd) = D(hwProd) + outI
  BY Places, Constants
     DEF IInv, TxFill, PcInv, FreeCountExact, InFlight, OrderInv, Unnotified
<1>2. txCons \in RingPos /\ txProd \in RingPos
  BY DEF IInv, TypeOK
<1>3. Dist(txCons, NextBd(txProd)) = D(txProd) + 1
  BY <1>1, <1>2, DistNextTo DEF D
<1>4. Off(BdIndex(txProd)) = D(txProd)
  <2>1. Dist(txCons, txProd) < Usable
    BY <1>1, Constants, Places DEF D, IInv
  <2> QED BY <2>1, <1>2, DistIsSlotDist DEF D, Off
<1> QED
  BY <1>1, <1>2, <1>3, <1>4, RankForm

LEMMA TxFillStep ==
  ASSUME IInv, TxFill
  PROVE  IInv'
<1>1. TypeOK'
  BY TypeStep DEF IInv, Next, Output
<1>2. /\ D(txProd)' = D(txProd) + 1 /\ D(hwProd)' = D(hwProd)
      /\ D(ReadCons(hwCons))' = D(ReadCons(hwCons))
      /\ D(ReadCons(statusCons))' = D(ReadCons(statusCons))
      /\ D(irqCons)' = D(irqCons)
      /\ Stored = D(hwProd) /\ Stored' = D(hwProd)
  BY FillPlace DEF TxFill, D, Stored, irqVars, hwVars
<1>3. \A s \in Slot : Off(s)' = Off(s)
  BY DEF TxFill, Off
<1>4. PcInv' /\ OrderInv' /\ FreeCountExact'
  BY <1>2, FillPlace, Places, Constants
     DEF IInv, TxFill, irqVars, hwVars, PcInv, OrderInv, Unnotified, FreeCountExact, InFlight
<1>5. LastIndexInv'
  <2>1. outIndex' = BdIndex(txProd) /\ Off(outIndex)' = D(txProd)
    BY FillPlace DEF TxFill, Off
  <2> QED BY <2>1, <1>2, Places DEF LastIndexInv, IInv
<1>6. RecordInv' /\ Ownership'
  BY <1>2, <1>3 DEF IInv, TxFill, irqVars, RecordInv, Ownership, Recorded
<1>7. FilledInv'
  <2> SUFFICES ASSUME NEW s \in Slot, D(hwProd) <= Off(s), Off(s) < D(txProd) + 1
               PROVE  /\ txChain'[s].pkt = outPkt
                      /\ "END" \in txChain'[s].flags <=> Off(s) = D(hwProd) + outSegs - 1
    BY <1>2, <1>3 DEF FilledInv, TxFill
  <2>1. CASE s = BdIndex(txProd)
    <3>1. txChain'[s].pkt = outPkt /\ txChain'[s].flags = BdFlags(outI)
      BY <2>1, ChainUpdate DEF IInv
    <3>2. Off(s) = D(hwProd) + outI
      BY <2>1, FillPlace
    <3>3. "END" \in BdFlags(outI) <=> outI = outSegs - 1
      BY DEF BdFlags
    <3> QED BY <3>1, <3>2, <3>3, Places DEF IInv
  <2>2. CASE s # BdIndex(txProd)
    <3>1. txChain'[s] = txChain[s]
      BY <2>2, ChainUpdate DEF IInv
    <3>2. Off(s) < D(txProd)
      <4>1. Off(s) # D(txProd)
        BY <2>2, FillPlace, Places DEF IInv
      <4> QED BY <4>1, Places, Constants DEF IInv
    <3> QED BY <3>1, <3>2 DEF IInv, FilledInv, TxFill
  <2> QED BY <2>1, <2>2
<1>8. EndInv' /\ CoverInv'
  <2>1. \A s \in Slot : Off(s) < D(hwProd) => txChain'[s] = txChain[s]
    <3> SUFFICES ASSUME NEW s \in Slot, Off(s) < D(hwProd)
                 PROVE  s # BdIndex(txProd)
      BY ChainUpdate DEF IInv
    <3> QED BY FillPlace, Places, Constants DEF IInv
  <2>2. txPackets' = txPackets
    BY DEF TxFill
  <2> QED BY <1>2, <1>3, <2>1, <2>2 DEF IInv, EndInv, CoverInv
<1>9. WakeInv'
  BY <1>2 DEF IInv, WakeInv, TxFill, irqVars, queueVars
<1> QED
  BY <1>1, <1>4, <1>5, <1>6, <1>7, <1>8, <1>9 DEF IInv

LEMMA TxStoreStep ==
  ASSUME IInv, TxStore
  PROVE  IInv'
<1>1. TypeOK'
  BY TypeStep DEF IInv, Next, Output
<1>2. /\ D(txProd)' = D(txProd) /\ D(hwProd)' = D(hwProd)
      /\ D(ReadCons(hwCons))' = D(ReadCons(hwCons))
      /\ D(ReadCons(statusCons))' = D(ReadCons(statusCons))
      /\ D(irqCons)' = D(irqCons) /\ \A s \in Slot : Off(s)' = Off(s)
      /\ Stored = D(hwProd) /\ Stored' = D(txProd)
  BY DEF TxStore, D, Off, Stored, irqVars, hwVars
<1>3. /\ outIndex \in Slot /\ outI = outSegs /\ outSegs > 0
      /\ D(txProd) = D(hwProd) + outSegs /\ Off(outIndex) = D(txProd) - 1
  BY Places DEF IInv, TypeOK, TxStore, PcInv, OrderInv, Unnotified, LastIndexInv
<1>4. /\ txPackets'[outIndex] = outPkt
      /\ \A s \in Slot : s # outIndex => txPackets'[s] = txPackets[s]
  BY <1>3 DEF IInv, TypeOK, TxStore
<1>5. outPkt # NULL /\ outPkt \notin Recorded /\ txPackets[outIndex] = NULL
  <2>1. outPkt # NULL /\ outPkt \notin Recorded
    BY DEF IInv, TypeOK, TxStore, RecordInv
  <2>2. ~(Off(outIndex) < Stored)
    BY <1>2, <1>3, Places DEF IInv
  <2> QED BY <2>1, <2>2, <1>3 DEF IInv, RecordInv
<1>6. PcInv' /\ OrderInv' /\ FreeCountExact' /\ LastIndexInv'
  BY <1>2, <1>3, Places
     DEF IInv, TxStore, irqVars, hwVars, PcInv, OrderInv, Unnotified, FreeCountExact,
         InFlight, LastIndexInv, Off
<1>7. Recorded' = Recorded \cup {outPkt} \/ Recorded' \cup {NULL} = Recorded \cup {outPkt, NULL}
  BY <1>3, <1>4, <1>5 DEF Recorded
<1>8. RecordInv'
  <2>1. \A s \in Slot : txPackets'[s] # NULL => Off(s)' < Stored'
    BY <1>2, <1>3, <1>4, Places, Constants DEF IInv, RecordInv
  <2>2. irqPc' = "count" => txPackets'[BdIndex(txCons')] = NULL
    <3>1. irqPc = "count" => outIndex # BdIndex(txCons)
      <4>1. irqPc = "count" => D(hwProd) > 0
        BY Places DEF IInv, OrderInv
      <4> QED BY <4>1, <1>3, Places DEF IInv
    <3> QED BY <3>1, <1>4, Places DEF IInv, RecordInv, TxStore, irqVars
  <2>3. outPc' = "subtract" /\ outIndex' = outIndex /\ outPkt' = outPkt
    BY DEF TxStore
  <2> QED BY <2>1, <2>2, <2>3, <1>4 DEF RecordInv
<1>9. Ownership'
  <2>1. \A s \in Slot : txPackets[s] # outPkt
    BY <1>5 DEF Recorded
  <2>2. held' = held /\ outPkt' = outPkt
    BY DEF TxStore
  <2>3. held' = (Recorded' \cup {outPkt'}) \ {NULL}
    BY <2>2, <1>7 DEF IInv, Ownership
  <2>4. \A s, t \in Slot : txPackets'[s] = txPackets'[t] /\ txPackets'[s] # NULL => s = t
    BY <2>1, <1>4 DEF IInv, Ownership
  <2> QED BY <2>3, <2>4 DEF Ownership
<1>10. FilledInv'
  BY DEF FilledInv, TxStore
<1>11. EndInv' /\ CoverInv'
  <2> SUFFICES ASSUME NEW s \in Slot, D(ReadCons(hwCons)) <= Off(s), Off(s) < D(txProd)
               PROVE  /\ txPackets'[s] = IF "END" \in txChain[s].flags
                                         THEN txChain[s].pkt ELSE NULL
                      /\ txChain[s].pkt # NULL
                      /\ \E t \in Slot : Off(s) <= Off(t) /\ txPackets'[t] = txChain[s].pkt
    BY <1>2 DEF EndInv, CoverInv, TxStore
  <2>1. CASE Off(s) < D(hwProd)
    <3>1. s # outIndex
      BY <2>1, <1>3, Places DEF IInv
    <3>2. txPackets'[s] = txPackets[s]
      BY <3>1, <1>4
    <3>3. \A t \in Slot : txPackets[t] # NULL => txPackets'[t] = txPackets[t]
      BY <1>4, <1>5
    <3> QED BY <2>1, <3>2, <3>3, <1>2 DEF IInv, EndInv, CoverInv
  <2>2. CASE D(hwProd) <= Off(s)
    <3>1. /\ txChain[s].pkt = outPkt
          /\ "END" \in txChain[s].flags <=> Off(s) = D(hwProd) + outSegs - 1
      BY <2>2 DEF IInv, FilledInv, TxStore
    <3>2. Off(s) <= Off(outIndex) /\ (Off(s) = Off(outIndex) <=> s = outIndex)
      BY <1>3, Places DEF IInv
    <3>3. s # outIndex => txPackets'[s] = NULL
      <4>1. ~(Off(s) < Stored)
        BY <2>2, <1>2, Places, Constants DEF IInv
      <4> QED BY <4>1, <1>4 DEF IInv, RecordInv
    <3>4. "END" \in txChain[s].flags <=> s = outIndex
      BY <3>1, <3>2, <1>3, Places DEF IInv
    <3> QED BY <3>1, <3>2, <3>3, <3>4, <1>3, <1>4, <1>5
  <2> QED BY <2>1, <2>2, Places, Constants DEF IInv
<1>12. WakeInv'
  BY <1>2 DEF IInv, WakeInv, TxStore, irqVars, queueVars
<1> QED
  BY <1>1, <1>6, <1>8, <1>9, <1>10, <1>11, <1>12 DEF IInv

LEMMA TxSubtractStep ==
  ASSUME IInv, TxSubtract
  PROVE  IInv'
<1>1. TypeOK'
  BY TypeStep DEF IInv, Next, Output
<1>0. txFreeDescriptors' = txFreeDescriptors - outSegs
  <2>1. txFreeDescriptors - outSegs \in HwIndex
    BY Places, Constants DEF IInv, PcInv, TxSubtract, TypeOK, HwIndex
  <2> QED BY <2>1, Modulo DEF TxSubtract, HwIndex
<1>2. PcInv' /\ OrderInv' /\ FreeCountExact' /\ LastIndexInv'
  <2>1. /\ D(txProd)' = D(txProd) /\ D(hwProd)' = D(hwProd)
        /\ D(ReadCons(hwCons))' = D(ReadCons(hwCons))
        /\ D(ReadCons(statusCons))' = D(ReadCons(statusCons))
        /\ D(irqCons)' = D(irqCons) /\ Off(outIndex)' = Off(outIndex)
    BY DEF TxSubtract, D, Off, irqVars, hwVars
  <2>2. PcInv' /\ OrderInv' /\ LastIndexInv'
    BY <2>1 DEF IInv, TxSubtract, irqVars, PcInv, OrderInv, Unnotified, LastIndexInv
  <2>3. FreeCountExact'
    <3>1. outPc = "subtract" /\ outPc' = "notify" /\ outI = outSegs
      BY DEF TxSubtract, IInv, PcInv
    <3>2. txFreeDescriptors + D(txProd) = Usable - 1 + outSegs /\ D(txProd) < Usable - 1
      BY <3>1 DEF IInv, FreeCountExact, InFlight
    <3>3. txFreeDescriptors' + D(txProd)' = Usable - 1 + 0
      BY <3>2, <2>1, <1>0, Places, Constants DEF IInv
    <3> QED BY <3>1, <3>2, <3>3, <2>1 DEF FreeCountExact, InFlight
  <2> QED BY <2>2, <2>3
<1>3. RecordInv' /\ Ownership'
  BY Places, Constants DEF IInv, TxSubtract, TypeOK, ringVars, outVars, irqVars, hwVars, queueVars, RecordInv, Ownership, Recorded, Stored, D, Off
<1>4. FilledInv' /\ EndInv' /\ CoverInv'
  BY Places, Constants DEF IInv, TxSubtract, TypeOK, ringVars, outVars, irqVars, hwVars, queueVars, FilledInv, EndInv, CoverInv, Stored, D, Off
<1>5. WakeInv'
  BY Places, Constants DEF IInv, TxSubtract, TypeOK, ringVars, outVars, irqVars, hwVars, queueVars, WakeInv, D
<1> QED
  BY <1>1, <1>2, <1>3, <1>4, <1>5 DEF IInv

LEMMA TxNotifyStep ==
  ASSUME IInv, TxNotify
  PROVE  IInv'
<1>1. TypeOK'
  BY TypeStep DEF IInv, Next, Output
<1>2. PcInv' /\ OrderInv' /\ FreeCountExact' /\ LastIndexInv'
  <2>1. /\ D(txProd)' = D(txProd) /\ D(hwProd)' = D(txProd)
        /\ D(ReadCons(hwCons))' = D(ReadCons(hwCons))
        /\ D(ReadCons(statusCons))' = D(ReadCons(statusCons))
        /\ D(irqCons)' = D(irqCons)
    BY DEF TxNotify, D, ringVars, irqVars
  <2>2. /\ outPc = "notify" /\ outPc' = "idle" /\ irqPc' = irqPc
        /\ txFreeDescriptors' = txFreeDescriptors
    BY DEF TxNotify, ringVars, irqVars
  <2>3. PcInv'
    BY <2>2 DEF IInv, PcInv
  <2>4. OrderInv'
    <3>1. D(ReadCons(hwCons)) <= D(txProd)
      BY <2>2, Places DEF IInv, OrderInv, Unnotified
    <3> QED BY <2>1, <2>2, <3>1, Places DEF IInv, OrderInv, Unnotified
  <2>5. FreeCountExact'
    BY <2>1, <2>2, Places, Constants DEF IInv, FreeCountExact, InFlight
  <2>6. LastIndexInv'
    BY <2>2 DEF LastIndexInv
  <2> QED BY <2>3, <2>4, <2>5, <2>6
<1>3. RecordInv' /\ Ownership'
  BY Places, Constants DEF IInv, TxNotify, TypeOK, ringVars, outVars, irqVars, hwVars, queueVars, RecordInv, Ownership, Recorded, Stored, D, Off
<1>4. FilledInv' /\ EndInv' /\ CoverInv'
  BY Places, Constants DEF IInv, TxNotify, TypeOK, ringVars, outVars, irqVars, hwVars, queueVars, FilledInv, EndInv, CoverInv, Stored, D, Off
<1>5. WakeInv'
  BY Places, Constants DEF IInv, TxNotify, TypeOK, ringVars, outVars, irqVars, hwVars, queueVars, WakeInv, D
<1> QED
  BY <1>1, <1>2, <1>3, <1>4, <1>5 DEF IInv

\* The handler leaves the output thread's variables and the device alone.
LEMMA IrqEnterStep ==
  ASSUME IInv, IrqEnter
  PROVE  IInv'
<1>1. TypeOK'
  BY TypeStep DEF IInv, Next, Irq
<1>2. D(irqCons)' = D(ReadCons(statusCons))
  BY DEF IrqEnter, D, ringVars
<1>3. /\ D(txProd)' = D(txProd) /\ D(hwProd)' = D(hwProd)
      /\ D(ReadCons(hwCons))' = D(ReadCons(hwCons))
      /\ D(ReadCons(statusCons))' = D(ReadCons(statusCons))
      /\ Off(outIndex)' = Off(outIndex) /\ \A s \in Slot : Off(s)' = Off(s)
      /\ Stored' = Stored
  BY DEF IrqEnter, D, Off, Stored, ringVars, outVars, hwVars
<1>4. PcInv' /\ OrderInv' /\ FreeCountExact' /\ LastIndexInv' /\ WakeInv'
  BY <1>2, <1>3, Places, Constants
     DEF IInv, IrqEnter, ringVars, outVars, hwVars, queueVars, PcInv, OrderInv, Unnotified,
         FreeCountExact, InFlight, LastIndexInv, WakeInv
<1>5. RecordInv' /\ Ownership' /\ FilledInv' /\ EndInv' /\ CoverInv'
  BY <1>3 DEF IInv, IrqEnter, ringVars, outVars, RecordInv, Ownership, Recorded,
              FilledInv, EndInv, CoverInv
<1> QED
  BY <1>1, <1>4, <1>5 DEF IInv

\* A packet is freed: its slot is behind the device, so that no descriptor
\* the device may still read belongs to it.
LEMMA IrqReclaimStep ==
  ASSUME IInv, IrqReclaim
  PROVE  IInv'
<1> DEFINE c == BdIndex(txCons)
<1>1. TypeOK'
  BY TypeStep DEF IInv, Next, Irq
<1>2. /\ D(txProd)' = D(txProd) /\ D(hwProd)' = D(hwProd)
      /\ D(ReadCons(hwCons))' = D(ReadCons(hwCons))
      /\ D(ReadCons(statusCons))' = D(ReadCons(statusCons))
      /\ D(irqCons)' = D(irqCons)
      /\ Off(outIndex)' = Off(outIndex) /\ \A s \in Slot : Off(s)' = Off(s)
      /\ Stored' = Stored
  BY DEF IrqReclaim, D, Off, Stored, outVars, hwVars
<1>3. c \in Slot /\ Off(c) = 0
  BY Places DEF IInv
<1>4. D(irqCons) > 0
  <2>1. D(irqCons) # 0
    BY DistRange DEF D, IInv, TypeOK, IrqReclaim
  <2> QED BY <2>1, Places, Constants DEF IInv
<1>5. D(ReadCons(hwCons)) > 0 /\ D(hwProd) > 0
  BY <1>4, Places, Constants DEF IInv, OrderInv, IrqReclaim
<1>6. /\ txPackets'[c] = NULL
      /\ \A s \in Slot : s # c => txPackets'[s] = txPackets[s]
  BY <1>3 DEF IInv, TypeOK, IrqReclaim
<1> HIDE DEF c
<1>7. PcInv' /\ OrderInv' /\ FreeCountExact' /\ LastIndexInv' /\ WakeInv'
  BY <1>2, <1>4, Places, Constants
     DEF IInv, IrqReclaim, outVars, hwVars, queueVars, PcInv, OrderInv, Unnotified,
         FreeCountExact, InFlight, LastIndexInv, WakeInv
<1>8. RecordInv'
  <2>1. \A s \in Slot : txPackets'[s] # NULL => Off(s)' < Stored'
    BY <1>2, <1>6 DEF IInv, RecordInv
  <2>2. txPackets'[BdIndex(txCons')] = NULL
    BY <1>6 DEF c, IrqReclaim
  <2>3. outPc \in {"check", "stall", "fill"} => outPkt \notin Recorded'
    BY <1>6 DEF IInv, RecordInv, Recorded, TypeOK
  <2>4. outPc \in {"subtract", "notify"} => txPackets'[outIndex] = outPkt
    <3>1. outPc \in {"subtract", "notify"} => Off(outIndex) > 0
      BY <1>5, Places DEF IInv, LastIndexInv, PcInv, OrderInv, Unnotified
    <3>2. outPc \in {"subtract", "notify"} => outIndex # c
      BY <3>1, <1>3
    <3> QED BY <3>2, <1>6 DEF IInv, RecordInv, TypeOK
  <2>5. UNCHANGED <<outPc, outPkt, outIndex>>
    BY DEF IrqReclaim, outVars
  <2> QED BY <2>1, <2>2, <2>3, <2>4, <2>5 DEF RecordInv
<1>9. Ownership'
  <2>1. held' = held \ {txPackets[c]} /\ outPkt' = outPkt /\ outPc' = outPc
    BY DEF IrqReclaim, c, outVars
  <2>2. outPkt # NULL => txPackets[c] # outPkt
    <3>1. CASE outPc \in {"check", "stall", "fill"}
      BY <3>1, <1>3 DEF IInv, RecordInv, Recorded
    <3>2. CASE outPc \in {"subtract", "notify"}
      <4>1. txPackets[outIndex] = outPkt /\ outIndex # c /\ outIndex \in Slot
        BY <3>2, <1>3, <1>5, Places
           DEF IInv, RecordInv, LastIndexInv, PcInv, OrderInv, Unnotified, TypeOK
      <4> QED BY <4>1, <1>3 DEF IInv, Ownership
    <3> QED BY <3>1, <3>2 DEF IInv, TypeOK, PcInv
  <2>3. Recorded' \ {NULL} = Recorded \ {NULL, txPackets[c]}
    <3>1. \A s \in Slot : s # c /\ txPackets[s] # NULL => txPackets[s] # txPackets[c]
      BY <1>3 DEF IInv, Ownership
    <3> QED BY <3>1, <1>3, <1>6 DEF Recorded
  <2>4. held' = (Recorded' \cup {outPkt'}) \ {NULL}
    BY <2>1, <2>2, <2>3 DEF IInv, Ownership
  <2>5. \A s, t \in Slot : txPackets'[s] = txPackets'[t] /\ txPackets'[s] # NULL => s = t
    BY <1>6 DEF IInv, Ownership
  <2> QED BY <2>4, <2>5 DEF Ownership
<1>10. FilledInv'
  BY <1>2 DEF IInv, FilledInv, IrqReclaim, outVars
<1>11. EndInv' /\ CoverInv'
  <2>1. \A s \in Slot : D(ReadCons(hwCons)) <= Off(s) => s # c /\ txPackets'[s] = txPackets[s]
    BY <1>3, <1>5, <1>6, Places, Constants DEF IInv
  <2>2. txChain' = txChain
    BY DEF IrqReclaim
  <2>3. ASSUME NEW s \in Slot, D(ReadCons(hwCons)) <= Off(s), Off(s) < Stored
        PROVE  \E t \in Slot : Off(s) <= Off(t) /\ txPackets'[t] = txChain[s].pkt
    <3>1. PICK t \in Slot : Off(s) <= Off(t) /\ txPackets[t] = txChain[s].pkt
      BY <2>3 DEF IInv, CoverInv
    <3>2. D(ReadCons(hwCons)) <= Off(t)
      BY <3>1, <2>3, Places, Constants DEF IInv
    <3> QED BY <3>1, <3>2, <2>1
  <2> QED BY <2>1, <2>2, <2>3, <1>2 DEF IInv, EndInv, CoverInv
<1> QED
  BY <1>1, <1>7, <1>8, <1>9, <1>10, <1>11 DEF IInv

LEMMA IrqServiceStep ==
  ASSUME IInv, IrqService
  PROVE  IInv'
<1>1. TypeOK'
  BY TypeStep DEF IInv, Next, Irq
<1>2. /\ D(txProd)' = D(txProd) /\ D(hwProd)' = D(hwProd)
      /\ D(ReadCons(hwCons))' = D(ReadCons(hwCons))
      /\ D(ReadCons(statusCons))' = D(ReadCons(statusCons))
      /\ Off(outIndex)' = Off(outIndex) /\ \A s \in Slot : Off(s)' = Off(s)
      /\ Stored' = Stored
  BY DEF IrqService, D, Off, Stored, ringVars, outVars, hwVars
<1>3. PcInv' /\ OrderInv' /\ FreeCountExact' /\ LastIndexInv' /\ WakeInv'
  BY <1>2, Places, Constants
     DEF IInv, IrqService, ringVars, outVars, hwVars, PcInv, OrderInv, Unnotified,
         FreeCountExact, InFlight, LastIndexInv, WakeInv
<1>4. RecordInv' /\ Ownership' /\ FilledInv' /\ EndInv' /\ CoverInv'
  BY <1>2 DEF IInv, IrqService, ringVars, outVars, RecordInv, Ownership, Recorded,
              FilledInv, EndInv, CoverInv
<1> QED
  BY <1>1, <1>3, <1>4 DEF IInv

\* The oldest descriptor is counted free and left behind: every distance
\* shrinks by one.
LEMMA IrqCountStep ==
  ASSUME IInv, IrqCount
  PROVE  IInv'
<1>1. TypeOK'
  BY TypeStep DEF IInv, Next, Irq
<1>2. /\ D(irqCons) > 0 /\ D(ReadCons(statusCons)) > 0 /\ D(ReadCons(hwCons)) > 0
      /\ D(hwProd) > 0 /\ D(txProd) > 0
  BY Places, Constants DEF IInv, OrderInv, IrqCount, Unnotified
<1>3. /\ txCons \in RingPos /\ ReadCons(hwCons) \in RingPos
      /\ ReadCons(statusCons) \in RingPos /\ txProd \in RingPos
      /\ hwProd \in RingPos /\ irqCons \in RingPos
  BY ReadConsType DEF IInv, TypeOK
<1>4. /\ D(irqCons)' = D(irqCons) - 1
      /\ D(ReadCons(statusCons))' = D(ReadCons(statusCons)) - 1
      /\ D(ReadCons(hwCons))' = D(ReadCons(hwCons)) - 1
      /\ D(hwProd)' = D(hwProd) - 1 /\ D(txProd)' = D(txProd) - 1
  BY <1>2, <1>3, DistNextFrom DEF IrqCount, D, hwVars
<1>5. \A s \in Slot : Off(s)' = IF Off(s) = 0 THEN Usable - 1 ELSE Off(s) - 1
  BY <1>3, SlotShift DEF IrqCount, Off
<1>6. D(txProd) < Usable - 1 /\ D(hwProd) <= Stored /\ Stored <= D(txProd) /\ Stored' = Stored - 1
      /\ D(hwProd) <= D(txProd)
  BY <1>4, Places DEF IInv, FreeCountExact, InFlight, Stored, OrderInv, Unnotified, IrqCount, outVars
<1>types. /\ Stored \in Nat /\ D(hwProd) \in Nat /\ D(txProd) \in Nat
       /\ D(ReadCons(hwCons)) \in Nat /\ outSegs \in Nat /\ Usable \in Nat
       /\ \A s \in Slot : Off(s) \in 0 .. Usable - 1
       /\ \A t \in Slot : Off(t)' \in 0 .. Usable - 1
  <2>1. \A s \in Slot : Off(s)' \in 0 .. Usable - 1
    BY <1>1, <1>3, SlotDistFacts, RankForm, NextBdStep DEF Off, IrqCount
  <2> QED BY <2>1, Places, Constants DEF IInv, Stored
<1>7. txFreeDescriptors' = txFreeDescriptors + 1
  <2>1. txFreeDescriptors + 1 \in HwIndex
    BY <1>2, Places, Constants
       DEF IInv, FreeCountExact, InFlight, OrderInv, Unnotified, HwIndex
  <2> QED BY <2>1, Modulo DEF IrqCount, HwIndex
<1>8. FreeCountExact'
  <2>1. outPc' = outPc /\ outI' = outI
    BY DEF IrqCount, outVars
  <2> QED BY <2>1, <1>4, <1>6, <1>7, Places, Constants DEF IInv, FreeCountExact, InFlight
<1>9. PcInv' /\ OrderInv'
  <2>1. /\ outPc' = outPc /\ outI' = outI /\ outSegs' = outSegs /\ irqPc' = "loop"
    BY DEF IrqCount, outVars
  <2>2. PcInv'
    BY <2>1, <1>7, Places DEF IInv, PcInv
  <2>3. OrderInv'
    BY <2>1, <1>4, Places DEF IInv, OrderInv, Unnotified, IrqCount
  <2> QED BY <2>2, <2>3
<1>10. LastIndexInv'
  <2> SUFFICES ASSUME outPc \in {"fill", "subtract", "notify"}, outI > 0
               PROVE  Off(outIndex)' = D(txProd)' - 1
    BY DEF LastIndexInv, IrqCount, outVars
  <2>1. outIndex \in Slot /\ Off(outIndex) = D(txProd) - 1 /\ Off(outIndex) > 0
    BY <1>2, Places DEF IInv, TypeOK, LastIndexInv, OrderInv, Unnotified
  <2>2. Off(outIndex)' = SlotDist(BdIndex(txCons'), outIndex)
    BY DEF Off, IrqCount, outVars
  <2>3. SlotDist(BdIndex(txCons'), outIndex) = Off(outIndex) - 1
    BY <2>1, <1>3, SlotShift DEF IrqCount, Off
  <2> QED BY <2>1, <2>2, <2>3, <1>4
<1>11. RecordInv' /\ Ownership'
  <2>1. \A s \in Slot : txPackets[s] # NULL => Off(s) # 0
    BY Places DEF IInv, RecordInv, IrqCount
  <2>2. \A s \in Slot : txPackets[s] # NULL => Off(s)' < Stored'
    BY <2>1, <1>5, <1>6, <1>types DEF IInv, RecordInv
  <2>3. irqPc' = "loop" /\ txPackets' = txPackets /\ held' = held
    BY DEF IrqCount
  <2> QED BY <2>2, <2>3 DEF IInv, RecordInv, Ownership, Recorded, IrqCount, outVars
<1>12. \A s \in Slot : Off(s)' < D(txProd)' => Off(s) = Off(s)' + 1
  BY <1>4, <1>5, <1>6, Places, Constants DEF IInv
<1>13. FilledInv'
  <2> SUFFICES ASSUME NEW s \in Slot, outPc = "fill",
                      D(hwProd)' <= Off(s)', Off(s)' < D(txProd)'
               PROVE  /\ txChain[s].pkt = outPkt
                      /\ "END" \in txChain[s].flags <=> Off(s)' = D(hwProd)' + outSegs - 1
    BY DEF FilledInv, IrqCount, outVars
  <2>1. Off(s) = Off(s)' + 1
    BY <1>12
  <2>2. D(hwProd) <= Off(s) /\ Off(s) < D(txProd)
    BY <2>1, <1>4, <1>5, Places, Constants DEF IInv
  <2>3. /\ txChain[s].pkt = outPkt
        /\ "END" \in txChain[s].flags <=> Off(s) = D(hwProd) + outSegs - 1
    BY <2>2 DEF IInv, FilledInv
  <2> QED BY <2>1, <2>3, <1>4, <1>types
<1>14. EndInv' /\ CoverInv'
  <2> SUFFICES ASSUME NEW s \in Slot, D(ReadCons(hwCons))' <= Off(s)', Off(s)' < Stored'
               PROVE  /\ txPackets[s] = IF "END" \in txChain[s].flags
                                        THEN txChain[s].pkt ELSE NULL
                      /\ txChain[s].pkt # NULL
                      /\ \E t \in Slot : Off(s)' <= Off(t)' /\ txPackets[t] = txChain[s].pkt
    BY DEF EndInv, CoverInv, IrqCount
  <2>1. Off(s) = Off(s)' + 1
    BY <1>4, <1>6, <1>12, <1>types
  <2>2. D(ReadCons(hwCons)) <= Off(s) /\ Off(s) < Stored /\ Off(s) > 0
    BY <2>1, <1>2, <1>4, <1>6, <1>types
  <2>3. PICK t \in Slot : Off(s) <= Off(t) /\ txPackets[t] = txChain[s].pkt
    BY <2>2 DEF IInv, CoverInv
  <2>4. Off(s)' <= Off(t)'
    BY <2>2, <2>3, <1>5, Places, Constants DEF IInv
  <2> QED BY <2>2, <2>3, <2>4 DEF IInv, EndInv, CoverInv
<1>15. WakeInv'
  BY DEF IInv, WakeInv, IrqCount, outVars, queueVars
<1> QED
  BY <1>1, <1>8, <1>9, <1>10, <1>11, <1>13, <1>14, <1>15 DEF IInv

\* The device only moves its own indexes, in order; it shrinks the part of
\* the ring EndInv and CoverInv speak of.
LEMMA HwStep ==
  ASSUME IInv, Hw
  PROVE  IInv'
<1>1. TypeOK'
  BY TypeStep DEF IInv, Next
<1>2. UNCHANGED <<ringVars, outVars, irqVars, hwProd, held, queueVars>>
  BY DEF Hw, HwTransmit, HwFollowChain, HwStatus
<1>3. /\ D(txProd)' = D(txProd) /\ D(hwProd)' = D(hwProd) /\ D(irqCons)' = D(irqCons)
      /\ Off(outIndex)' = Off(outIndex) /\ \A s \in Slot : Off(s)' = Off(s)
      /\ Stored' = Stored
  BY <1>2 DEF D, Off, Stored, ringVars, outVars, irqVars
<1>4. /\ D(ReadCons(statusCons)) <= D(ReadCons(statusCons))'
      /\ D(ReadCons(statusCons))' <= D(ReadCons(hwCons))'
      /\ D(ReadCons(hwCons)) <= D(ReadCons(hwCons))'
      /\ D(ReadCons(hwCons))' <= D(hwProd)
  <2>1. CASE HwTransmit
    <3>1. /\ hwCons \in RingPos /\ ReadCons(hwCons) = hwCons
          /\ ReadCons(hwCons') = NextBd(hwCons)
      BY <2>1, ReadConsStep DEF HwTransmit, IInv, TypeOK
    <3>2. Dist(txCons, hwCons) # Dist(txCons, hwProd)
      <4>1. Dist(txCons, hwCons) = Dist(txCons, hwProd) => hwCons = hwProd
        BY <3>1, RankForm, RankInjective, IndexSpaceFacts DEF Dist, IInv, TypeOK
      <4> QED BY <4>1, <2>1 DEF HwTransmit
    <3>3. Dist(txCons, hwCons) < Dist(txCons, hwProd)
      BY <3>1, <3>2, Places, Constants DEF IInv, OrderInv, D
    <3>4. Dist(txCons, hwCons) < PosCount - 1
      BY <3>1, <3>3, Places, Constants DEF IInv, D
    <3>5. Dist(txCons, NextBd(hwCons)) = Dist(txCons, hwCons) + 1
      BY <3>1, <3>4, DistNextTo DEF IInv, TypeOK
    <3>6. /\ D(ReadCons(hwCons))' = D(ReadCons(hwCons)) + 1
          /\ D(ReadCons(statusCons))' = D(ReadCons(statusCons))
      BY <2>1, <1>2, <3>1, <3>5 DEF D, HwTransmit, ringVars
    <3>7. D(ReadCons(hwCons)) < D(hwProd)
      BY <3>1, <3>3 DEF D
    <3> QED BY <3>6, <3>7, Places, Constants DEF IInv, OrderInv
  <2>2. CASE HwFollowChain
    <3>1. ReadCons(hwCons') = ReadCons(hwCons)
      BY <2>2, ReadConsStep DEF HwFollowChain, IInv, TypeOK
    <3>2. /\ D(ReadCons(hwCons))' = D(ReadCons(hwCons))
          /\ D(ReadCons(statusCons))' = D(ReadCons(statusCons))
      BY <2>2, <1>2, <3>1 DEF D, HwFollowChain, ringVars
    <3> QED BY <3>2, Places, Constants DEF IInv, OrderInv
  <2>3. CASE HwStatus
    <3>1. /\ D(ReadCons(hwCons))' = D(ReadCons(hwCons))
          /\ D(ReadCons(statusCons))' = D(ReadCons(hwCons))
      BY <2>3, <1>2 DEF D, HwStatus, ringVars
    <3> QED BY <3>1, Places, Constants DEF IInv, OrderInv
  <2> QED BY <2>1, <2>2, <2>3 DEF Hw
<1>types. /\ D(ReadCons(statusCons))' \in Nat /\ D(ReadCons(hwCons))' \in Nat
      /\ D(ReadCons(statusCons)) \in Nat /\ D(ReadCons(hwCons)) \in Nat
      /\ D(irqCons) \in Nat /\ \A s \in Slot : Off(s) \in Nat
  <2>1. /\ txCons' \in RingPos /\ ReadCons(hwCons') \in RingPos
        /\ ReadCons(statusCons') \in RingPos
    BY <1>1, ReadConsType DEF TypeOK
  <2>2. D(ReadCons(statusCons))' \in Nat /\ D(ReadCons(hwCons))' \in Nat
    BY <2>1, DistRange, Constants DEF D
  <2> QED BY <2>2, Places, Constants DEF IInv
<1>5. OrderInv'
  BY <1>2, <1>3, <1>4, <1>types DEF IInv, OrderInv, Unnotified, outVars, irqVars
<1>6. PcInv' /\ FreeCountExact' /\ LastIndexInv' /\ WakeInv'
  BY <1>2, <1>3
     DEF IInv, ringVars, outVars, irqVars, queueVars, PcInv, FreeCountExact, InFlight,
         LastIndexInv, WakeInv
<1>7. RecordInv' /\ Ownership' /\ FilledInv'
  BY <1>2, <1>3 DEF IInv, ringVars, outVars, irqVars, RecordInv, Ownership, Recorded, FilledInv
<1>8. EndInv' /\ CoverInv'
  <2>1. \A s \in Slot : D(ReadCons(hwCons))' <= Off(s)' => D(ReadCons(hwCons)) <= Off(s)
    BY <1>3, <1>4, <1>types
  <2> QED BY <2>1, <1>2, <1>3 DEF IInv, EndInv, CoverInv, ringVars
<1> QED
  BY <1>1, <1>5, <1>6, <1>7, <1>8 DEF IInv

LEMMA StutterStep ==
  ASSUME IInv, UNCHANGED vars
  PROVE  IInv'
<1>1. /\ TypeOK' /\ PcInv' /\ OrderInv' /\ FreeCountExact' /\ LastIndexInv'
  BY DEF IInv, vars, ringVars, outVars, irqVars, hwVars, queueVars, TypeOK, PcInv, OrderInv,
         Unnotified, FreeCountExact, InFlight, LastIndexInv, D, Off
<1>2. RecordInv' /\ Ownership' /\ FilledInv' /\ EndInv' /\ CoverInv' /\ WakeInv'
  BY DEF IInv, vars, ringVars, outVars, irqVars, hwVars, queueVars, RecordInv, Ownership,
         Recorded, FilledInv, EndInv, CoverInv, WakeInv, Stored, D, Off
<1> QED
  BY <1>1, <1>2 DEF IInv

LEMMA InvStep ==
  ASSUME ~RacyCounter
  PROVE  IInv /\ [Next]_vars => IInv'
<1> SUFFICES ASSUME IInv, [Next]_vars PROVE IInv'
  OBVIOUS
<1>1. CASE Output
  <2>1. ASSUME NEW p \in Packets, NEW n \in 0 .. MaxSeg, OutputPacket(p, n)
        PROVE  IInv'
    BY <2>1, OutputPacketStep
  <2>2. CASE TxSubtractLoad \/ TxSubtractStore
    BY <2>2 DEF TxSubtractLoad, TxSubtractStore, IInv, PcInv
  <2> QED
    BY <1>1, <2>1, <2>2, SendDroppedStep, SendStallStep, QueueStallStep, SendFitsStep,
       TxFillStep, TxStoreStep, TxSubtractStep, TxNotifyStep DEF Output
<1>2. CASE Irq
  <2>1. CASE IrqCountLoad \/ IrqCountStore
    BY <2>1 DEF IrqCountLoad, IrqCountStore, IInv, PcInv
  <2> QED
    BY <1>2, <2>1, IrqEnterStep, IrqReclaimStep, IrqCountStep, IrqServiceStep DEF Irq
<1> QED
  BY <1>1, <1>2, HwStep, StutterStep DEF Next

LEMMA Invariant == ~RacyCounter => (Spec => []IInv)
<1> SUFFICES ASSUME ~RacyCounter PROVE Spec => []IInv
  OBVIOUS
<1>1. IInv /\ [Next]_vars => IInv'
  BY InvStep
<1> QED
  BY <1>1, InitInv, PTL DEF Spec
-----------------------------------------------------------------------------
(***************************************************************************)
(* What follows from the invariant, when ++ and -= on the counter are      *)
(* single steps.                                                           *)
(***************************************************************************)

\* The free counter always equals what the two indexes say is free, and one
\* descriptor is always left over.
THEOREM FreeCountTheorem == ~RacyCounter => (Spec => []FreeCountExact)
<1>1. IInv => FreeCountExact
  BY DEF IInv
<1> QED
  BY <1>1, Invariant, PTL

\* sendTxPacket never writes a descriptor the device may read or whose
\* packet is not freed yet.
THEOREM NoOverrunTheorem == ~RacyCounter => (Spec => []NoOverrun)
<1>1. ASSUME IInv, outPc = "fill", outI < outSegs
      PROVE  ~OnDevice(BdIndex(txProd)) /\ txPackets[BdIndex(txProd)] = NULL
  <2>1. /\ D(txProd) < Usable - 2 /\ D(txProd) < PosCount - 1
        /\ D(txProd) = D(hwProd) + outI
    BY <1>1, Places, Constants DEF IInv, PcInv, FreeCountExact, InFlight, OrderInv, Unnotified
  <2>2. txCons \in RingPos /\ txProd \in RingPos /\ BdIndex(txProd) \in Slot
    BY <1>1, RankForm DEF IInv, TypeOK
  <2>3. Off(BdIndex(txProd)) = D(txProd)
    <3>1. Dist(txCons, txProd) < Usable
      BY <2>1, Constants, Places, <1>1 DEF D, IInv
    <3> QED BY <3>1, <2>2, DistIsSlotDist DEF D, Off
  <2>4. ~(Off(BdIndex(txProd)) < D(hwProd))
    BY <2>1, <2>3, Places, Constants, <1>1 DEF IInv
  <2> QED
    BY <2>2, <2>4, <1>1 DEF IInv, RecordInv, Stored, OnDevice
<1>2. IInv => NoOverrun
  BY <1>1 DEF NoOverrun
<1> QED
  BY <1>2, Invariant, PTL

\* The device reads only the memory of packets the driver holds.
THEOREM DmaTheorem == ~RacyCounter => (Spec => []DmaFromLivePacket)
<1>1. ASSUME IInv, NEW s \in Slot, OnDevice(s)
      PROVE  txChain[s].pkt \in held
  <2>1. Off(s) < Stored
    BY <1>1, Places, Constants DEF IInv, OnDevice, Stored, OrderInv, Unnotified
  <2>2. PICK t \in Slot : txPackets[t] = txChain[s].pkt /\ txChain[s].pkt # NULL
    BY <1>1, <2>1 DEF IInv, CoverInv, OnDevice
  <2> QED
    BY <1>1, <2>2 DEF IInv, Ownership, Recorded
<1>2. IInv => DmaFromLivePacket
  BY <1>1 DEF DmaFromLivePacket
<1> QED
  BY <1>2, Invariant, PTL

\* Every packet the driver holds is known in exactly one place: none is
\* leaked, none is freed twice.
THEOREM OwnershipTheorem == ~RacyCounter => (Spec => []Ownership)
<1>1. IInv => Ownership
  BY DEF IInv
<1> QED
  BY <1>1, Invariant, PTL

\* A packet is recorded at the descriptor that ends it for the device.
THEOREM CompletionTheorem == ~RacyCounter => (Spec => []CompletionPoint)
<1>1. ASSUME IInv, NEW s \in Slot, OnDevice(s)
      PROVE  txPackets[s] = IF "END" \in txChain[s].flags THEN txChain[s].pkt ELSE NULL
  <2>1. Off(s) < Stored
    BY <1>1, Places, Constants DEF IInv, OnDevice, Stored, OrderInv, Unnotified
  <2> QED
    BY <1>1, <2>1 DEF IInv, EndInv, OnDevice
<1>2. IInv => CompletionPoint
  BY <1>1 DEF CompletionPoint
<1> QED
  BY <1>2, Invariant, PTL

\* A stalled queue is never left without anything that will wake it.
THEOREM StallTheorem == ~RacyCounter => (Spec => []StallHasWaker)
<1>1. ASSUME IInv, queueStalled, irqPc = "idle", hwCons = hwProd, statusCons = hwCons,
             txCons = ReadCons(statusCons)
      PROVE  FALSE
  <2>1. D(hwProd) > 0
    BY <1>1 DEF IInv, WakeInv
  <2>2. ReadCons(hwProd) = hwProd
    BY <1>1 DEF IInv, TypeOK, RingPos, ReadCons
  <2>3. D(hwProd) = 0
    BY <1>1, <2>2, DistRange DEF IInv, TypeOK, D
  <2> QED
    BY <2>1, <2>3
<1>2. IInv => StallHasWaker
  BY <1>1 DEF StallHasWaker
<1> QED
  BY <1>2, Invariant, PTL
-----------------------------------------------------------------------------
(***************************************************************************)
(* The refinement: the ring implements the queue of TxFifo.                *)
(***************************************************************************)

\* What leaves slots, indexes and the device's position alone leaves the queue.
LEMMA SameQueue ==
  ASSUME txPackets' = txPackets, txCons' = txCons, ReadCons(hwCons') = ReadCons(hwCons)
  PROVE  Ahead' = Ahead /\ Gone' = Gone
<1>1. \A p : Before(p)' = Before(p)
  BY DEF Before, Queued, Recorded, Off
<1>2. Queued' = Queued
  BY DEF Queued, Recorded
<1>3. Ahead' = Ahead
  BY <1>1, <1>2 DEF Ahead
<1>4. Gone' = Gone
  BY <1>2 DEF Gone, D, Off
<1> QED
  BY <1>3, <1>4

LEMMA QueueInit == Init => Fifo!Init
<1> SUFFICES ASSUME Init PROVE Fifo!Init
  OBVIOUS
<1>1. Queued = {}
  BY DEF Init, Queued, Recorded
<1> QED
  BY <1>1 DEF Ahead, Gone, Fifo!Init

\* TxStore accepts a packet: all that are recorded lie before its slot.
LEMMA StoreAccepts ==
  ASSUME IInv, TxStore
  PROVE  outPkt \in Packets /\ Fifo!Accept(outPkt)
<1>1. /\ txPackets' = [txPackets EXCEPT ![outIndex] = outPkt]
      /\ txCons' = txCons /\ hwCons' = hwCons
      /\ outPkt' = outPkt /\ outIndex' = outIndex
  BY DEF TxStore, hwVars
<1>2. /\ outIndex \in Slot /\ outPkt \in Packets /\ outPkt \notin Recorded
      /\ outPkt # NULL
  BY Constants DEF IInv, TypeOK, TxStore, RecordInv
<1>3. /\ \A s \in Slot : txPackets[s] # NULL => Off(s) < Off(outIndex)
      /\ D(ReadCons(hwCons)) <= Off(outIndex) /\ txPackets[outIndex] = NULL
  <2>1. Off(outIndex) >= D(hwProd) /\ Stored = D(hwProd)
    BY Places DEF IInv, TxStore, PcInv, OrderInv, Unnotified, LastIndexInv, Stored
  <2>2. /\ \A s \in Slot : Off(s) \in Nat
        /\ D(hwProd) \in Nat /\ D(ReadCons(hwCons)) \in Nat
        /\ D(ReadCons(hwCons)) <= D(hwProd)
    BY Places, Constants DEF IInv, OrderInv
  <2>3. \A s \in Slot : txPackets[s] # NULL => Off(s) < D(hwProd)
    BY <2>1 DEF IInv, RecordInv
  <2> QED BY <2>1, <2>2, <2>3, <1>2
<1>4. /\ txPackets'[outIndex] = outPkt
      /\ \A s \in Slot : s # outIndex => txPackets'[s] = txPackets[s]
  BY <1>1, <1>2 DEF IInv, TypeOK
<1>5. Queued' = Queued \cup {outPkt} /\ outPkt \notin Queued
  BY <1>2, <1>3, <1>4 DEF Queued, Recorded
<1>6. \A s \in Slot : Off(s)' = Off(s) /\ Off(s) \in Nat
  BY <1>1, Places, Constants DEF Off, IInv
<1>7. Before(outPkt)' = Queued
  <2>1. ASSUME NEW q \in Queued PROVE q \in Before(outPkt)'
    <3>1. PICK t \in Slot : txPackets[t] = q
      BY DEF Queued, Recorded
    <3>2. t # outIndex /\ Off(t)' < Off(outIndex)'
      BY <3>1, <1>1, <1>2, <1>3, <1>6 DEF Queued
    <3> QED BY <3>1, <3>2, <1>1, <1>2, <1>4, <1>5 DEF Before
  <2>2. outPkt \notin Before(outPkt)'
    <3>1. \A s \in Slot : txPackets'[s] = outPkt => s = outIndex
      BY <1>2, <1>4 DEF Recorded
    <3> QED BY <3>1, <1>1, <1>2, <1>6 DEF Before
  <2>3. Before(outPkt)' \subseteq Queued'
    BY DEF Before
  <2> QED BY <2>1, <2>2, <2>3, <1>5
<1>8. \A p \in Queued : Before(p)' = Before(p)
  <2> SUFFICES ASSUME NEW p \in Queued, NEW q
               PROVE  q \in Before(p)' <=> q \in Before(p)
    OBVIOUS
  <2>1. ASSUME q \in Before(p) PROVE q \in Before(p)'
    <3>1. PICK s \in Slot, t \in Slot : txPackets[s] = p /\ txPackets[t] = q /\ Off(t) < Off(s)
      BY <2>1 DEF Before
    <3>2. q \in Queued /\ s # outIndex /\ t # outIndex
      BY <3>1, <2>1, <1>3 DEF Before, Queued
    <3> QED BY <3>1, <3>2, <1>4, <1>5, <1>6 DEF Before
  <2>2. ASSUME q \in Before(p)' PROVE q \in Before(p)
    <3>1. PICK s \in Slot, t \in Slot :
            txPackets'[s] = p /\ txPackets'[t] = q /\ Off(t)' < Off(s)'
      BY <2>2 DEF Before
    <3>2. s # outIndex /\ txPackets[s] = p
      BY <3>1, <1>4, <1>5
    <3>3. Off(s) < Off(outIndex)
      BY <3>2, <1>3 DEF Queued
    <3>4. t # outIndex
      BY <3>1, <3>3, <1>2, <1>6
    <3>5. q \in Queued
      BY <3>1, <3>4, <2>2, <1>2, <1>4, <1>5 DEF Before, Recorded
    <3> QED BY <3>1, <3>2, <3>4, <3>5, <1>4, <1>6 DEF Before
  <2> QED BY <2>1, <2>2
<1>9. Ahead' = [q \in Queued \cup {outPkt} |-> IF q = outPkt THEN Queued ELSE Ahead[q]]
  BY <1>1, <1>5, <1>7, <1>8 DEF Ahead
<1>10. Gone' = Gone
  <2>1. D(ReadCons(hwCons))' = D(ReadCons(hwCons))
    BY <1>1 DEF D
  <2>2. ~(Off(outIndex) < D(ReadCons(hwCons)))
    BY <1>2, <1>3, <1>6, Places, Constants DEF IInv
  <2>3. \A p : p \in Gone' => p \in Queued /\ p \in Gone
    <3> SUFFICES ASSUME NEW p, p \in Gone' PROVE p \in Queued /\ p \in Gone
      OBVIOUS
    <3>1. PICK s \in Slot : txPackets'[s] = p /\ Off(s)' < D(ReadCons(hwCons))'
      BY DEF Gone
    <3>2. s # outIndex
      BY <3>1, <2>1, <2>2, <1>6
    <3>3. p \in Queued
      BY <3>1, <3>2, <1>4, Constants DEF Gone, Queued, Recorded
    <3> QED BY <3>1, <3>2, <3>3, <2>1, <1>4, <1>6 DEF Gone
  <2>4. \A p \in Gone : p \in Gone'
    <3> SUFFICES ASSUME NEW p \in Gone PROVE p \in Gone'
      OBVIOUS
    <3>1. PICK s \in Slot : txPackets[s] = p /\ Off(s) < D(ReadCons(hwCons))
      BY DEF Gone
    <3>2. s # outIndex /\ p \in Queued
      BY <3>1, <2>2 DEF Gone
    <3> QED BY <3>1, <3>2, <2>1, <1>4, <1>5, <1>6 DEF Gone
  <2> QED BY <2>3, <2>4
<1>11. DOMAIN Ahead = Queued
  BY DEF Ahead
<1> QED
  BY <1>2, <1>5, <1>9, <1>10, <1>11 DEF Fifo!Accept, Fifo!Accepted

LEMMA Offsets ==
  ASSUME IInv
  PROVE  /\ BdIndex(txCons) \in Slot /\ Off(BdIndex(txCons)) = 0
         /\ \A s \in Slot : Off(s) \in Nat
         /\ \A s, t \in Slot : Off(s) = Off(t) => s = t
<1>1. /\ BdIndex(txCons) \in Slot /\ Off(BdIndex(txCons)) = 0
      /\ \A s \in Slot : Off(s) \in 0 .. Usable - 1
      /\ \A s, t \in Slot : Off(s) = Off(t) => s = t
  BY Places DEF IInv
<1> QED
  BY <1>1, Constants

\* A descriptor passed by the device: if a packet is recorded in its slot, that
\* packet has been transmitted, and all before it had been.
LEMMA HwTransmits ==
  ASSUME IInv, HwTransmit
  PROVE  /\ Ahead' = Ahead
         /\ Gone' = Gone \/ \E p \in Packets : Fifo!Transmit(p)
<1> DEFINE c == BdIndex(hwCons)
           n == D(ReadCons(hwCons))
<1>1. /\ txPackets' = txPackets /\ txCons' = txCons /\ hwProd' = hwProd
      /\ hwCons' = (hwCons + 1) % IndexSpace /\ c # Usable /\ hwCons # hwProd
  BY DEF HwTransmit, ringVars
<1>2. /\ hwCons \in RingPos /\ txCons \in RingPos /\ hwProd \in RingPos /\ ReadCons(hwCons) = hwCons
      /\ ReadCons(hwCons') = NextBd(hwCons) /\ c \in Slot /\ n = Dist(txCons, hwCons)
  BY <1>1, ReadConsStep, RankForm DEF IInv, TypeOK, D
<1>3. n \in Nat /\ n < D(hwProd) /\ D(hwProd) < Usable
  <2>1. Dist(txCons, hwCons) # Dist(txCons, hwProd)
    <3>1. Dist(txCons, hwCons) = Dist(txCons, hwProd) => hwCons = hwProd
      BY <1>2, RankForm, RankInjective, IndexSpaceFacts DEF Dist
    <3> QED BY <3>1, <1>1
  <2>2. n <= D(hwProd) /\ D(hwProd) <= D(txProd) /\ D(txProd) < Usable - 1
    BY Places DEF IInv, OrderInv, FreeCountExact, InFlight, Unnotified
  <2>3. n \in Nat /\ D(hwProd) \in Nat /\ D(txProd) \in Nat
    BY Places, Constants DEF IInv
  <2>4. n # D(hwProd)
    BY <2>1, <1>2 DEF D
  <2> HIDE DEF n
  <2> QED BY <2>2, <2>3, <2>4, Constants
<1>4. D(ReadCons(hwCons))' = n + 1
  <2>1. Dist(txCons, NextBd(hwCons)) = Dist(txCons, hwCons) + 1
    BY <1>2, <1>3, DistNextTo, Places, Constants DEF IInv
  <2> QED BY <2>1, <1>1, <1>2 DEF D
<1>5. Off(c) = n
  <2>1. n < Usable
    <3>1. D(hwProd) \in Nat
      BY Places, Constants DEF IInv
    <3> HIDE DEF n
    <3> QED BY <3>1, <1>3, Constants
  <2> QED BY <2>1, <1>2, DistIsSlotDist DEF Off
<1>6. /\ \A s \in Slot : Off(s) = n => s = c
      /\ \A s \in Slot : Off(s) \in Nat /\ Off(s)' = Off(s)
  <2>1. \A s \in Slot : Off(s)' = Off(s)
    BY <1>1 DEF Off
  <2> HIDE DEF c, n
  <2> QED BY <2>1, <1>2, <1>5, Offsets
<1>7. Ahead' = Ahead /\ Queued' = Queued
  <2>1. \A p : Before(p)' = Before(p)
    BY <1>1 DEF Before, Queued, Recorded, Off
  <2>2. Queued' = Queued
    BY <1>1 DEF Queued, Recorded
  <2> QED BY <2>1, <2>2 DEF Ahead
<1> HIDE DEF c, n
<1>8. \A p : p \in Gone <=> p \in Queued /\ \E s \in Slot : txPackets[s] = p /\ Off(s) < n
  BY DEF Gone, n
<1>9. \A p : p \in Gone' <=> p \in Queued /\ \E s \in Slot : txPackets[s] = p /\ Off(s) < n + 1
  BY <1>1, <1>4, <1>6, <1>7 DEF Gone
<1>10. \A p : p \in Gone' <=> p \in Gone \/ (p \in Queued /\ p = txPackets[c])
  <2>1. \A s \in Slot : Off(s) < n + 1 <=> Off(s) < n \/ s = c
    BY <1>3, <1>5, <1>6
  <2> QED BY <2>1, <1>2, <1>8, <1>9
<1>11. CASE txPackets[c] \notin Queued
  <2>1. Gone' = Gone
    BY <1>10, <1>11
  <2> QED BY <2>1, <1>7
<1>12. CASE txPackets[c] \in Queued
  <2> DEFINE p == txPackets[c]
  <2>1. Gone' = Gone \cup {p}
    BY <1>10, <1>12
  <2>2. \A s \in Slot : txPackets[s] = p => s = c
    BY <1>2, <1>12 DEF IInv, Ownership, Queued
  <2>3. p \notin Gone
    BY <2>2, <1>5, <1>3, <1>8
  <2>4. Ahead[p] = Before(p) /\ DOMAIN Ahead = Queued
    BY <1>12 DEF Ahead
  <2>5. Before(p) \subseteq Gone
    BY <2>2, <1>5, <1>8 DEF Before
  <2>6. p \in Packets
    BY <1>2, <1>12 DEF IInv, TypeOK, Queued
  <2>7. Fifo!Transmit(p)
    <3> HIDE DEF p
    <3> QED BY <2>1, <2>3, <2>4, <2>5, <1>7, <1>12 DEF Fifo!Transmit, Fifo!Accepted, p
  <2> QED BY <2>6, <2>7, <1>7
<1> QED
  BY <1>11, <1>12

\* A slot reclaimed releases the packet recorded there, which is the oldest.
LEMMA ReclaimReleases ==
  ASSUME IInv, IrqReclaim
  PROVE  \/ Ahead' = Ahead /\ Gone' = Gone
         \/ \E p \in Packets : Fifo!Release(p)
<1> DEFINE c == BdIndex(txCons)
           n == D(ReadCons(hwCons))
<1>1. /\ txPackets' = [txPackets EXCEPT ![c] = NULL]
      /\ txCons' = txCons /\ hwCons' = hwCons /\ txCons # irqCons /\ irqPc = "loop"
  BY DEF IrqReclaim, hwVars
<1>2. c \in Slot /\ Off(c) = 0 /\ \A s \in Slot : Off(s) \in Nat /\ (Off(s) = 0 => s = c)
  BY Offsets
<1>3. n > 0
  <2>1. D(irqCons) # 0
    BY <1>1, DistRange DEF D, IInv, TypeOK
  <2> QED BY <2>1, <1>1, Places, Constants DEF IInv, OrderInv
<1>4. D(ReadCons(hwCons))' = n /\ \A s \in Slot : Off(s)' = Off(s)
  BY <1>1 DEF D, Off
<1>5. /\ txPackets'[c] = NULL
      /\ \A s \in Slot : s # c => txPackets'[s] = txPackets[s]
  BY <1>1, <1>2 DEF IInv, TypeOK
<1> HIDE DEF c, n
<1>6. CASE txPackets[c] = NULL
  <2>1. txPackets' = txPackets
    BY <1>1, <1>2, <1>6 DEF IInv, TypeOK
  <2> QED BY <2>1, <1>1, SameQueue
<1>7. CASE txPackets[c] # NULL
  <2> DEFINE p == txPackets[c]
  <2>1. /\ p \in Packets /\ p \in Queued /\ p # NULL
        /\ \A s \in Slot : txPackets[s] = p => s = c
    BY <1>2, <1>7 DEF IInv, TypeOK, Ownership, Queued, Recorded
  <2> HIDE DEF p
  <2>2. \A s \in Slot : \A q : q # NULL => (txPackets'[s] = q <=> txPackets[s] = q /\ q # p)
    BY <2>1, <1>2, <1>5 DEF p
  <2>3. \A q : q \in Queued' <=> q \in Queued /\ q # p
    BY <2>2 DEF Queued, Recorded
  <2>4. \A q : q # p /\ q # NULL => Before(q)' = Before(q) \ {p}
    <3> SUFFICES ASSUME NEW q, q # p, q # NULL, NEW r
                 PROVE  r \in Before(q)' <=> r \in Before(q) /\ r # p
      OBVIOUS
    <3>1. r \in Queued' <=> r \in Queued /\ r # p
      BY <2>3
    <3>2. CASE r = NULL
      BY <3>2 DEF Before, Queued
    <3>3. CASE r # NULL
      BY <3>1, <3>3, <2>2, <1>4 DEF Before
    <3> QED BY <3>2, <3>3
  <2>5. Ahead' = [q \in Queued \ {p} |-> Ahead[q] \ {p}]
    <3>1. Queued' = Queued \ {p}
      BY <2>3
    <3>2. \A q \in Queued \ {p} : Before(q)' = Ahead[q] \ {p}
      BY <2>4 DEF Ahead, Queued
    <3> QED BY <3>1, <3>2 DEF Ahead
  <2>6. Ahead[p] = {} /\ DOMAIN Ahead = Queued
    <3>1. Before(p) = {}
      BY <2>1, <1>2 DEF Before
    <3> QED BY <3>1, <2>1 DEF Ahead
  <2>7. p \in Gone
    BY <2>1, <1>2, <1>3 DEF Gone, p, n
  <2>8. Gone' = Gone \ {p}
    <3> SUFFICES ASSUME NEW q PROVE q \in Gone' <=> q \in Gone /\ q # p
      OBVIOUS
    <3>1. CASE q = NULL
      BY <3>1 DEF Gone, Queued
    <3>2. CASE q # NULL
      BY <3>2, <2>2, <2>3, <1>4 DEF Gone, n
    <3> QED BY <3>1, <3>2
  <2>9. Fifo!Release(p)
    BY <2>1, <2>5, <2>6, <2>7, <2>8 DEF Fifo!Release, Fifo!Accepted
  <2> QED BY <2>1, <2>9
<1> QED
  BY <1>6, <1>7

\* A descriptor counted free held no packet: the others are one nearer, and so
\* is the device.
LEMMA CountSameQueue ==
  ASSUME IInv, IrqCount
  PROVE  Ahead' = Ahead /\ Gone' = Gone
<1>1. /\ txPackets' = txPackets /\ txCons' = NextBd(txCons) /\ hwCons' = hwCons
      /\ txPackets[BdIndex(txCons)] = NULL
  BY DEF IrqCount, hwVars, IInv, RecordInv
<1>2. /\ txCons \in RingPos /\ ReadCons(hwCons) \in RingPos
  BY ReadConsType DEF IInv, TypeOK
<1>3. D(ReadCons(hwCons))' = D(ReadCons(hwCons)) - 1 /\ D(ReadCons(hwCons)) \in Nat
  <2>1. D(ReadCons(hwCons)) > 0
    BY Places, Constants DEF IInv, OrderInv, IrqCount
  <2> QED BY <2>1, <1>1, <1>2, DistNextFrom, Places, Constants DEF D, IInv
<1>4. \A s \in Slot : Off(s)' = IF Off(s) = 0 THEN Usable - 1 ELSE Off(s) - 1
  BY <1>1, <1>2, SlotShift DEF Off
<1>5. \A s \in Slot : txPackets[s] # NULL => Off(s)' = Off(s) - 1 /\ Off(s) \in Nat
  BY <1>1, <1>2, <1>4, Offsets
<1>6. Queued' = Queued
  BY <1>1 DEF Queued, Recorded
<1>7. \A p \in Queued : Before(p)' = Before(p)
  <2> SUFFICES ASSUME NEW p \in Queued, NEW q PROVE q \in Before(p)' <=> q \in Before(p)
    OBVIOUS
  <2>1. \A s, t \in Slot : txPackets[s] # NULL /\ txPackets[t] # NULL =>
          (Off(t)' < Off(s)' <=> Off(t) < Off(s))
    BY <1>5
  <2> QED BY <2>1, <1>1, <1>6 DEF Before, Queued
<1>8. Ahead' = Ahead
  BY <1>6, <1>7 DEF Ahead
<1>9. Gone' = Gone
  <2>1. \A s \in Slot : txPackets[s] # NULL =>
          (Off(s)' < D(ReadCons(hwCons))' <=> Off(s) < D(ReadCons(hwCons)))
    BY <1>3, <1>5
  <2>2. \A p : p \in Gone' <=> p \in Gone
    BY <2>1, <1>1, <1>6 DEF Gone, Queued
  <2> QED BY <2>2
<1> QED
  BY <1>8, <1>9

LEMMA QueueStep == ~RacyCounter /\ IInv /\ [Next]_vars => [Fifo!Next]_(Fifo!vars)
<1> SUFFICES ASSUME ~RacyCounter, IInv, [Next]_vars PROVE [Fifo!Next]_(Fifo!vars)
  OBVIOUS
<1>1. CASE TxStore
  BY <1>1, StoreAccepts DEF Fifo!Next
<1>2. CASE HwTransmit
  BY <1>2, HwTransmits DEF Fifo!Next, Fifo!vars
<1>3. CASE IrqReclaim
  BY <1>3, ReclaimReleases DEF Fifo!Next, Fifo!vars
<1>4. CASE IrqCount
  BY <1>4, CountSameQueue DEF Fifo!vars
<1>5. CASE HwFollowChain
  <2>1. /\ txPackets' = txPackets /\ txCons' = txCons
        /\ ReadCons(hwCons') = ReadCons(hwCons)
    BY <1>5, ReadConsStep DEF HwFollowChain, ringVars, IInv, TypeOK
  <2> QED BY <2>1, SameQueue DEF Fifo!vars
<1>6. CASE \/ \E p \in Packets, n \in 0 .. MaxSeg : OutputPacket(p, n)
           \/ SendDropped \/ SendStall \/ QueueStall \/ SendFits \/ TxFill \/ TxSubtract
           \/ TxNotify \/ IrqEnter \/ IrqService \/ HwStatus \/ UNCHANGED vars
  <2>1. txPackets' = txPackets /\ txCons' = txCons /\ hwCons' = hwCons
    BY <1>6 DEF OutputPacket, SendDropped, SendStall, QueueStall, SendFits, TxFill, TxSubtract,
                TxNotify, IrqEnter, IrqService, HwStatus, vars, ringVars, hwVars
  <2> QED BY <2>1, SameQueue DEF Fifo!vars
<1>7. CASE TxSubtractLoad \/ TxSubtractStore \/ IrqCountLoad \/ IrqCountStore
  BY <1>7 DEF IInv, PcInv, TxSubtractLoad, TxSubtractStore, IrqCountLoad, IrqCountStore
<1> QED
  BY <1>1, <1>2, <1>3, <1>4, <1>5, <1>6, <1>7 DEF Next, Output, Irq, Hw

\* sendTxPacket, handleTxInterrupt and the device together are a queue: with a
\* counter updated in one step, packets go out in order and come back in order,
\* each once and after it has been transmitted.
THEOREM TxFifoTheorem == ~RacyCounter => (Spec => IsFifo)
<1> SUFFICES ASSUME ~RacyCounter PROVE Spec => IsFifo
  OBVIOUS
<1>1. IInv /\ [Next]_vars => [Fifo!Next]_(Fifo!vars)
  BY QueueStep
<1>2. Spec => []IInv
  BY Invariant
<1> QED
  BY <1>1, <1>2, QueueInit, PTL DEF Spec, IsFifo, Fifo!Spec
=============================================================================
