------------------------------- MODULE TxRing -------------------------------
(***************************************************************************)
(* The transmit path of TransmitReceive.cpp: sendTxPacket fills the ring,  *)
(* the device reads it, handleTxInterrupt gives the packets back.          *)
(*                                                                         *)
(* Two threads of the host share the ring without a lock: IOBasicOutput-   *)
(* Queue calls outputPacket in the thread that queues the packet (one call *)
(* at a time), interruptOccurred runs on the work loop.  A step of either  *)
(* is a stretch of code that touches shared state once.                    *)
(***************************************************************************)
EXTENDS RingIndex, FiniteSets

CONSTANTS
  Packets,      \* the mbufs of the network stack
  NULL,         \* no packet
  MaxSeg,       \* TX_MAX_SEG_COUNT: 512 in the code
  RacyCounter   \* are ++ and -= on txFreeDescriptors a load and a store?

\* A packet of the most segments fits an empty ring (512 < 1022).
ASSUME TxAssumption == /\ MaxSeg \in Nat \ {0} /\ MaxSeg < Usable - 1
                       /\ NULL \notin Packets
                       /\ RacyCounter \in BOOLEAN

VARIABLES
  txProd, txCons, txFreeDescriptors,
  txPackets,    \* slot -> the packet to free when the slot is reclaimed
  txChain,      \* the page of descriptors in memory shared with the device
  outPc,        \* where sendTxPacket stands
  outPkt, outSegs,  \* its packet and segmentCount
  outI, outIndex,   \* its loop counter and txIndex
  outFree,      \* the counter value it has loaded, under RacyCounter
  irqPc,        \* where handleTxInterrupt stands
  irqCons,      \* its argument txConsNew
  irqFree,      \* the counter value it has loaded, under RacyCounter
  hwProd,       \* the device: the mailbox NX2_L2MQ_TX_HOST_BIDX
  hwCons,       \*   the descriptor it reads next
  statusCons,   \*   statusBlock->txConsumer0, written by DMA
  held,         \* packets handed to the driver and not freed or given back
  queueStalled, \* IOBasicOutputQueue: it waits for service()
  serviced      \*   service() was called since it last called outputPacket

ringVars == <<txProd, txCons, txFreeDescriptors, txPackets, txChain>>
outVars == <<outPc, outPkt, outSegs, outI, outIndex, outFree>>
irqVars == <<irqPc, irqCons, irqFree>>
hwVars == <<hwProd, hwCons, statusCons>>
queueVars == <<queueStalled, serviced>>
vars == <<ringVars, outVars, irqVars, hwVars, held, queueVars>>

Bd(p, flags) == [pkt |-> p, flags |-> flags]
ChainPtr == Bd(NULL, {"CHAIN"})
-----------------------------------------------------------------------------
\* initTxRing.
Init ==
  /\ txProd = 0 /\ txCons = 0 /\ txFreeDescriptors = Usable - 1
  /\ txPackets = [s \in Slot |-> NULL]
  /\ txChain = [s \in 0 .. Usable |-> IF s = Usable THEN ChainPtr ELSE Bd(NULL, {})]
  /\ outPc = "idle" /\ outPkt = NULL /\ outSegs = 0
  /\ outI = 0 /\ outIndex = 0 /\ outFree = 0
  /\ irqPc = "idle" /\ irqCons = 0 /\ irqFree = 0
  /\ hwProd = 0 /\ hwCons = 0 /\ statusCons = 0
  /\ held = {} /\ queueStalled = FALSE /\ serviced = FALSE
-----------------------------------------------------------------------------
(***************************************************************************)
(* The output thread.                                                      *)
(***************************************************************************)

\* The queue hands over a packet, which the cursor maps to n segments
\* (0 when it cannot).
OutputPacket(p, n) ==
  /\ outPc = "idle" /\ ~queueStalled /\ p \notin held
  /\ outPc' = "check" /\ outPkt' = p /\ outSegs' = n /\ outI' = 0
  /\ held' = held \cup {p}
  /\ serviced' = FALSE
  /\ UNCHANGED <<ringVars, outIndex, outFree, irqVars, hwVars, queueStalled>>

\* No segments, with descriptors left: the packet is freed.
SendDropped ==
  /\ outPc = "check" /\ outSegs = 0 /\ txFreeDescriptors > 0
  /\ held' = held \ {outPkt}
  /\ outPc' = "idle" /\ outPkt' = NULL
  /\ UNCHANGED <<ringVars, outSegs, outI, outIndex, outFree, irqVars, hwVars, queueVars>>

\* No room, the test for zero descriptors included: kIOReturnOutputStall.
SendStall ==
  /\ outPc = "check" /\ ~(outSegs < txFreeDescriptors)
  /\ outPc' = "stall"
  /\ UNCHANGED <<ringVars, outPkt, outSegs, outI, outIndex, outFree,
                 irqVars, hwVars, held, queueVars>>

\* The queue takes the packet back and stops, unless service() has been
\* called while the driver was busy with the packet.
QueueStall ==
  /\ outPc = "stall"
  /\ held' = held \ {outPkt} /\ queueStalled' = ~serviced
  /\ outPc' = "idle" /\ outPkt' = NULL
  /\ UNCHANGED <<ringVars, outSegs, outI, outIndex, outFree, irqVars, hwVars, serviced>>

\* A mutant: the room test lost; and one off by one.
SendFitsUnchecked ==
  /\ outPc = "check" /\ outSegs > 0
  /\ outPc' = "fill"
  /\ UNCHANGED <<ringVars, outPkt, outSegs, outI, outIndex, outFree,
                 irqVars, hwVars, held, queueVars>>
SendFitsLastBd ==
  /\ outPc = "check" /\ outSegs > 0 /\ outSegs <= txFreeDescriptors
  /\ outPc' = "fill"
  /\ UNCHANGED <<ringVars, outPkt, outSegs, outI, outIndex, outFree,
                 irqVars, hwVars, held, queueVars>>

SendFits ==
  /\ outPc = "check" /\ outSegs > 0 /\ outSegs < txFreeDescriptors
  /\ outPc' = "fill"
  /\ UNCHANGED <<ringVars, outPkt, outSegs, outI, outIndex, outFree,
                 irqVars, hwVars, held, queueVars>>

\* A mutant: the last segment is not recognised.
BdFlagsNoEnd(i) == {"START"} \cup (IF i = outSegs THEN {"END"} ELSE {})

\* bdFlags of segment i: START is set before the loop and never cleared.
BdFlags(i) == {"START"} \cup (IF i = outSegs - 1 THEN {"END"} ELSE {})

\* One iteration of the loop over the segments.
TxFill ==
  /\ outPc = "fill" /\ outI < outSegs
  /\ txChain' = [txChain EXCEPT ![BdIndex(txProd)] = Bd(outPkt, BdFlags(outI))]
  /\ outIndex' = BdIndex(txProd)
  /\ txProd' = NextBd(txProd)
  /\ outI' = outI + 1
  /\ UNCHANGED <<txCons, txFreeDescriptors, txPackets, outPc, outPkt, outSegs,
                 outFree, irqVars, hwVars, held, queueVars>>

\* A mutant: the packet is recorded at its first descriptor.
TxStoreFirst ==
  /\ outPc = "fill" /\ outI = outSegs
  /\ txPackets' = [txPackets EXCEPT ![BdIndex(hwProd)] = outPkt]
  /\ outPc' = "subtract"
  /\ UNCHANGED <<txProd, txCons, txFreeDescriptors, txChain, outPkt, outSegs,
                 outI, outIndex, outFree, irqVars, hwVars, held, queueVars>>

\* The packet is recorded at its last descriptor.
TxStore ==
  /\ outPc = "fill" /\ outI = outSegs
  /\ txPackets' = [txPackets EXCEPT ![outIndex] = outPkt]
  /\ outPc' = "subtract"
  /\ UNCHANGED <<txProd, txCons, txFreeDescriptors, txChain, outPkt, outSegs,
                 outI, outIndex, outFree, irqVars, hwVars, held, queueVars>>

\* txFreeDescriptors -= segmentCount, in one step or in two.
TxSubtract ==
  /\ outPc = "subtract" /\ ~RacyCounter
  /\ txFreeDescriptors' = (txFreeDescriptors - outSegs) % IndexSpace
  /\ outPc' = "notify"
  /\ UNCHANGED <<txProd, txCons, txPackets, txChain, outPkt, outSegs, outI,
                 outIndex, outFree, irqVars, hwVars, held, queueVars>>

TxSubtractLoad ==
  /\ outPc = "subtract" /\ RacyCounter
  /\ outFree' = txFreeDescriptors
  /\ outPc' = "subtractStore"
  /\ UNCHANGED <<ringVars, outPkt, outSegs, outI, outIndex, irqVars, hwVars,
                 held, queueVars>>

TxSubtractStore ==
  /\ outPc = "subtractStore"
  /\ txFreeDescriptors' = (outFree - outSegs) % IndexSpace
  /\ outFree' = 0
  /\ outPc' = "notify"
  /\ UNCHANGED <<txProd, txCons, txPackets, txChain, outPkt, outSegs, outI,
                 outIndex, irqVars, hwVars, held, queueVars>>

\* The mailbox write; the call returns kIOReturnOutputSuccess.
TxNotify ==
  /\ outPc = "notify"
  /\ hwProd' = txProd
  /\ outPc' = "idle" /\ outPkt' = NULL
  /\ UNCHANGED <<ringVars, outSegs, outI, outIndex, outFree, irqVars, hwCons,
                 statusCons, held, queueVars>>
-----------------------------------------------------------------------------
(***************************************************************************)
(* The work loop.                                                          *)
(***************************************************************************)

\* A mutant: completion is taken from the mailbox, not the status block.
IrqEnterEarly ==
  /\ irqPc = "idle" /\ txCons # hwProd
  /\ irqCons' = hwProd
  /\ irqPc' = "loop"
  /\ UNCHANGED <<ringVars, outVars, irqFree, hwVars, held, queueVars>>

\* The transmit part of interruptOccurred.
IrqEnter ==
  /\ irqPc = "idle" /\ txCons # ReadCons(statusCons)
  /\ irqCons' = ReadCons(statusCons)
  /\ irqPc' = "loop"
  /\ UNCHANGED <<ringVars, outVars, irqFree, hwVars, held, queueVars>>

\* A mutant: the freed packet stays recorded.
IrqReclaimStale ==
  /\ irqPc = "loop" /\ txCons # irqCons
  /\ held' = held \ {txPackets[BdIndex(txCons)]}
  /\ irqPc' = "count"
  /\ UNCHANGED <<ringVars, outVars, irqCons, irqFree, hwVars, queueVars>>

\* An iteration frees the packet recorded in the slot, if there is one ...
IrqReclaim ==
  /\ irqPc = "loop" /\ txCons # irqCons
  /\ held' = held \ {txPackets[BdIndex(txCons)]}
  /\ txPackets' = [txPackets EXCEPT ![BdIndex(txCons)] = NULL]
  /\ irqPc' = "count"
  /\ UNCHANGED <<txProd, txCons, txFreeDescriptors, txChain, outVars, irqCons,
                 irqFree, hwVars, queueVars>>

\* ... and counts the descriptor free, in one step or in two.
IrqCount ==
  /\ irqPc = "count" /\ ~RacyCounter
  /\ txFreeDescriptors' = (txFreeDescriptors + 1) % IndexSpace
  /\ txCons' = NextBd(txCons)
  /\ irqPc' = "loop"
  /\ UNCHANGED <<txProd, txPackets, txChain, outVars, irqCons, irqFree, hwVars,
                 held, queueVars>>

IrqCountLoad ==
  /\ irqPc = "count" /\ RacyCounter
  /\ irqFree' = txFreeDescriptors
  /\ irqPc' = "countStore"
  /\ UNCHANGED <<ringVars, outVars, irqCons, hwVars, held, queueVars>>

IrqCountStore ==
  /\ irqPc = "countStore"
  /\ txFreeDescriptors' = (irqFree + 1) % IndexSpace
  /\ irqFree' = 0
  /\ txCons' = NextBd(txCons)
  /\ irqPc' = "loop"
  /\ UNCHANGED <<txProd, txPackets, txChain, outVars, irqCons, hwVars, held,
                 queueVars>>

\* A mutant: the queue is not told.
IrqServiceNothing ==
  /\ irqPc = "loop" /\ txCons = irqCons
  /\ irqPc' = "idle"
  /\ UNCHANGED <<ringVars, outVars, irqCons, irqFree, hwVars, held, queueVars>>

\* txQueue->service(): a stalled queue runs again.
IrqService ==
  /\ irqPc = "loop" /\ txCons = irqCons
  /\ queueStalled' = FALSE /\ serviced' = TRUE
  /\ irqPc' = "idle"
  /\ UNCHANGED <<ringVars, outVars, irqCons, irqFree, hwVars, held>>
-----------------------------------------------------------------------------
(***************************************************************************)
(* The device: it reads descriptors up to the mailbox, counts the chain    *)
(* pointer, and writes its consumer index to the status block when it      *)
(* likes.                                                                  *)
(***************************************************************************)
HwTransmit ==
  /\ BdIndex(hwCons) # Usable /\ hwCons # hwProd
  /\ hwCons' = (hwCons + 1) % IndexSpace
  /\ UNCHANGED <<ringVars, outVars, irqVars, hwProd, statusCons, held, queueVars>>

HwFollowChain ==
  /\ BdIndex(hwCons) = Usable /\ txChain[Usable] = ChainPtr
  /\ hwCons' = (hwCons + 1) % IndexSpace
  /\ UNCHANGED <<ringVars, outVars, irqVars, hwProd, statusCons, held, queueVars>>

HwStatus ==
  /\ statusCons # hwCons
  /\ statusCons' = hwCons
  /\ UNCHANGED <<ringVars, outVars, irqVars, hwProd, hwCons, held, queueVars>>
-----------------------------------------------------------------------------
Output == \/ \E p \in Packets, n \in 0 .. MaxSeg : OutputPacket(p, n)
          \/ SendDropped \/ SendStall \/ QueueStall \/ SendFits
          \/ TxFill \/ TxStore
          \/ TxSubtract \/ TxSubtractLoad \/ TxSubtractStore
          \/ TxNotify
Irq == \/ IrqEnter \/ IrqReclaim
       \/ IrqCount \/ IrqCountLoad \/ IrqCountStore
       \/ IrqService
Hw == HwTransmit \/ HwFollowChain \/ HwStatus

Next == Output \/ Irq \/ Hw
Spec == Init /\ [][Next]_vars
-----------------------------------------------------------------------------
(***************************************************************************)
(* Correctness.  Places in the ring are told by their distance from        *)
(* txCons, the oldest descriptor not yet reclaimed.                        *)
(***************************************************************************)
D(x) == Dist(txCons, x)
Off(s) == SlotDist(BdIndex(txCons), s)
InFlight == D(txProd)

\* The descriptors the device may read now.
OnDevice(s) == D(ReadCons(hwCons)) <= Off(s) /\ Off(s) < D(hwProd)

Recorded == {txPackets[s] : s \in Slot}

TypeOK ==
  /\ txProd \in RingPos /\ txCons \in RingPos /\ hwProd \in RingPos
  /\ irqCons \in RingPos /\ hwCons \in HwIndex /\ statusCons \in HwIndex
  /\ txFreeDescriptors \in HwIndex /\ outFree \in HwIndex /\ irqFree \in HwIndex
  /\ txPackets \in [Slot -> Packets \cup {NULL}]
  /\ txChain \in [0 .. Usable -> [pkt : Packets \cup {NULL},
                                  flags : SUBSET {"START", "END", "CHAIN"}]]
  /\ txChain[Usable] = ChainPtr
  /\ outPc \in {"idle", "check", "stall", "fill", "subtract", "subtractStore", "notify"}
  /\ outPkt \in Packets \cup {NULL} /\ (outPkt = NULL <=> outPc = "idle")
  /\ outSegs \in 0 .. MaxSeg /\ outI \in 0 .. outSegs /\ outIndex \in Slot
  /\ irqPc \in {"idle", "loop", "count", "countStore"}
  /\ held \subseteq Packets
  /\ queueStalled \in BOOLEAN /\ serviced \in BOOLEAN

\* The counter of free descriptors and the two indexes tell the same story
\* at every step of the two threads, and a descriptor is always left over,
\* so that a full ring is never taken for an empty one.
FreeCountExact ==
  /\ txFreeDescriptors + InFlight =
       Usable - 1 + (IF outPc \in {"fill", "subtract"} THEN outI ELSE 0)
  /\ InFlight < Usable - 1

\* The descriptor sendTxPacket is about to write is not one the device may
\* read, nor one whose packet waits to be freed: what fits "into the current
\* available BDs" really fits.
NoOverrun ==
  outPc = "fill" /\ outI < outSegs =>
    /\ ~OnDevice(BdIndex(txProd))
    /\ txPackets[BdIndex(txProd)] = NULL

\* The device only reads the memory of packets the driver still holds:
\* no packet is freed while one of its segments is in the ring.
DmaFromLivePacket ==
  \A s \in Slot : OnDevice(s) => txChain[s].pkt \in held

\* Every packet the driver holds is in its hands or recorded in one slot, and
\* only such packets are: none is lost, none can be freed twice.
Ownership ==
  /\ held = (Recorded \cup {outPkt}) \ {NULL}
  /\ \A s, t \in Slot : txPackets[s] = txPackets[t] /\ txPackets[s] # NULL => s = t

\* The slot where the packet is recorded is the descriptor that ends it for
\* the device: a packet is freed by the completion of its own last segment.
CompletionPoint ==
  \A s \in Slot : OnDevice(s) =>
    txPackets[s] = IF "END" \in txChain[s].flags THEN txChain[s].pkt ELSE NULL

\* A stalled queue has somebody to wake it: descriptors on the device, a
\* completion not yet reported or handled, or a handler that will call
\* service().
StallHasWaker ==
  queueStalled => \/ hwCons # hwProd
                  \/ statusCons # hwCons
                  \/ txCons # ReadCons(statusCons)
                  \/ irqPc # "idle"
=============================================================================
