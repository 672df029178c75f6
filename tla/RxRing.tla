------------------------------- MODULE RxRing -------------------------------
(***************************************************************************)
(* The receive path of TransmitReceive.cpp: initRxRing posts a packet in   *)
(* every descriptor of the ring, the device fills them, handleRxInterrupt  *)
(* gives the filled packets to the network stack and posts a new one in    *)
(* the place of each.                                                      *)
(*                                                                         *)
(* The driver's side runs on the work loop alone.  initRxDescriptor works  *)
(* on the slot it is given but advances rxProd, whatever slot that names:  *)
(* the two agree as long as no call of it fails.                           *)
(***************************************************************************)
EXTENDS RingIndex

CONSTANTS
  Bufs,   \* the mbufs packets are received into
  NULL

ASSUME RxAssumption == NULL \notin Bufs /\ Pages >= 2

VARIABLES
  rxProd, rxCons,
  rxPackets,   \* slot -> packet posted there
  rxChain,     \* the page: usable descriptor -> packet whose address it has
  rxPc,        \* "init", "idle", "loop" or "panic"
  rxI,         \* loop counter of initRxRing
  rxConsNew,   \* argument of handleRxInterrupt
  failed,      \* has a call of initRxDescriptor failed? (only remembered)
  owner,       \* who has each mbuf: "free", "driver" or "stack"
  hwProd,      \* the mailbox NX2_L2MQ_RX_HOST_BDIDX
  hwCons,      \* the device's next descriptor
  statusCons   \* statusBlock->rxConsumer0

ringVars == <<rxProd, rxCons, rxPackets, rxChain>>
hwVars == <<hwProd, hwCons, statusCons>>
vars == <<ringVars, rxPc, rxI, rxConsNew, failed, owner, hwVars>>

FreeBufs == {b \in Bufs : owner[b] = "free"}

Init ==
  /\ rxProd = 0 /\ rxCons = 0
  /\ rxPackets = [s \in Slot |-> NULL] /\ rxChain = [s \in Slot |-> NULL]
  /\ rxPc = "init" /\ rxI = 0 /\ rxConsNew = 0 /\ failed = FALSE
  /\ owner = [b \in Bufs |-> "free"]
  /\ hwProd = 0 /\ hwCons = 0 /\ statusCons = 0
-----------------------------------------------------------------------------
(***************************************************************************)
(* initRxDescriptor: a packet is allocated from the free ones, mapped and  *)
(* posted; or the allocation fails; or the mapping does.  The owners       *)
(* before it are an argument, the caller having given a packet away.       *)
(***************************************************************************)

\* A mutant: the descriptor keeps its old address.
RefillStale(s, own) ==
  \E b \in {c \in Bufs : own[c] = "free"} :
    /\ rxPackets' = [rxPackets EXCEPT ![s] = b]
    /\ owner' = [own EXCEPT ![b] = "driver"]
    /\ rxProd' = NextBd(rxProd)
    /\ UNCHANGED <<rxChain, failed>>

RefillOk(s, own) ==
  \E b \in {c \in Bufs : own[c] = "free"} :
    /\ rxPackets' = [rxPackets EXCEPT ![s] = b]
    /\ rxChain' = [rxChain EXCEPT ![s] = b]
    /\ owner' = [own EXCEPT ![b] = "driver"]
    /\ rxProd' = NextBd(rxProd)
    /\ UNCHANGED failed

\* A mutant: the slot still names the packet given away.
RefillNoPacketStale(s, own) ==
  /\ failed' = TRUE
  /\ owner' = own
  /\ UNCHANGED <<rxPackets, rxChain, rxProd>>

RefillNoPacket(s, own) ==
  /\ rxPackets' = [rxPackets EXCEPT ![s] = NULL]
  /\ failed' = TRUE
  /\ owner' = own
  /\ UNCHANGED <<rxChain, rxProd>>

RefillNoSegment(s, own) ==
  \E b \in {c \in Bufs : own[c] = "free"} :
    /\ rxPackets' = [rxPackets EXCEPT ![s] = b]
    /\ failed' = TRUE
    /\ owner' = [own EXCEPT ![b] = "driver"]
    /\ UNCHANGED <<rxChain, rxProd>>

RefillFails(s, own) == RefillNoPacket(s, own) \/ RefillNoSegment(s, own)
-----------------------------------------------------------------------------
(***************************************************************************)
(* initRxRing.  A descriptor that cannot be filled ends it, before the     *)
(* mailbox is written; startController goes on all the same.               *)
(***************************************************************************)
InitPost ==
  /\ rxPc = "init" /\ rxI < Usable
  /\ RefillOk(rxI, owner)
  /\ rxI' = rxI + 1
  /\ UNCHANGED <<rxCons, rxPc, rxConsNew, hwVars>>

InitFail ==
  /\ rxPc = "init" /\ rxI < Usable
  /\ RefillFails(rxI, owner)
  /\ rxPc' = "idle"
  /\ UNCHANGED <<rxCons, rxI, rxConsNew, hwVars>>

InitDone ==
  /\ rxPc = "init" /\ rxI = Usable
  /\ hwProd' = rxProd
  /\ rxPc' = "idle"
  /\ UNCHANGED <<ringVars, rxI, rxConsNew, failed, owner, hwCons, statusCons>>
-----------------------------------------------------------------------------
(***************************************************************************)
(* handleRxInterrupt, called from interruptOccurred when the index in the  *)
(* status block has moved.                                                 *)
(***************************************************************************)
RxEnter ==
  /\ rxPc = "idle" /\ rxCons # ReadCons(statusCons)
  /\ rxConsNew' = ReadCons(statusCons)
  /\ rxPc' = "loop"
  /\ UNCHANGED <<ringVars, rxI, failed, owner, hwVars>>

\* One packet: given to the stack when it is good, freed when it is not; and
\* the descriptor refilled.  The result of initRxDescriptor is not looked at.
RxPacket(to) ==
  LET s == BdIndex(rxCons)
      own == [owner EXCEPT ![rxPackets[s]] = to]
  IN  /\ rxPc = "loop" /\ rxCons # rxConsNew
      /\ rxPackets[s] # NULL
      /\ rxCons' = NextBd(rxCons)
      /\ RefillOk(s, own) \/ RefillFails(s, own)
      /\ UNCHANGED <<rxPc, rxI, rxConsNew, hwVars>>

\* mbuf_data of a slot left empty.
RxPanic ==
  /\ rxPc = "loop" /\ rxCons # rxConsNew
  /\ rxPackets[BdIndex(rxCons)] = NULL
  /\ rxPc' = "panic"
  /\ UNCHANGED <<ringVars, rxI, rxConsNew, failed, owner, hwVars>>

\* A mutant: the device is told of one descriptor too many.
RxDoneAhead ==
  /\ rxPc = "loop" /\ rxCons = rxConsNew
  /\ hwProd' = NextBd(rxProd)
  /\ rxPc' = "idle"
  /\ UNCHANGED <<ringVars, rxI, rxConsNew, failed, owner, hwCons, statusCons>>

RxDone ==
  /\ rxPc = "loop" /\ rxCons = rxConsNew
  /\ hwProd' = rxProd
  /\ rxPc' = "idle"
  /\ UNCHANGED <<ringVars, rxI, rxConsNew, failed, owner, hwCons, statusCons>>
-----------------------------------------------------------------------------
\* The stack is done with a packet.
StackFree(b) ==
  /\ rxPc # "panic" /\ owner[b] = "stack"
  /\ owner' = [owner EXCEPT ![b] = "free"]
  /\ UNCHANGED <<ringVars, rxPc, rxI, rxConsNew, failed, hwVars>>

\* The device receives into the descriptor it stands on, up to the mailbox.
HwReceive ==
  /\ rxPc # "panic" /\ BdIndex(hwCons) # Usable /\ hwCons # hwProd
  /\ hwCons' = (hwCons + 1) % IndexSpace
  /\ UNCHANGED <<ringVars, rxPc, rxI, rxConsNew, failed, owner, hwProd, statusCons>>

HwFollowChain ==
  /\ rxPc # "panic" /\ BdIndex(hwCons) = Usable
  /\ hwCons' = (hwCons + 1) % IndexSpace
  /\ UNCHANGED <<ringVars, rxPc, rxI, rxConsNew, failed, owner, hwProd, statusCons>>

HwStatus ==
  /\ rxPc # "panic" /\ statusCons # hwCons
  /\ statusCons' = hwCons
  /\ UNCHANGED <<ringVars, rxPc, rxI, rxConsNew, failed, owner, hwProd, hwCons>>

Driver == \/ InitPost \/ InitFail \/ InitDone
          \/ RxEnter \/ RxPacket("stack") \/ RxPacket("free") \/ RxPanic \/ RxDone
Hw == HwReceive \/ HwFollowChain \/ HwStatus
Next == Driver \/ Hw \/ \E b \in Bufs : StackFree(b)
Spec == Init /\ [][Next]_vars
-----------------------------------------------------------------------------
D(x) == Dist(rxCons, x)
Off(s) == SlotDist(BdIndex(rxCons), s)

\* The descriptors the device may fill, or has filled and the driver not
\* yet looked at: those from rxCons up to the mailbox, a whole lap at most.
Posted(s) == Off(s) < D(hwProd)

TypeOK ==
  /\ rxProd \in RingPos /\ rxCons \in RingPos /\ rxConsNew \in RingPos
  /\ hwProd \in RingPos /\ hwCons \in HwIndex /\ statusCons \in HwIndex
  /\ rxPackets \in [Slot -> Bufs \cup {NULL}]
  /\ rxChain \in [Slot -> Bufs \cup {NULL}]
  /\ rxPc \in {"init", "idle", "loop", "panic"} /\ rxI \in 0 .. Usable
  /\ failed \in BOOLEAN
  /\ owner \in [Bufs -> {"free", "driver", "stack"}]

\* Every mbuf the driver has is recorded in one slot, and every mbuf recorded
\* is the driver's: whether allocations fail or not, nothing is leaked, given
\* to the stack twice or freed twice.
RxOwnership ==
  /\ \A b \in Bufs : owner[b] = "driver" <=> \E s \in Slot : rxPackets[s] = b
  /\ \A s, t \in Slot : rxPackets[s] = rxPackets[t] /\ rxPackets[s] # NULL => s = t

\* "Submit packet and prepare the descriptor for the next use"
\* (TransmitReceive.cpp:391): a descriptor the device may use, or has used,
\* holds the address of the packet the driver will take from that slot - so
\* that the device writes only to memory of the driver and what the driver
\* hands up is what was received.
DescriptorPrepared ==
  \A s \in Slot : Posted(s) => rxPackets[s] # NULL /\ rxChain[s] = rxPackets[s]

\* The same, for as long as every call of initRxDescriptor has succeeded: the
\* indexes of driver and device, the slots and the page stay in step through
\* any number of bursts and laps.
PreparedSoFar == failed \/ DescriptorPrepared

\* The slot refilled is the one rxProd stands for, and the ring is full again
\* when the handler leaves, if no call has failed: the device always has the
\* whole ring to fill, less what it has already filled.
RefillInPlace ==
  ~failed => /\ rxPc = "loop" => BdIndex(rxProd) = BdIndex(rxCons)
             /\ rxPc = "idle" => rxProd = hwProd /\ D(hwProd) = Usable

\* The device cannot fill a descriptor it has filled and the driver has not
\* yet emptied, if no call has failed.
NoOverwrite ==
  ~failed => /\ D(ReadCons(statusCons)) <= D(ReadCons(hwCons))
             /\ D(ReadCons(hwCons)) <= D(hwProd)
             /\ D(hwProd) <= Usable
=============================================================================
