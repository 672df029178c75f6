------------------------------ MODULE RxInput -------------------------------
(***************************************************************************)
(* What is in the packets of RxRing: the header the device writes in front *)
(* of each frame (rx_l2_header_t, HwBuffers.h), what handleRxInterrupt     *)
(* makes of its length, errors and checks, and what it hands to the stack. *)
(***************************************************************************)
EXTENDS RxRingInv, Sequences

CONSTANT Headers  \* bound: the headers the device writes

Checks == {"IP", "TCP", "UDP"}
UInt16Count == 256 * 256
UInt16 == 0 .. UInt16Count - 1

\* packetLength, errors and those of the status bits the driver looks at.
ASSUME InputAssumption ==
  Headers \subseteq [length : UInt16, errors : BOOLEAN, status : SUBSET Checks]

VARIABLES
  content,            \* mbuf -> the set of the header received into it, if any
  checksumValidMask,
  input               \* the last packet handed up: its header, its checksum result
                      \* and whether it began its burst (kept until a refill fails)

inVars == <<content, checksumValidMask, input>>

CRCSize == 4
MAX_PACKET_SIZE == 1522

\* A UInt16.
packetLength(h) == (h.length + UInt16Count - CRCSize) % UInt16Count

\* A mutant: the length is signed.
GarbageSigned(h) == h.length - CRCSize > MAX_PACKET_SIZE \/ h.errors

Garbage(h) == packetLength(h) > MAX_PACKET_SIZE \/ h.errors

Nothing == [b \in Bufs |-> {}]
NoInput == [header |-> {}, checked |-> {}, first |-> FALSE]

InitInput ==
  /\ Init
  /\ content = Nothing /\ checksumValidMask = {} /\ input = NoInput
-----------------------------------------------------------------------------
\* A mutant: the mask is that of the last burst.
InputEnterKeeping ==
  /\ RxEnter
  /\ UNCHANGED inVars

InputEnter ==
  /\ RxEnter
  /\ checksumValidMask' = {}
  /\ UNCHANGED <<content, input>>

\* A packet not received into holds anything; in an empty slot is none at all.
HeaderOf(b) == IF b = NULL THEN {} ELSE IF content[b] = {} THEN Headers ELSE content[b]

\* The packet taken is the driver's no more.  Once a refill has failed the packets
\* may hold anything: what is received into them is followed no further.
Emptied(b) == IF failed' THEN Nothing ELSE [content EXCEPT ![b] = {}]

InputDrop ==
  \E h \in HeaderOf(rxPackets[BdIndex(rxCons)]) :
    /\ Garbage(h)
    /\ RxPacket("free")
    /\ content' = Emptied(rxPackets[BdIndex(rxCons)])
    /\ input' = IF failed' THEN NoInput ELSE input
    /\ UNCHANGED checksumValidMask

InputUp ==
  \E h \in HeaderOf(rxPackets[BdIndex(rxCons)]) :
    /\ ~Garbage(h)
    /\ RxPacket("stack")
    /\ content' = Emptied(rxPackets[BdIndex(rxCons)])
    /\ checksumValidMask' = checksumValidMask \cup h.status
    /\ input' = IF failed' THEN NoInput
                ELSE [header |-> {h}, checked |-> checksumValidMask',
                      first |-> hwProd = rxProd]

\* The device writes the header to the address in the descriptor.
InputReceive(h) ==
  LET b == rxChain[BdIndex(hwCons)]
  IN  /\ HwReceive
      /\ content' = IF failed \/ b = NULL THEN content ELSE [content EXCEPT ![b] = {h}]
      /\ UNCHANGED <<checksumValidMask, input>>

InputOther ==
  /\ \/ InitPost \/ InitFail \/ InitDone \/ RxPanic \/ RxDone
     \/ HwFollowChain \/ HwStatus \/ \E b \in Bufs : StackFree(b)
  /\ UNCHANGED inVars

NextInput == \/ InputEnter \/ InputDrop \/ InputUp \/ InputOther
             \/ \E h \in Headers : InputReceive(h)
SpecInput == InitInput /\ [][NextInput]_<<vars, inVars>>
-----------------------------------------------------------------------------
\* The headers received and not yet looked at, in the order of the ring.
Received(b) == IF b = NULL THEN {} ELSE content[b]
SlotAt(k) == (BdIndex(rxCons) + k - 1) % Usable
Arrived == [k \in 1 .. D(ReadCons(hwCons)) |-> Received(rxPackets[SlotAt(k)])]

\* "Don't send garbage to the OS" (TransmitReceive.cpp:365): what is shorter
\* than its checksum or longer than a packet, or came with an error.
BadFrames == {{h} : h \in {g \in Headers :
                \/ g.length < CRCSize \/ g.length > MAX_PACKET_SIZE + CRCSize
                \/ g.errors}}

Fifo == INSTANCE RxFifo WITH Frames <- {{h} : h \in Headers}, Bad <- BadFrames,
                             queue <- Arrived, up <- input.header, broken <- failed

\* Through every lap of the ring and whatever the device has filled meanwhile,
\* handleRxInterrupt takes the frames in the order they were received, each
\* once, drops the bad ones and hands up the others, until a call of
\* initRxDescriptor fails.
IsRxFifo == Fifo!Spec

\* Without an allocation failure, the packet that begins a burst is handed up with
\* the checks the device made on it, and none of an earlier burst (within a burst
\* handleRxInterrupt adds them up).
ClaimsOwnChecks ==
  \A h \in input.header : input.first => input.checked = h.status
-----------------------------------------------------------------------------
(***************************************************************************)
(* The inductive invariant: a packet received into and not yet taken holds *)
(* one header, and a burst begins without checks.                          *)
(***************************************************************************)
InputTypeOK ==
  /\ content \in [Bufs -> SUBSET Headers]
  /\ checksumValidMask \subseteq Checks

ContentInv ==
  ~failed => \A s \in Slot : Off(s) < D(ReadCons(hwCons)) =>
               \E h \in Headers : content[rxPackets[s]] = {h}

MaskInv == ~failed /\ rxPc = "loop" /\ hwProd = rxProd => checksumValidMask = {}

InputInv == IInv /\ InputTypeOK /\ ContentInv /\ MaskInv
=============================================================================
