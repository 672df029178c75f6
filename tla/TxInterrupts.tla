---------------------------- MODULE TxInterrupts ----------------------------
(***************************************************************************)
(* The transmit ring behind the interrupt handshake of interruptOccurred   *)
(* (AzulNX2Ethernet.cpp): the work loop looks at the consumer index only   *)
(* when an interrupt has brought it there, and acknowledges the status     *)
(* block as it is afterwards, looked at or not.                            *)
(*                                                                         *)
(* Of the status index only one thing matters here, whether the device has *)
(* written the block since the handler sampled it.  Link and receive ring  *)
(* are in Interrupts; here they are the other reasons to write the block.  *)
(***************************************************************************)
EXTENDS TxRing

VARIABLES
  handler,   \* where interruptOccurred is
  masked,    \* the device: its interrupt is masked
  msi,       \* an interrupt is on its way to the handler
  newer      \* the block has been written since its index was sampled

handshakeVars == <<handler, masked, msi, newer>>
liveVars == <<vars, handshakeVars>>

\* startController has unmasked and asked for a status block with an interrupt.
InitLive == /\ Init
            /\ handler = "idle" /\ masked = FALSE /\ msi = TRUE /\ newer = TRUE
-----------------------------------------------------------------------------
(***************************************************************************)
(* interruptOccurred.                                                      *)
(***************************************************************************)
HandlerEnter ==
  /\ handler = "idle" /\ msi
  /\ handler' = "mask" /\ msi' = FALSE
  /\ UNCHANGED <<vars, masked, newer>>

HandlerMask ==
  /\ handler = "mask"
  /\ handler' = "look" /\ masked' = TRUE
  /\ UNCHANGED <<vars, msi, newer>>

\* The look at the consumer index: there is something to reclaim ...
HandlerTx ==
  /\ handler = "look" /\ IrqEnter
  /\ handler' = "tx"
  /\ UNCHANGED <<masked, msi, newer>>

\* ... or there is not.
HandlerNoTx ==
  /\ handler = "look" /\ txCons = ReadCons(statusCons)
  /\ handler' = "sample"
  /\ UNCHANGED <<vars, masked, msi, newer>>

HandlerReclaim ==
  /\ handler = "tx" /\ (IrqReclaim \/ IrqCount \/ IrqCountLoad \/ IrqCountStore)
  /\ UNCHANGED handshakeVars

HandlerService ==
  /\ handler = "tx" /\ IrqService
  /\ handler' = "sample"
  /\ UNCHANGED <<masked, msi, newer>>

\* lastStatusIndex = statusBlock->index, without another look at the rings.
HandlerSample ==
  /\ handler = "sample"
  /\ handler' = "unmask" /\ newer' = FALSE
  /\ UNCHANGED <<vars, masked, msi>>

\* A mutant: only the first of the two writes, with the mask still set.
HandlerUnmaskMasked ==
  /\ handler = "unmask"
  /\ handler' = "idle"
  /\ msi' = (msi \/ newer)
  /\ UNCHANGED <<vars, masked, newer>>

\* enableInterrupts(false): the device compares the index with its own.
HandlerUnmask ==
  /\ handler = "unmask"
  /\ handler' = "idle" /\ masked' = FALSE
  /\ msi' = (msi \/ newer)
  /\ UNCHANGED <<vars, newer>>
-----------------------------------------------------------------------------
(***************************************************************************)
(* The device writes the status block, with an interrupt unless it is      *)
(* masked: for descriptors it has completed, or for something else.        *)
(***************************************************************************)
Written == newer' = TRUE /\ msi' = (msi \/ ~masked) /\ UNCHANGED <<handler, masked>>

WriteTx == HwStatus /\ Written
WriteOther == statusCons = hwCons /\ Written /\ UNCHANGED vars
-----------------------------------------------------------------------------
Handler == \/ HandlerEnter \/ HandlerMask
           \/ HandlerTx \/ HandlerNoTx \/ HandlerReclaim \/ HandlerService
           \/ HandlerSample \/ HandlerUnmask
Device == HwTransmit \/ HwFollowChain

NextLive == \/ (Output \/ Device) /\ UNCHANGED handshakeVars
            \/ Handler \/ WriteTx \/ WriteOther

OutputSteps == SendDropped \/ SendStall \/ QueueStall \/ SendFits \/ TxFill
               \/ TxStore \/ TxSubtract \/ TxSubtractLoad \/ TxSubtractStore \/ TxNotify

\* A thread inside sendTxPacket runs on, the work loop runs the handler once an
\* interrupt has come, and the device works and reports what it has completed.
\* The queue need not offer a packet, nor the device write for any other reason.
LiveSpec == /\ InitLive /\ [][NextLive]_liveVars
            /\ WF_liveVars(OutputSteps /\ UNCHANGED handshakeVars)
            /\ WF_liveVars(Handler)
            /\ WF_liveVars(Device /\ UNCHANGED handshakeVars)
            /\ WF_liveVars(WriteTx)

\* Other traffic makes the device write the status block now and then.
Traffic == WF_liveVars(WriteOther)
-----------------------------------------------------------------------------
\* A completion that was written between the handler's look and its sample: it
\* is acknowledged, unhandled, and no interrupt comes for it.
Forgotten == handler = "idle" /\ ~msi /\ txCons # ReadCons(statusCons)

\* txQueue->service() (TransmitReceive.cpp:235) ends every stall, unless the
\* completion it waits for is forgotten; and with other traffic even then.
StallEnds == /\ queueStalled ~> ~queueStalled \/ Forgotten
             /\ Traffic => (queueStalled ~> ~queueStalled)

\* "Free any newly completed packets" (TransmitReceive.cpp:221): every packet
\* handed to the driver comes back, unless a completion is forgotten; and with
\* other traffic even then.
PacketsComeBack == \A p \in Packets :
  /\ p \in held ~> p \notin held \/ Forgotten
  /\ Traffic => (p \in held ~> p \notin held)
=============================================================================
