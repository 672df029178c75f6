----------------------------- MODULE Interrupts -----------------------------
(***************************************************************************)
(* The interrupt handshake of interruptOccurred (AzulNX2Ethernet.cpp),     *)
(* handlePHYInterrupt (PHY.cpp) and enableInterrupts (Private.cpp) with    *)
(* the host coalescing block of the device.                                *)
(*                                                                         *)
(* The device writes the status block - the consumer indexes of the rings, *)
(* the link's attention bit and what was acknowledged of it, and an index  *)
(* that counts the writes - and raises an interrupt unless it is masked.   *)
(* The driver masks, looks at each part of the status block in turn,       *)
(* samples the index and gives it back: when the device has written the    *)
(* block since, unmasking raises an interrupt.                             *)
(***************************************************************************)
EXTENDS PhyLink

CONSTANTS
  Backlog,    \* bound: how far a ring's consumer index gets ahead of the driver's
  IndexMax    \* values of the status index, 2^16 in the code

ASSUME InterruptsAssumption == /\ Backlog \in Nat \ {0}
                               /\ IndexMax \in Nat /\ IndexMax >= 4

\* The rings, in the order the handler looks at them.
Sources == {"tx", "rx"}
After == [tx |-> "rx", rx |-> "sample"]

VARIABLES
  isEnabled,
  ahead,            \* ring -> how far its consumer index in the status block is
                    \* ahead of txCons or rxCons
  attn, attnAck,    \* the status block's link bit of attnBits and attnBitsAck
  statusIndex,      \* statusBlock->index
  lastStatusIndex,
  pc,               \* where the handler is
  linkAck,          \* the device: what was last acknowledged of the link bit
  masked, acked,    \* the device: interrupt masked, index it was last given
  msi,              \* an interrupt is on its way to the handler
  flaps             \* how often the link has changed since the handler last
                    \* had it in order (history; 2 is twice or more)

blockVars == <<ahead, attn, attnAck, statusIndex>>
phyVars == <<phy, mdioVars, mediaVars, late>>
linkVars == <<phyVars, attn, attnAck, linkAck, flaps>>
vars == <<isEnabled, blockVars, lastStatusIndex, pc, linkAck, masked, acked,
          msi, flaps, phyVars>>

\* The device writes the status block, which leaves the rings at t.  Link
\* and acknowledgement are those of this moment.
WriteBlock(t) ==
  /\ ahead' = t
  /\ attn' = phy'.up /\ attnAck' = linkAck'
  /\ statusIndex' = (statusIndex + 1) % IndexMax

\* stopController has masked the device when enable() begins.
Init ==
  /\ PhyInit
  /\ isEnabled = FALSE
  /\ ahead = [s \in Sources |-> 0]
  /\ attn = FALSE /\ attnAck = FALSE /\ linkAck = FALSE
  /\ statusIndex = 0 /\ lastStatusIndex = 0
  /\ pc = "idle"
  /\ masked = TRUE /\ acked = 0 /\ msi = FALSE
  /\ flaps = 0

\* enable() in the gate of the work loop: startController unmasks and has the
\* device write the status block at once, updatePHYMediaState is called by both,
\* and isEnabled is set; the handler cannot run in between.  The first of the
\* two reads of the PHY may succeed when the second does not.  A link that is up
\* has yet to be acknowledged.
Enable ==
  /\ ~isEnabled
  /\ isEnabled' = TRUE
  /\ masked' = FALSE /\ acked' = lastStatusIndex
  /\ msi' = TRUE
  /\ \/ UpdateMedia(phy) /\ UNCHANGED wire /\ late' = FALSE
     \/ (UpdateMedia(phy) \/ KeepMedia) /\ wire' = GivenUp({NewRead}) /\ late' = TRUE
  /\ UNCHANGED <<lastStatusIndex, pc, linkAck, phy, mdio, polls>>
  /\ flaps' = IF phy.up THEN 1 ELSE 0
  /\ WriteBlock(ahead)
-----------------------------------------------------------------------------
(***************************************************************************)
(* interruptOccurred.                                                      *)
(***************************************************************************)
IrqEnter ==
  /\ pc = "idle" /\ msi /\ isEnabled
  /\ msi' = FALSE
  /\ pc' = "mask"
  /\ UNCHANGED <<isEnabled, ahead, statusIndex, linkVars, lastStatusIndex, masked, acked>>

IrqMask ==
  /\ pc = "mask"
  /\ masked' = TRUE
  /\ pc' = "link"
  /\ UNCHANGED <<isEnabled, ahead, statusIndex, linkVars, lastStatusIndex, acked, msi>>

\* A mutant: only a bit that has come is looked for.
IrqLinkUp ==
  /\ pc = "link"
  /\ pc' = IF attn /\ ~attnAck THEN "phyAck" ELSE "tx"
  /\ UNCHANGED <<isEnabled, ahead, statusIndex, linkVars, lastStatusIndex,
                 masked, acked, msi>>

\* The link's attention bit against its acknowledgement.
IrqLink ==
  /\ pc = "link"
  /\ pc' = IF attn # attnAck THEN "phyAck" ELSE "tx"
  /\ UNCHANGED <<isEnabled, ahead, statusIndex, linkVars, lastStatusIndex,
                 masked, acked, msi>>

\* A mutant: the bit is always acknowledged as set.
PhyAckSet ==
  /\ pc = "phyAck"
  /\ linkAck' = TRUE
  /\ MdioStart
  /\ pc' = "phyRead" /\ flaps' = 0
  /\ UNCHANGED <<isEnabled, blockVars, lastStatusIndex, masked, acked, msi,
                 phy, mediaVars, late>>

\* handlePHYInterrupt: the attention bit, as it is now, is acknowledged and the
\* PHY is asked.
PhyAck ==
  /\ pc = "phyAck"
  /\ linkAck' = attn
  /\ MdioStart
  /\ pc' = "phyRead" /\ flaps' = 0
  /\ UNCHANGED <<isEnabled, blockVars, lastStatusIndex, masked, acked, msi,
                 phy, mediaVars, late>>

PhyPoll ==
  /\ pc = "phyRead"
  /\ MdioPollAgain
  /\ UNCHANGED <<isEnabled, blockVars, lastStatusIndex, pc, linkAck, masked,
                 acked, msi, flaps, phy, mediaVars, late>>

\* updatePHYMediaState has what it waits for, or has given up; the device is
\* then told to write the status block, without an interrupt.
PhyRead ==
  /\ pc = "phyRead"
  /\ MdioDone
  /\ pc' = "tx"
  /\ UNCHANGED <<isEnabled, lastStatusIndex, linkAck, masked, acked, msi, flaps, phy>>
  /\ WriteBlock(ahead)

\* A mutant: the consumer index of the transmit ring is forgotten.
IrqSourceSkip(s) ==
  /\ pc = s
  /\ ahead' = IF s = "tx" THEN ahead ELSE [ahead EXCEPT ![s] = 0]
  /\ pc' = After[s]
  /\ UNCHANGED <<isEnabled, statusIndex, linkVars, lastStatusIndex, masked, acked, msi>>

\* handleTxInterrupt or handleRxInterrupt: what the status block says now is
\* handled, up to there.
IrqSource(s) ==
  /\ pc = s
  /\ ahead' = [ahead EXCEPT ![s] = 0]
  /\ pc' = After[s]
  /\ UNCHANGED <<isEnabled, statusIndex, linkVars, lastStatusIndex, masked, acked, msi>>

\* A mutant: the index is taken to be that of the next write.
IrqSampleNext ==
  /\ pc = "sample"
  /\ lastStatusIndex' = statusIndex + 1
  /\ pc' = "ack"
  /\ UNCHANGED <<isEnabled, ahead, statusIndex, linkVars, masked, acked, msi>>

IrqSample ==
  /\ pc = "sample"
  /\ lastStatusIndex' = statusIndex
  /\ pc' = "ack"
  /\ UNCHANGED <<isEnabled, ahead, statusIndex, linkVars, masked, acked, msi>>

\* enableInterrupts(false): the index with the mask still set, then without.
IrqAck ==
  /\ pc = "ack"
  /\ acked' = lastStatusIndex
  /\ pc' = "unmask"
  /\ UNCHANGED <<isEnabled, ahead, statusIndex, linkVars, lastStatusIndex, masked, msi>>

\* A mutant: the unmasking write carries no valid index.
IrqUnmaskOnly ==
  /\ pc = "unmask"
  /\ masked' = FALSE
  /\ pc' = "idle"
  /\ UNCHANGED <<isEnabled, ahead, statusIndex, linkVars, lastStatusIndex, acked, msi>>

\* The device compares the index with its own.
IrqUnmask ==
  /\ pc = "unmask"
  /\ masked' = FALSE /\ acked' = lastStatusIndex
  /\ msi' = (msi \/ lastStatusIndex # statusIndex)
  /\ pc' = "idle"
  /\ UNCHANGED <<isEnabled, ahead, statusIndex, linkVars, lastStatusIndex>>
-----------------------------------------------------------------------------
(***************************************************************************)
(* The device: something happens and the status block is written.  A ring  *)
(* is at most Backlog descriptors ahead of the driver.  The index does not *)
(* go round between two acknowledgements (2^16 writes); one value is left  *)
(* for the write the handler asks for.                                     *)
(***************************************************************************)
Room == (statusIndex + 1) % IndexMax # acked /\ (statusIndex + 2) % IndexMax # acked

DevUpdate(s) ==
  /\ isEnabled /\ Room
  /\ ahead[s] < Backlog
  /\ msi' = (msi \/ ~masked)
  /\ UNCHANGED <<isEnabled, lastStatusIndex, pc, linkAck, masked, acked, flaps, phyVars>>
  /\ WriteBlock([ahead EXCEPT ![s] = @ + 1])

\* The link comes or goes.
PhyChange(p) ==
  /\ isEnabled /\ Room
  /\ p.up # phy.up /\ phy' = p
  /\ flaps' = IF attn = linkAck /\ pc # "phyRead" THEN 1 ELSE IF flaps = 0 THEN 1 ELSE 2
  /\ msi' = (msi \/ ~masked)
  /\ UNCHANGED <<isEnabled, lastStatusIndex, pc, linkAck, masked, acked,
                 mdioVars, mediaVars, late>>
  /\ WriteBlock(ahead)

\* The PHY looks and answers, whether or not it is still being waited for.
PhyAnswer ==
  /\ MdioSense \/ MdioAnswer(pc = "phyRead")
  /\ UNCHANGED <<isEnabled, blockVars, lastStatusIndex, pc, linkAck, masked, acked,
                 msi, flaps, phy, mediaVars, late>>

Handler == \/ IrqEnter \/ IrqMask \/ IrqLink \/ PhyAck \/ PhyPoll \/ PhyRead
           \/ (\E s \in Sources : IrqSource(s))
           \/ IrqSample \/ IrqAck \/ IrqUnmask
Next == \/ Enable \/ Handler \/ PhyAnswer
        \/ (\E s \in Sources : DevUpdate(s))
        \/ (\E p \in PhyStates : PhyChange(p))
Spec == Init /\ [][Next]_vars

\* The work loop runs the handler, and each ring sees traffic now and then.
TrafficSpec == Spec /\ WF_vars(Enable) /\ WF_vars(Handler)
                    /\ WF_vars(\E s \in Sources : DevUpdate(s))
-----------------------------------------------------------------------------
Unhandled(s) == ahead[s] # 0

TypeOK ==
  /\ PhyTypeOK
  /\ isEnabled \in BOOLEAN /\ masked \in BOOLEAN /\ msi \in BOOLEAN
  /\ attn \in BOOLEAN /\ attnAck \in BOOLEAN /\ linkAck \in BOOLEAN
  /\ ahead \in [Sources -> 0 .. Backlog]
  /\ statusIndex \in 0 .. IndexMax - 1 /\ lastStatusIndex \in 0 .. IndexMax - 1
  /\ acked \in 0 .. IndexMax - 1
  /\ pc \in {"idle", "mask", "link", "phyAck", "phyRead", "tx", "rx", "sample", "ack", "unmask"}
  /\ flaps \in 0 .. 2

\* Between two runs of the handler, the device has written nothing newer than
\* the index it was given, or an interrupt is on its way; and it is not left
\* masked.
IndexAckComplete ==
  isEnabled /\ pc = "idle" => ~masked /\ (msi \/ acked = statusIndex)

\* The link the driver has acknowledged, and so will not be told of again.
LinkSettled == isEnabled /\ pc = "idle" /\ attn = linkAck /\ ~late

\* The network stack is told what the PHY says.
LinkTold == /\ osLink.up = phy.up
            /\ phy.up /\ phy.speed \in Speeds => osLink.medium = phy.speed

\* A link whose state is acknowledged is reported as it is, with its medium,
\* unless the last read of the PHY failed or took the answer to a read given up
\* on, or the link changed twice while its change was handled
\* (handlePHYInterrupt): those three are left to LinkAlwaysReported.
LinkReported == LinkSettled /\ flaps < 2 => LinkTold

\* "Update OS with link status" (PHY.cpp:391): the same however often the link
\* changes while the handler looks at it, whether or not the PHY could be read,
\* and whichever read it answers.
LinkAlwaysReported == isEnabled /\ pc = "idle" /\ attn = linkAck => LinkTold

\* What the status block reports is handled sooner or later, as long as new
\* traffic makes the device write it again.
HandledUnderTraffic == \A s \in Sources : Unhandled(s) ~> ~Unhandled(s)

\* The link that comes or goes is reported sooner or later, unless a read of the
\* PHY failed or took the answer to an earlier one, or the link changed twice
\* while its change was handled.
LinkEventuallyReported ==
  (isEnabled /\ phy.up # osLink.up) ~> (phy.up = osLink.up \/ late \/ flaps = 2)

\* "Process any newly received packets" (TransmitReceive.cpp:351), "Free any
\* newly completed packets" (:221): nothing the status block reports is left
\* without an interrupt that will have it handled.
NoLostWakeup ==
  isEnabled /\ pc = "idle" /\ ~msi => \A s \in Sources : ~Unhandled(s)
=============================================================================
