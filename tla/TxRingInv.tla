----------------------------- MODULE TxRingInv -----------------------------
(***************************************************************************)
(* The inductive invariant of the transmit path, for a counter that is     *)
(* updated in one step.                                                    *)
(***************************************************************************)
EXTENDS TxRing

\* Descriptors filled but not yet announced to the device, and the distance
\* up to which every packet is recorded.
Unnotified == IF outPc \in {"fill", "subtract", "notify"} THEN outI ELSE 0
Stored == IF outPc = "fill" THEN D(hwProd) ELSE D(txProd)

\* The two-step counter updates are not taken; a packet being sent has
\* segments, and it fits until its descriptors are subtracted.
PcInv ==
  /\ outPc # "subtractStore" /\ irqPc # "countStore"
  /\ outPc = "check" => outI = 0
  /\ outPc \in {"fill", "subtract"} => outSegs > 0 /\ outSegs < txFreeDescriptors
  /\ outPc \in {"subtract", "notify"} => outI = outSegs /\ outI > 0

\* The indexes follow each other around the ring.
OrderInv ==
  /\ irqPc # "idle" => D(irqCons) <= D(ReadCons(statusCons))
  /\ irqPc = "count" => D(irqCons) > 0
  /\ D(ReadCons(statusCons)) <= D(ReadCons(hwCons))
  /\ D(ReadCons(hwCons)) <= D(hwProd)
  /\ D(txProd) = D(hwProd) + Unnotified

\* txIndex is the descriptor filled last.
LastIndexInv ==
  outPc \in {"fill", "subtract", "notify"} /\ outI > 0 =>
    Off(outIndex) = D(txProd) - 1

\* Packets are recorded in slots in use and only there; the packet in the
\* hands of the output thread is recorded nowhere, or at its last descriptor.
RecordInv ==
  /\ \A s \in Slot : txPackets[s] # NULL => Off(s) < Stored
  /\ irqPc = "count" => txPackets[BdIndex(txCons)] = NULL
  /\ outPc \in {"check", "stall", "fill"} => outPkt \notin Recorded
  /\ outPc \in {"subtract", "notify"} => txPackets[outIndex] = outPkt

\* What the descriptors from the device's position on say: those of recorded
\* packets, and those being filled.
FilledInv ==
  \A s \in Slot :
    outPc = "fill" /\ D(hwProd) <= Off(s) /\ Off(s) < D(txProd) =>
      /\ txChain[s].pkt = outPkt
      /\ "END" \in txChain[s].flags <=> Off(s) = D(hwProd) + outSegs - 1
EndInv ==
  \A s \in Slot :
    D(ReadCons(hwCons)) <= Off(s) /\ Off(s) < Stored =>
      txPackets[s] = IF "END" \in txChain[s].flags THEN txChain[s].pkt ELSE NULL

\* A segment's packet is recorded at its own descriptor or a later one.
CoverInv ==
  \A s \in Slot :
    D(ReadCons(hwCons)) <= Off(s) /\ Off(s) < Stored =>
      /\ txChain[s].pkt # NULL
      /\ \E t \in Slot : Off(s) <= Off(t) /\ txPackets[t] = txChain[s].pkt

\* Who waits for service() will get it.
WakeInv ==
  /\ queueStalled => outPc = "idle"
  /\ queueStalled \/ (outPc = "stall" /\ ~serviced) =>
       D(hwProd) > 0 \/ irqPc # "idle"

\* All of it: what makes every step of the two threads and the device keep
\* FreeCountExact and Ownership.
IInv ==
  /\ TypeOK /\ PcInv /\ OrderInv /\ FreeCountExact
  /\ LastIndexInv /\ RecordInv /\ Ownership
  /\ FilledInv /\ EndInv /\ CoverInv /\ WakeInv
=============================================================================
