------------------------------ MODULE TxQueue -------------------------------
(***************************************************************************)
(* The transmit ring seen as a queue of packets: those recorded in slots,  *)
(* in the order of the slots from txCons on.                               *)
(***************************************************************************)
EXTENDS TxRingInv

Queued == Recorded \ {NULL}

Before(p) == {q \in Queued : \E s, t \in Slot : /\ txPackets[s] = p /\ txPackets[t] = q
                                                /\ Off(t) < Off(s)}
Ahead == [p \in Queued |-> Before(p)]

\* Those whose last descriptor the device has passed.
Gone == {p \in Queued : \E s \in Slot : /\ txPackets[s] = p
                                        /\ Off(s) < D(ReadCons(hwCons))}

Fifo == INSTANCE TxFifo WITH ahead <- Ahead, sent <- Gone

\* The transmit path implements the queue: packets go out in order and come
\* back in order, each once, never before the device is done with it.
IsFifo == Fifo!Spec
=============================================================================
