----------------------------- MODULE RingIndex -----------------------------
(***************************************************************************)
(* Index arithmetic of the transmit and receive descriptor rings           *)
(* (HwBuffers.h TX_NEXT_BD, TX_BD_INDEX and their RX twins, readTxCons and *)
(* readRxCons of TransmitReceive.cpp).                                     *)
(*                                                                         *)
(* A ring is one page of MaxBD buffer descriptors.  The last descriptor of *)
(* the page is a pointer back to the start, so MaxBD - 1 are usable.  The  *)
(* driver and the device count descriptors with 16-bit indexes that run    *)
(* over the page again and again until they roll over: the page is passed  *)
(* Pages = 2^16 / MaxBD times.  The device counts the chain pointer; the   *)
(* driver's own indexes step over it.                                      *)
(***************************************************************************)
EXTENDS Integers

CONSTANTS
  MaxBD,  \* TX_MAX_BD_COUNT and RX_MAX_BD_COUNT: 1024 in the code
  Pages   \* laps of the page in the range of UInt16: 64 in the code

\* Three descriptors: two usable ones and the chain pointer.
ASSUME RingAssumption == /\ MaxBD \in Nat /\ MaxBD >= 3
                         /\ Pages \in Nat \ {0}

Usable == MaxBD - 1                  \* TX_USABLE_BD_COUNT, RX_USABLE_BD_COUNT
IndexSpace == MaxBD * Pages          \* the 2^16 values of UInt16
HwIndex == 0 .. IndexSpace - 1       \* what the device counts with
Slot == 0 .. Usable - 1              \* the usable descriptors of the page

\* x & (MaxBD - 1): the masks of the code are remainders, MaxBD being a
\* power of two.
BdIndex(x) == x % MaxBD

\* The values the driver's producer and consumer indexes take.
RingPos == {x \in HwIndex : BdIndex(x) # Usable}

\* A mutant: the chain pointer is not stepped over.
NextBdNoSkip(x) == (x + 1) % IndexSpace

NextBd(x) == (IF BdIndex(x) = Usable - 1 THEN x + 2 ELSE x + 1) % IndexSpace

\* A mutant: a consumer index on the chain pointer is taken as it is.
ReadConsRaw(c) == c

\* A consumer index read from the status block: one that stands on the
\* chain pointer is moved to the first descriptor of the next lap.
ReadCons(c) == IF BdIndex(c) = Usable THEN (c + 1) % IndexSpace ELSE c
-----------------------------------------------------------------------------
(***************************************************************************)
(* The reference: the place of an index among the driver's indexes, and    *)
(* the number of descriptors from one index up to another.                 *)
(***************************************************************************)
PosCount == Usable * Pages
Rank(x) == x - (x \div MaxBD)
Dist(a, b) == IF Rank(b) >= Rank(a) THEN Rank(b) - Rank(a)
                                    ELSE Rank(b) - Rank(a) + PosCount

\* How far slot t lies ahead of slot s on the page.
SlotDist(s, t) == IF t >= s THEN t - s ELSE t - s + Usable
=============================================================================
