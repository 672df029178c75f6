------------------------------ MODULE RingLaps ------------------------------
(***************************************************************************)
(* The index macros of HwBuffers.h and readTxCons as they are written,     *)
(* with masks on 16-bit words, next to the arithmetic of RingIndex that    *)
(* the models and proofs use, at every index of RingWalk and at the sizes  *)
(* of the code.                                                            *)
(***************************************************************************)
EXTENDS RingWalk, Bitwise

\* A mutant: the step over the chain pointer comes one descriptor late.
TX_NEXT_BD_LATE(x) == (IF (x & Usable) = Usable THEN x + 2 ELSE x + 1) % 65536

TX_NEXT_BD(x) == (IF (x & Usable) = Usable - 1 THEN x + 2 ELSE x + 1) % 65536
TX_BD_INDEX(x) == x & Usable
ReadTxCons(c) == IF (c & Usable) = Usable THEN (c + 1) % 65536 ELSE c

\* The masks and the roll-over compute what RingIndex says, at each index the
\* driver and the device come by; none of the driver's names the chain pointer.
MasksAreRemainders ==
  /\ drv \in RingPos /\ hw \in HwIndex
  /\ TX_NEXT_BD(drv) = NextBd(drv)
  /\ TX_BD_INDEX(hw) = BdIndex(hw)
  /\ ReadTxCons(hw) = ReadCons(hw)
=============================================================================
