------------------------------ MODULE MCTxRing ------------------------------
(***************************************************************************)
(* TLC instance of TxRing.                                                 *)
(***************************************************************************)
EXTENDS TxQueue, TLC

Symmetry == Permutations(Packets)
=============================================================================
