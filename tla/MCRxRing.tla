------------------------------ MODULE MCRxRing ------------------------------
(***************************************************************************)
(* TLC instance of RxRing.                                                 *)
(***************************************************************************)
EXTENDS RxRingInv, TLC

Symmetry == Permutations(Bufs)
=============================================================================
