----------------------------- MODULE MCRxInput ------------------------------
(***************************************************************************)
(* TLC instance of RxInput: a frame shorter than its checksum, the longest *)
(* one, one with an error, and one of another protocol.                    *)
(***************************************************************************)
EXTENDS RxInput, TLC

Header(n, e, s) == [length |-> n, errors |-> e, status |-> s]
MCHeaders == { Header(3, FALSE, {}), Header(1526, FALSE, {"IP", "TCP"}),
               Header(64, TRUE, {"IP"}), Header(64, FALSE, {"UDP"}) }
Symmetry == Permutations(Bufs)
=============================================================================
