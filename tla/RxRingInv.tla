----------------------------- MODULE RxRingInv -----------------------------
(***************************************************************************)
(* The inductive invariant of the receive path.                            *)
(***************************************************************************)
EXTENDS RxRing

\* Slots initRxRing has not come to are empty.
EmptyInv == rxPc = "init" => \A s \in Slot : s >= rxI => rxPackets[s] = NULL

\* A slot that has been filled stays filled, and its descriptor is right.
FilledInv ==
  ~failed => \A s \in Slot : (rxPc = "init" => s < rxI) =>
               rxPackets[s] # NULL /\ rxChain[s] = rxPackets[s]

\* During initRxRing the device has nothing; rxProd is as far as rxI.
StartInv ==
  ~failed /\ rxPc = "init" =>
    /\ rxCons = 0 /\ hwProd = 0 /\ hwCons = 0 /\ statusCons = 0
    /\ D(rxProd) = rxI
    /\ BdIndex(rxProd) = IF rxI = Usable THEN 0 ELSE rxI

\* Afterwards rxProd is a lap ahead of rxCons, on the same slot, and the
\* indexes of the device lie in between, in order.
OrderInv ==
  ~failed /\ rxPc # "init" =>
    /\ D(rxProd) = Usable /\ BdIndex(rxProd) = BdIndex(rxCons)
    /\ D(ReadCons(statusCons)) <= D(ReadCons(hwCons))
    /\ D(ReadCons(hwCons)) <= D(hwProd) /\ D(hwProd) <= Usable
    /\ rxPc = "idle" => hwProd = rxProd
    /\ rxPc = "loop" => D(rxConsNew) <= D(ReadCons(statusCons))
    /\ rxPc # "panic"

\* What makes every step keep the properties of RxRing.
IInv == TypeOK /\ EmptyInv /\ FilledInv /\ StartInv /\ OrderInv /\ RxOwnership
=============================================================================
