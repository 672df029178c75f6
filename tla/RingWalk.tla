------------------------------ MODULE RingWalk ------------------------------
(***************************************************************************)
(* The device and the driver walk the same ring, each with its own index,  *)
(* through all the laps of the 16-bit range and over its roll-over.        *)
(***************************************************************************)
EXTENDS RingIndex

VARIABLES
  hw,    \* the device's index: it counts every descriptor
  drv    \* the driver's index: it steps over the chain pointer

Init == hw = 0 /\ drv = 0

\* The device is done with a descriptor, and the driver with the same one.
Complete == /\ BdIndex(hw) # Usable
            /\ hw' = (hw + 1) % IndexSpace
            /\ drv' = NextBd(drv)

\* The device follows the chain pointer, which the driver knows nothing of.
FollowChain == /\ BdIndex(hw) = Usable
               /\ hw' = (hw + 1) % IndexSpace
               /\ UNCHANGED drv

Next == Complete \/ FollowChain
Spec == Init /\ [][Next]_<<hw, drv>>

\* handleTxInterrupt walks txCons up to the index readTxCons returns, testing
\* for equality: whatever the device has reached, and across the roll-over,
\* the walk ends there.
LockStep == drv = ReadCons(hw)
=============================================================================
