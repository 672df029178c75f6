--------------------------- MODULE RingWalkProofs ---------------------------
(***************************************************************************)
(* The driver and the device stay in step, for every page size and index   *)
(* width.                                                                  *)
(***************************************************************************)
EXTENDS RingWalk, RingIndexProofs

\* What makes every step of the walk keep the two indexes in step.
InStep == hw \in HwIndex /\ LockStep

LEMMA WalkInit == Init => InStep
BY IndexSpaceFacts, RingAssumption DEF Init, InStep, LockStep, HwIndex, ReadCons

LEMMA WalkStep == InStep /\ [Next]_<<hw, drv>> => InStep'
<1> SUFFICES ASSUME InStep, [Next]_<<hw, drv>> PROVE InStep'
  OBVIOUS
<1>1. CASE Complete
  \* Off the chain pointer the driver's index is the device's own.
  <2>1. drv = hw /\ ReadCons(hw') = NextBd(hw)
    BY <1>1, ReadConsStep DEF InStep, LockStep, Complete
  <2>2. hw' \in HwIndex
    BY <1>1, IndexStep DEF InStep, Complete
  <2> QED BY <1>1, <2>1, <2>2 DEF InStep, LockStep, Complete
<1>2. CASE FollowChain
  <2>1. ReadCons(hw') = ReadCons(hw)
    BY <1>2, ReadConsStep DEF InStep, FollowChain
  <2>2. hw' \in HwIndex
    BY <1>2, IndexStep DEF InStep, FollowChain
  <2> QED BY <1>2, <2>1, <2>2 DEF InStep, LockStep, FollowChain
<1>3. CASE UNCHANGED <<hw, drv>>
  BY <1>3 DEF InStep, LockStep
<1> QED
  BY <1>1, <1>2, <1>3 DEF Next

\* Over all the laps of any ring, and over the roll-over of any index width, the
\* driver's index is the one readTxCons makes of the device's: the walk of
\* handleTxInterrupt, which tests for equality, ends where the device is.
THEOREM LockStepTheorem == Spec => []LockStep
BY WalkInit, WalkStep, PTL DEF Spec, InStep

\* The walk never stands on the chain pointer.
THEOREM WalkPositions == Spec => [](drv \in RingPos)
<1>1. InStep => drv \in RingPos
  BY ReadConsType DEF InStep, LockStep
<1> QED
  BY <1>1, WalkInit, WalkStep, PTL DEF Spec
=============================================================================
