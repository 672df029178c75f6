\* A failed initRxRing leaves a ring nothing is ever received into: the system stops.
CHECK_DEADLOCK FALSE
CONSTANTS
  MaxBD = 4
  Pages = 3
  Bufs = {b1, b2, b3, b4, b5}
  NULL = NULL
SYMMETRY Symmetry
SPECIFICATION Spec
INVARIANTS
  DescriptorPrepared
