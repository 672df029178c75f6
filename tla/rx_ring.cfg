\* The driver may dereference an empty slot: the system stops.
CHECK_DEADLOCK FALSE
CONSTANTS
  MaxBD = 4
  Pages = 3
  Bufs = {b1, b2, b3, b4}
  NULL = NULL
  Headers <- MCHeaders
SYMMETRY Symmetry
SPECIFICATION SpecInput
INVARIANTS
  RxOwnership
  PreparedSoFar
  NoOverwrite
  InputInv
  ClaimsOwnChecks
PROPERTY IsRxFifo
