\* Under the race the queue may stay stalled over an empty ring: the system stops.
CHECK_DEADLOCK FALSE
CONSTANTS
  MaxBD = 5
  Pages = 1
  MaxSeg = 1
  Packets = {p1, p2}
  NULL = NULL
  RacyCounter = TRUE
SYMMETRY Symmetry
SPECIFICATION Spec
INVARIANT TypeOK
