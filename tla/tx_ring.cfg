CONSTANTS
  MaxBD = 5
  Pages = 2
  MaxSeg = 2
  Packets = {p1, p2, p3}
  NULL = NULL
  RacyCounter = FALSE
SYMMETRY Symmetry
SPECIFICATION Spec
INVARIANTS
  FreeCountExact
  NoOverrun
  DmaFromLivePacket
  Ownership
  CompletionPoint
  StallHasWaker
PROPERTY IsFifo
