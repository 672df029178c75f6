CONSTANTS
  MaxBD = 4
  Pages = 2
  MaxSeg = 1
  Packets = {p1, p2}
  NULL = NULL
  RacyCounter = FALSE
SPECIFICATION LiveSpec
PROPERTIES
  StallEnds
  PacketsComeBack
