CONSTANTS
  SeqSpace = 8
  MaxPolls = 2
  Loads = 2
  LeftSeqs = {1}
SPECIFICATION Spec
INVARIANT AckIsAnswer
CHECK_DEADLOCK FALSE
