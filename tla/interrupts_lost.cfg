CONSTANTS
  Backlog = 2
  IndexMax = 4
  Is5706 = TRUE
  PhyPolls = 2
  PhyStates <- MCPhyStates
SPECIFICATION Spec
INVARIANT NoLostWakeup
