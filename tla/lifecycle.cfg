CONSTANTS
  SeqSpace = 8
  MaxPolls = 2
  Loads = 1
  LeftSeqs = {1, 2}
  CtxPages = 2
  VirtPages = 36
  CtxPolls = 2
  PORT_HW_CFG_MAC_UPPER = 16
  PORT_HW_CFG_MAC_LOWER = 405486669
SPECIFICATION SpecAll
INVARIANTS
  TypeOKAll
  FirmwareAgrees
  EnabledReady
  FreeComplete
  NoBufferLeft
  ContextComplete
  FirmwareRuns
  PageSizeAgrees
  QuietReset
  DmaIntoBuffers
  FilterOwn
  ContextsHold
  Identified
PROPERTIES
  AckNotLate
  CallsProgress
  CallsEnd
CHECK_DEADLOCK FALSE
