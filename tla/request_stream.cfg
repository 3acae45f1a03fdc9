SPECIFICATION Spec
CONSTANTS
  Sizes <- Mixed
  Invalid = {1, 5}
INVARIANTS TypeOK ExecutesWhatWasSent
PROPERTIES EveryPacketServed SessionEnds
CHECK_DEADLOCK FALSE
