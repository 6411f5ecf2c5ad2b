SPECIFICATION PartSpec
CONSTANTS
  maxQueuedMessages = 3
  maxQueuedBytes = 4
  Sizes = {1, 2}
  MaxSends = 6
INVARIANTS FifoExactlyOnce WaitingHasWaker PressureTruthful ExtensionUiExact SlotsAreTrue QueueKept
PROPERTIES QueueContract
CHECK_DEADLOCK FALSE
