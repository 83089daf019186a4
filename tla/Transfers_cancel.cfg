SPECIFICATION TransfersSpec
CONSTANTS
  Batches = {b1, b2}
  Size = 2
INVARIANT CancelledBatchStops
CHECK_DEADLOCK FALSE
