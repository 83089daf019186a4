SPECIFICATION SyncSpec
CONSTANTS
  None = None
  Lists = {{}, {i1}, {i2}}
  MaxWrites = 2
INVARIANT EditsAreRetried
CHECK_DEADLOCK FALSE
