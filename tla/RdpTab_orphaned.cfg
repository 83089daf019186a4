SPECIFICATION RdpSpec
CONSTANTS
  None = None
INVARIANT FlaggedIsTornDown
CHECK_DEADLOCK FALSE
