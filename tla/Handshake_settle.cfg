SPECIFICATION HandshakeSpec
CONSTANTS
  MaxProbes = 2
  MaxInput = 1
  MaxOutput = 5
INVARIANT NeverTypesIntoVim
CHECK_DEADLOCK FALSE
