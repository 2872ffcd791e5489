SPECIFICATION RngSpec
CONSTANTS
  WordBits = 4
  IntBits = 3
  Types = {2, 3}
CHECK_DEADLOCK FALSE
INVARIANT InBounds
