SPECIFICATION olderSpec
CHECK_DEADLOCK FALSE
CONSTANTS
  MaxEvents = 4
  MaxId = 4
INVARIANT BisectAsserts
