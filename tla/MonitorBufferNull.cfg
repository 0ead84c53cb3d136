SPECIFICATION monitorSpec
CONSTANTS
  Cap = 2
  MaxEv = 3
INVARIANT NullMeansNoEvent
