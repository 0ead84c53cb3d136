SPECIFICATION fetchFairSpec
CONSTANTS
  MaxEv = 4
  ShmCap = 2
  ArbCap = 3
  Threshold = 1
  NotifyEvery = 2
  RangesNum = 2
  Filtered = {}
  FilterFirst = FALSE
  DropCounts = {1}
  OlderIds = {3}
PROPERTY ProcessedMonotonic
