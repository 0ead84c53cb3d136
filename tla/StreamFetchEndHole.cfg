SPECIFICATION fetchFairSpec
CONSTANTS
  MaxEv = 6
  ShmCap = 2
  ArbCap = 3
  Threshold = 1
  NotifyEvery = 2
  RangesNum = 2
  Filtered = {}
  FilterFirst = FALSE
  DropCounts = {}
  OlderIds = {3, 4, 5}
PROPERTY OlderAllDropped
