SPECIFICATION fetchSpec
CONSTANTS
  MaxEv = 6
  ShmCap = 2
  ArbCap = 3
  Threshold = 1
  NotifyEvery = 2
  RangesNum = 2
  Filtered = {5}
  FilterFirst = TRUE
  DropCounts = {1, 2}
  OlderIds = {3}
INVARIANT DropIdsRight
