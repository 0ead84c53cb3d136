SPECIFICATION BuffersSpec
CONSTANTS
  Capacity = 4
  Data = {d1, d2}
  NoData = NoData
  MaxEv = 9
  ShmCap = 2
  ArbCap = 3
  Threshold = 1
  NotifyEvery = 2
  RangesNum = 2
  Filtered = {2, 6}
  FilterFirst = FALSE
  DropCounts = {0, 1, 2}
  OlderIds = {2, 5, 8}
INVARIANTS
  CachesLag PeekExact PeekAtRight
  LogRight DropIdsRight SpaceForForward ReportsTrue IsDoneRight HoleIdRight
PROPERTIES
  LiveStable FifoSpec SidesProgress
  MonotonicUnlessAhead EventuallyDone
