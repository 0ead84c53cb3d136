SPECIFICATION Spec
CONSTANTS
  Capacity = 4
  Data = {d1}
  NoData = NoData
  MaxNew = 0
  AnyFirstCall = FALSE
INVARIANT RegionInArray
