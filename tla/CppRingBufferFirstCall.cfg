SPECIFICATION Spec
CONSTANTS
  Capacity = 4
  Data = {d1}
  NoData = NoData
  MaxNew = 1
  AnyFirstCall = TRUE
INVARIANT HeadMoveValid
