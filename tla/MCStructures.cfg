SPECIFICATION PartsSpec
CONSTANTS
  QCapacity = 3
  QData = {d1, d2}
  QNone = QNone
  Elems = {1, 2, 3}
  Heads = {1, 2}
  Links = {3, 4, 5, 6}
  Letters = {"a", "c"}
  OpTypes = {"c"}
  MaxLen = 6
  Kinds = {2, 3, 4}
  LastSpecial = 1
  CacheSize = 3
  LateRegistration = FALSE
  VData = {1, 2}
  ESizes = {1, 2}
  VGrow = 2
  VMax = 4
  Capacity = 4
  Data = {d1, d2}
  NoData = NoData
  MaxNew = 1
  AnyFirstCall = FALSE
  Cap = 3
  MaxEv = 7
  MaxEvents = 5
  MaxId = 6
INVARIANTS
  QueuePeekRight
  ListRight
  RingRight
  TableRight LookupRight
  VectorRight
  AssertsHold
  ResultRight SearchInside
PROPERTIES QueueIsFifo ImplementsC NobodyStuck
