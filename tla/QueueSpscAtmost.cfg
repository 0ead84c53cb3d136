SPECIFICATION queueSpec
CONSTANTS
  QCapacity = 3
  QData = {d1, d2}
  QNone = QNone
INVARIANT PeekAtmostCount
