SPECIFICATION ShmbufSpec
CONSTANTS
  MaxEv = 4
  Sizes = {2, 5}
  Page = 1
  Hdr = 0
  RangesNum = 5
  MaxGen = 3
  MaxQuits = 1
  Retries = 1
INVARIANTS StringsIntact OpenedInitialised ReadyMeansKinds
PROPERTIES PushReturns WaitEnds
