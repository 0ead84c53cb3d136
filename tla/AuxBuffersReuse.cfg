SPECIFICATION Spec
CONSTANTS
  MaxEv = 6
  Sizes = {2}
  Page = 1
  Hdr = 0
  RangesNum = 2
INVARIANT StringsIntact
