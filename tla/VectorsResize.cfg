SPECIFICATION vectorSpec
CONSTANTS
  VData = {1, 2}
  ESizes = {1, 2}
  VGrow = 2
  VMax = 4
INVARIANT ResizeZeroed
