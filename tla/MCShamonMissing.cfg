SPECIFICATION MCSpec
CONSTANTS
  MaxStreams = 2
  BufCap = 4
  Numbers = 5
  Threads = {t1, t2}
  MaxSubs = 2
  Events <- MCEvents
  QueueCap = 2
  KeepFree = 1
  Tries = 2
  MaxFails = 0
INVARIANT SubBufferFound
