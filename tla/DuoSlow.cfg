SPECIFICATION Spec
CONSTANTS
  j1 = j1
  j2 = j2
  v1 = v1
  v2 = v2
  w1 = w1
  w2 = w2
  h1 = h1
  Nil = Nil
  Job = {j1}
  Video = {v1}
  VideoOf <- OneVideoEach
  NumSegments = 1
  Rendition = {r1}
  Worker = {w1, w2}
  Host = {h1}
  HostOf <- OneHost
  MaxAttempts = 1
  BatchLimit = 2
  MaxCopies = 2
  MaxFaults = 0
  SlowWork = TRUE
INVARIANTS TypeOK NoLeakedLock
PROPERTIES LocksOfOthersStay
CHECK_DEADLOCK FALSE
