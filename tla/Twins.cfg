SPECIFICATION FairSpec
CONSTANTS
  j1 = j1
  j2 = j2
  v1 = v1
  v2 = v2
  w1 = w1
  w2 = w2
  h1 = h1
  Nil = Nil
  Job = {j1, j2}
  Video = {v1}
  VideoOf <- OneVideo
  NumSegments = 1
  Rendition = {r1}
  Worker = {w1}
  Host = {h1}
  HostOf <- OneHost
  MaxAttempts = 2
  BatchLimit = 1
  MaxCopies = 2
  MaxFaults = 1
  SlowWork = FALSE
INVARIANTS SharedVideoPlayable
PROPERTIES CleanableIsAnnounced
CHECK_DEADLOCK FALSE
