SPECIFICATION Spec
CONSTANTS
  j1 = j1
  j2 = j2
  v1 = v1
  v2 = v2
  w1 = w1
  w2 = w2
  h1 = h1
  Nil = Nil
  Job = {j1}
  Video = {v1}
  VideoOf <- OneVideoEach
  NumSegments = 2
  Rendition = {r1}
  Worker = {w1}
  Host = {h1}
  HostOf <- OneHost
  MaxAttempts = 2
  BatchLimit = 2
  MaxCopies = 2
  MaxFaults = 3
  SlowWork = FALSE
INVARIANTS CompletedIsPlayable AnnouncedIsPlayable NoDuplicateRows OutcomeAnnounced AnnouncedIsCleaned CompletedTaskHasUpload
PROPERTIES LifecycleKept OutboxKept FailedIsEmptied
CHECK_DEADLOCK FALSE
