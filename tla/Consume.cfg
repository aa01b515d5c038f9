SPECIFICATION FairSpec
CONSTANTS
  e1 = e1
  e2 = e2
  p1 = p1
  p2 = p2
  s1 = s1
  s2 = s2
  Nil = Nil
  Event = {e1, e2}
  Empty = Empty
  Garbage = Garbage
  Invalid = Invalid
  Partition = {p1, p2}
  Log <- BothPartitions
  Service = {s1, s2}
  MaxFaults = 1
  SlowWork = FALSE
INVARIANTS ConsumerTypeOK OffsetFollowsJob InsertIsExclusive
PROPERTIES EventsAreTaken
CHECK_DEADLOCK FALSE
