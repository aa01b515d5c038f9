SPECIFICATION Spec
CONSTANTS
  NumRenditions = 2
  NumFrames = 2
  SourceSize = 2
  OutSize = 1
  PipeSize = 2
INVARIANTS FramesAreKept
CHECK_DEADLOCK FALSE
