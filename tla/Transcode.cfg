SPECIFICATION FairSpec
CONSTANTS
  NumRenditions = 2
  NumFrames = 2
  SourceSize = 3
  OutSize = 2
  PipeSize = 2
INVARIANTS TranscoderTypeOK NothingTruncated SomebodyMoves
PROPERTIES EveryStepCosts RunEnds
CHECK_DEADLOCK FALSE
