SPECIFICATION Spec
CONSTANTS
  MaxLsb = 16
  MaxFrameNum = 4
  RefOffsets <- TwoRefFrames
  NonRefOffset <- MinusTwo
  BottomOffset = 1
  Structures = {"frame"}
  NonReference = FALSE
  PocTypes = {0}
  GapsAllowed = {FALSE}
  Mmco5Structures <- Mmco5OnFrames
  MaxGap <- NoGaps
  Steps <- Near
  BottomSteps = {0}
  Deltas <- SmallDeltas
  PicParameterSets = {1}
  MaxSlices = 1
  MaxPictures = 6
  MaxLost = 0
  MaxRedundant = 0
  MaxResent = 0
INVARIANTS PocRight
