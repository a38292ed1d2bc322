SPECIFICATION Spec
CONSTANTS
  MaxLsb = 16
  MaxFrameNum = 4
  RefOffsets <- TwoRefFrames
  NonRefOffset <- MinusTwo
  BottomOffset = 1
  Structures = {"frame", "top", "bottom"}
  NonReference = TRUE
  PocTypes = {0, 1, 2}
  GapsAllowed = {TRUE}
  Mmco5Structures <- Mmco5ByType
  MaxGap <- GapsByType
  Steps <- NearAndFar
  BottomSteps = {0, 1}
  Deltas <- SmallDeltas
  PicParameterSets = {1}
  MaxSlices = 1
  MaxPictures = 4
  MaxLost = 0
  MaxRedundant = 0
  MaxResent = 0
INVARIANTS TypeOK PocRight
PROPERTIES FrameNumsFollow
