SPECIFICATION Spec
CONSTANTS
  MaxLsb = 16
  MaxFrameNum = 4
  RefOffsets <- TwoRefFrames
  NonRefOffset <- MinusTwo
  BottomOffset = 1
  Structures = {"frame", "top"}
  NonReference = TRUE
  PocTypes = {2}
  GapsAllowed = {TRUE, FALSE}
  Mmco5Structures <- NoMmco5
  MaxGap <- NoGaps
  Steps <- NearAndFar
  BottomSteps = {0}
  Deltas <- SmallDeltas
  PicParameterSets = {1}
  MaxSlices = 2
  MaxPictures = 4
  MaxLost = 2
  MaxRedundant = 0
  MaxResent = 0
PROPERTIES ImplementsDelivery
