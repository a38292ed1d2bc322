SPECIFICATION Spec
CONSTANTS
  MaxLsb = 16
  MaxFrameNum = 4
  RefOffsets <- TwoRefFrames
  NonRefOffset <- MinusTwo
  BottomOffset = 1
  Structures = {"frame"}
  NonReference = TRUE
  PocTypes = {2}
  GapsAllowed = {FALSE}
  Mmco5Structures <- NoMmco5
  MaxGap <- NoGaps
  Steps <- NearAndFar
  BottomSteps = {0}
  Deltas <- SmallDeltas
  PicParameterSets = {1, 2}
  MaxSlices = 2
  MaxPictures = 3
  MaxLost = 1
  MaxRedundant = 1
  MaxResent = 2
INVARIANTS SlicesAgree
PROPERTIES OwnParameterSet
