SPECIFICATION Spec
CONSTANTS
  MaxFrameNum = 4
  FrameMbsOnly = FALSE
  DpbSize = 3
  NumRefFrames = 2
  Structures = {"top","frame"}
  Mmcos = {1, 2, 3, 4, 5, 6}
  MaxMmco = 2
  MaxIdx = 1
  MaxK = 2
  MaxGap = 0
  Unpaired = TRUE
INVARIANTS MarksAgree ListsFresh RefsWithinLimit LongTermIdxUnique OneStorePerFrame ReferencesListed BFramesBetweenNeighbours OrderUnderstood
