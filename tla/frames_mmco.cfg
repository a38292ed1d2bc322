SPECIFICATION CallSpec
CONSTANTS
  MaxFrameNum = 4
  FrameMbsOnly = TRUE
  DpbSize = 2
  NumRefFrames = 2
  Structures = {"frame"}
  Mmcos = {1, 2, 3, 4, 5, 6}
  MaxMmco = 1
  MaxIdx = 1
  MaxK = 3
  MaxGap = 0
  Unpaired = FALSE
INVARIANTS HangsOnlyOverLimit
PROPERTIES CallsEnd
