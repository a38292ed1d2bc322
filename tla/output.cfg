SPECIFICATION FairSpec
CONSTANTS
  MaxFrameNum = 4
  FrameMbsOnly = FALSE
  DpbSize = 3
  NumRefFrames = 2
  Structures = {"frame", "top", "bottom"}
  Mmcos = {}
  MaxMmco = 0
  MaxIdx = 0
  MaxK = 3
  MaxGap = 1
  Unpaired = FALSE
INVARIANTS TypeOK LegalStreamAccepted
PROPERTIES ImplementsOutput SlidesOldest
