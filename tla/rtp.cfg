SPECIFICATION Spec
CONSTANTS
  SeqModulus = 3
  SliceIds = {1, 2}
  Parts <- SlicePartitions
  Steps <- FarAndBack
  KeepLeading = 1
  MaxBurst = 2
  MaxPackets = 5
CHECK_DEADLOCK FALSE
INVARIANTS TypeOK TimestampOfFrame PartitionsOfOneSlice EachSliceOnce WholeWhenRead
PROPERTIES ImplementsDelivery EachSliceEnds
