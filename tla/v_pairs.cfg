CONSTANTS
  Jobs <- PairsOfLimitedSlices
  MayOverflow = {"bottom", "other"}
SPECIFICATION Spec
INVARIANTS SlicesBeginWithPairs
