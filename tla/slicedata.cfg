CONSTANTS
  Jobs <- MCJobs
  MayOverflow = {"other"}
SPECIFICATION FairSpec
INVARIANTS GroupsEvolve CountIsProgress DecodedAsCoded EndsWithData SlicesBeginWithPairs
PROPERTY PictureEnds
