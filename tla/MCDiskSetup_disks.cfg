CONSTANTS
  Align = 4
  GptTail = 1
  Wide = 64
  Device <- MCDevice
  Plans <- MCPlans
  ImagePlans <- MCImagePlans
  DryRuns <- MCDryRuns
  ImageSizes <- MCImageSizes
  ImageSector = 2
  Trees <- MCTrees
  RereadFails = FALSE
SPECIFICATION Spec
INVARIANTS FormattedAsPlanned RetrySucceeds EveryFileLands GetsItsSize
PROPERTY LayoutPlaces
