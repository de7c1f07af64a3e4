SPECIFICATION ReceiptsSpec
CHECK_DEADLOCK FALSE
CONSTANTS
  One = 1000
  Open = Open
  Inputs <- MCInputs
  SortedTiers <- MCSortedTiers
  Tolerance = 100
  Deltas <- MCDeltas
  MaxMistakes = 2
  Mistakable <- MCMistakable
  None = none
INVARIANTS
  PassedPaysTheNet
  FaithfulPasses
  TotalsAreTheLines
  RoundedOnce
  OnlyTheRelevantCounts
  LeftOutIsAnnounced
  OneTierEachYear
  MoreIsNeverLess
