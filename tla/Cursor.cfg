SPECIFICATION FairSpec
CONSTANTS
  None = None
  Keys = {1, 2}
  Options <- MCOptions
  Ranges <- MCRanges
  Careful = TRUE
  MaxSeq = 3
  MaxVersions = 1
INVARIANT TypeOK
INVARIANT PositionMatchesDirection
INVARIANT ZeroIsTheLast
PROPERTY ImplementsSortedCursor
PROPERTY CallsReturn
