SPECIFICATION Spec
CONSTANTS
  None = None
  Keys = {1, 2}
  Options <- MCOptions
  Ranges <- MCRanges
  Careful = FALSE
  MaxSeq = 2
  MaxVersions = 0
INVARIANT RefreshShowsLatest
