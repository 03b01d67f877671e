SPECIFICATION FairSpec
CONSTANTS
  MaxVersion = 3
  MaxClock = 2
  ChanBound = 1
INVARIANTS
  TypeOK
  NeverDeaf
  MissedOnlyUnwatched
  ScanFollowsReload
PROPERTIES
  ChangeLoaded
  FallbackCovers
