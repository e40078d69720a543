SPECIFICATION MCSpec
CONSTANTS
  None = None
  MaxCalls = 3
  MaxRelease = 3
  MaxLaunches = 2
  MaxFaults = 1
  LastVersion = 3
  MaxChecks = 3
  MaxErrors = 2
  Nothing = Nothing
  Dirs = {x, y}
  Demo = demo
  MaxStarts = 3
  MaxPicks = 2
  MaxTroubles = 1
  Unset = Unset
INVARIANTS
  DownloadedMatches
  AppInPlace
  ReadyIsDownloaded
  ReopensOrTells

  
CHECK_DEADLOCK FALSE
