SPECIFICATION MCCopySpec
CONSTANTS
  Tasks = {"upload", "download"}
  Limit = 0
  Duplex = {"destination"}
  Reporters = {"source"}
  MaxUpload = 1
  MaxDownload = 2
  Sources <- MCSources
  Destinations <- MCDestinations
  Cached = 2
  MaxUnits = 3
INVARIANTS HalfCloses NilMeansForwarded PathInv UnitsForwarded
PROPERTIES FailureEndsBoth
CHECK_DEADLOCK FALSE
