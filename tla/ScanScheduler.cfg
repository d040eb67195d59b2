SPECIFICATION FairScanSpec
CONSTANTS
  p1 = p1
  p2 = p2
  Source = {p1, p2}
  MaxSize <- GrowingAndStill
  MaxFailures = 1
INVARIANTS
  ScanTypeOK
  UnchangedMeansHandled
  RowsNameStoredSessions
PROPERTIES
  SkippingLosesNothing
  SourcesAreCaughtUp
