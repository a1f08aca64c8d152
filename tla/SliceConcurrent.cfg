CONSTANTS
  s1 = s1
  s2 = s2
  s3 = s3
  Sessions = {s1, s2, s3}
  Default = 27
  TimesOut = {"compile", "read", "before", "write", "after", "restore"}
  MaxRuns = 3
  MaxOutages = 1
  MaxCrashes = 1
SPECIFICATION Spec
INVARIANTS DriftBounded LostOnlyByTaintedRead MeasuredReduced
SYMMETRY AnySession
CHECK_DEADLOCK FALSE
