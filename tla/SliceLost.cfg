CONSTANTS
  s1 = s1
  s2 = s2
  s3 = s3
  Sessions = {s1, s2}
  Default = 27
  TimesOut = {}
  MaxRuns = 2
  MaxOutages = 0
  MaxCrashes = 0
SPECIFICATION Spec
INVARIANT AlwaysRestored
CHECK_DEADLOCK FALSE
