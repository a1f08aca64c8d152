CONSTANTS
  Nobody = Nobody
  Runs = {s1, s2}
  Actions = {"network"}
  MaxBegun = 2
  MaxFaults = 1
  MaxRecreations = 0
  MaxCrashes = 0
SPECIFICATION Spec
INVARIANT AlwaysRemoved
CHECK_DEADLOCK FALSE
