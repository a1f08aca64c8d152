CONSTANTS
  Nobody = Nobody
  Runs = {s1, s2}
  Actions = {"network", "kill", "load", "disk"}
  MaxBegun = 3
  MaxFaults = 2
  MaxRecreations = 1
  MaxCrashes = 1
SPECIFICATION FairSpec
INVARIANTS DelayKept DelayHasOwner GoneWhenReported
PROPERTIES KillsOwnOnly DelayEnds
CHECK_DEADLOCK FALSE
