CONSTANTS
  w1 = w1
  w2 = w2
  e1 = e1
  e2 = e2
  Free = Free
  LoopCallers = {w1, w2}
  ThreadCallers = {e1, e2}
  MaxFaults = 1
  MaxStops = 1
  MaxCalls = 3
SPECIFICATION Spec
INVARIANTS OnlyStaleChecksRemove EquippedWhenQuiet
PROPERTIES LoopCallsRemoveOnlyDown DownOnlyDuringRecreation
SYMMETRY Interchangeable
CHECK_DEADLOCK FALSE
