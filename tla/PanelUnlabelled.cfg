CONSTANTS
  Parts = {"panel"}
  Kinds = {}
  MaxCommands = 0
  MaxLines = 0
  CanDrop = FALSE
  CanRaise = FALSE
  None = None
  Panels = {"experiments"}
  KeysOf <- MCKeys
  MaxRuns = 2
  MaxRows = 0
  Window = 1
  DemoLines = 2
  LinesPerStage = 1
  Views = {"live"}
  GraphSize = 1
  PipeSize = 2
  QueueSize = 1
  CanFail = FALSE
  Answers = {}
SPECIFICATION Spec
INVARIANT SimulatedIsLabelled
CHECK_DEADLOCK FALSE
