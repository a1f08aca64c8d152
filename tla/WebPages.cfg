CONSTANTS
  Parts = {"terminal", "panel", "monitor", "reports"}
  Kinds = {"short", "endless", "inherited", "unparseable"}
  MaxCommands = 3
  MaxLines = 1
  CanDrop = TRUE
  CanRaise = TRUE
  None = None
  Panels = {"patch", "chaos", "experiments", "benchmark"}
  KeysOf <- MCKeys
  MaxRuns = 2
  MaxRows = 1
  Window = 2
  DemoLines = 2
  LinesPerStage = 1
  Views = {"live", "workflow"}
  GraphSize = 2
  PipeSize = 4
  QueueSize = 2
  CanFail = TRUE
  Answers <- MCAnswers
SPECIFICATION FairSpec
INVARIANTS TypeOK LinesUnderOwnCommand MarkIsLast OnlyKilledLinger
  OneFeed OwnResult SimulatedLabelled OneSource OneLateSample PagesAgree
PROPERTIES InputComesBack RunEnds VisitCleansUp
CHECK_DEADLOCK FALSE
