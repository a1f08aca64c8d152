CONSTANTS
  Measurements = 3
  PipeSize = 3
  CanHang = TRUE
  CanCrash = TRUE
  Workloads = {"pipeline", "context_switch", "ipc_throughput", "stress_test",
               "posix_validation", "process_creation", "scheduler_latency"}
  Rounds = 3
  Remainders = {TRUE, FALSE}
  Capacity = 2
  CanDie = TRUE
  Threads = 2
  Cpus = 2
  MaxRounds = 3
  Iterations = {1, 2, 4}
  Second = 4
  Interval = 9
  Latest = 3
SPECIFICATION WSpec
INVARIANTS WTypeOK ErrorNamesStage ResultIsWhole ScratchLivesWithRun
INVARIANTS ReportIsEarned VerdictIsTrue FiguresAreOfSamples
PROPERTIES EventsInOrder EndsUnlessHung ProgramsEnd
CHECK_DEADLOCK FALSE
