CONSTANTS
  Cpus <- SixCpus
  Groups = {1, 2}
  MaxCount = 2
  MaxBuilds = 3
  Types = {"Fiber", "Thread"}
  Setups <- MachineSetups
  ThreadCpus = {0, 1, 2}
  Engines = {10, 11}
  Affinity <- ThreadAffinity
  Numa <- NumaOf
  Hooks = {"gil", "some", "final"}
  Where <- HookCpus
  IsFinal = {"final"}
  Fibers = {f1, f2, f3}
  Main_ = f1
  Priorities = {0, 1}
  Remotes = {t1}
  MaxChanges = 1
  Sink = 2
  CountMax = 2
  Sequenced = TRUE
  SameThread = FALSE
  MaxCalls = 4
  MaxEvents = 3
  MaxTraceCalls = 2
SPECIFICATION SystemSpec
INVARIANTS PartitionsSound FailuresExplained FactoriesSound SchedulingSound TracesSound StatisticsSound
CHECK_DEADLOCK FALSE
