CONSTANTS
  Size = 3
  Requests <- Launches
  Callers = {a, b}
SPECIFICATION RunnerSpec
INVARIANTS CompletionOnce JoinAfterCallback FailureIsReal InstancesSynchronised
PROPERTY ExceptionEndsAll
CHECK_DEADLOCK FALSE
