CONSTANTS
  Size = 2
  Requests <- Launches
  Callers = {a, b}
SPECIFICATION RunnerSpec
INVARIANT CallbackReportsErrors
CHECK_DEADLOCK FALSE
