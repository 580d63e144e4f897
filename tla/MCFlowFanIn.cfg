CONSTANTS
  s1 = s1  s2 = s2  op1 = op1  op2 = op2  k1 = k1  k2 = k2
  Sources = {s1, s2}
  Ops = {op1}  Sinks = {k1}
  Outputs <- FanInOutputs
  Kind <- FanInKind
  Persist = {}
  Dynamic = FALSE
  MaxWrites = 1
SPECIFICATION FlowSpec
INVARIANT OperatorCompletesLast
CHECK_DEADLOCK FALSE
