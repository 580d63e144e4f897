CONSTANTS
  s1 = s1  s2 = s2  op1 = op1  op2 = op2  k1 = k1  k2 = k2
  Sources = {s1, s2}
  Ops = {op1, op2}  Sinks = {k1, k2}
  Outputs <- FanOutOutputs
  Kind <- FanOutKind
  Persist = {k2}
  Dynamic = FALSE
  MaxWrites = 2
SPECIFICATION FlowSpec
INVARIANTS EdgesSound PipelineSound ManifoldSound AssemblySound
PROPERTY FlowEnds
CHECK_DEADLOCK FALSE
