SPECIFICATION PythonSpec
CONSTANTS
    Setups <- MCSetups
    Cap = 1
    Threads = {e1}
    MaxCalls = 4
    MaxSignals = 2
    Careless = FALSE
    Holders = {h1, h2, h3}
    Wrappers = {w1, w2}
    HolderThreads = {t1, t2}
INVARIANTS StreamsSound ExecutorSound
PROPERTY PythonEnds
CHECK_DEADLOCK FALSE
