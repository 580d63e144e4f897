SPECIFICATION FairSpec
CONSTANTS
    NumRequests = 2
    FaultStyles = {"pingpong", "block"}
    Pairs <- MCPairs
INVARIANTS StreamSound ProtocolKept
PROPERTY StreamEnds
CHECK_DEADLOCK FALSE
