SPECIFICATION FairSpec
CONSTANTS
    Handles = {h1, h2}
    Last = last
    Nobody = nobody
    MaxEpollEvents = 1
    MaxQueued = 3
    MaxCalls = 4
INVARIANTS DrainedByStop SilentWhenStopped
PROPERTIES StopReturns EdgesDispatched
CHECK_DEADLOCK FALSE
