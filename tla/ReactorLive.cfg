SPECIFICATION FairSpec
CONSTANTS
    Handles = {h1}
    NullHandle = h0
    Apps = {a1}
    EventThread = ev
    Free = free
    Absent = absent
    Disciplined = FALSE
    MaxCalls = 3
    MaxWaits = 2
    MaxEvents = 2
INVARIANT HandlerPinned
PROPERTIES CallsReturn EdgesServed
