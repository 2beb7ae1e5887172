SPECIFICATION Spec
CONSTANTS
    Handles = {h0, h1}
    NullHandle = h0
    Apps = {a1}
    EventThread = ev
    Free = free
    Absent = absent
    Disciplined = TRUE
    MaxCalls = 4
    MaxWaits = 2
    MaxEvents = 1
INVARIANTS LostOnlyInWindows NothingLeftBehind
PROPERTIES KeepsItsPromise
