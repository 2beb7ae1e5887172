SPECIFICATION Spec
CONSTANTS
    Threads = {t1, t2}
    Observers = {o1, o2}
    Publishers = {p1, p2}
    Values = {0, 1}
    InitialValue = 0
    Nobody = nobody
    MaxAssignments = 2
INVARIANTS ObserversKnowTheState OwnNumber
CHECK_DEADLOCK FALSE
