SPECIFICATION Spec
CONSTANTS
    Handlers = {h1, h2, h3}
    Threads = {t1, t2}
    Numbers = {3, 4, 5}
    MaxEntries = 5
    MaxCalls = 5
SYMMETRY Symmetry
INVARIANTS OwnStaysOpen NothingLeaked SharedOnlyAfterClose
CHECK_DEADLOCK FALSE
