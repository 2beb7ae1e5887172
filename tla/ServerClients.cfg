SPECIFICATION FairSpec
CONSTANTS
    Clients = {c1, c2}
    Descriptors = {d1, d2}
    Listener = listener
    Nobody = nobody
INVARIANTS StorageIsSubscribed EndIsItsOwn LeftBehindByMerging
PROPERTIES EndIsNoticed
CHECK_DEADLOCK FALSE
