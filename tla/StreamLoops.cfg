SPECIFICATION LoopsSpec
CONSTANTS
    READ_BUFFER_SIZE = 2
    Capacity = 3
    MaxBytes = 5
INVARIANTS NothingLost LinesInOrder
CHECK_DEADLOCK FALSE
