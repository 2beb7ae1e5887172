SPECIFICATION FairSpec
CONSTANTS
    READ_BUFFER_SIZE = 2
    Capacity = 5
    MaxBytes = 6
    MaxCloses = 2
PROPERTY FirstMessageAvailable
CHECK_DEADLOCK FALSE
