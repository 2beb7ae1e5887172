SPECIFICATION FairSpec
CONSTANTS
    Setups = {s1, s2}
    Descriptors = {d1, d2}
    Nobody = nobody
    Initialiser = initialiser
    Roles <- BothRoles
    Masks <- MasksByRole
    MaxEdges <- EdgesByRole
INVARIANTS WaitingIsArmed AnsweredOnce ClosedIsForgotten
PROPERTIES HandedOnOwnSuccess PendingIsAnswered
CHECK_DEADLOCK FALSE
