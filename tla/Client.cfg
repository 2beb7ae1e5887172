INIT MCInit
NEXT MCNext
CONSTANTS
    App = app
    Ev = ev
    MaxConnects = 2
    NoInput = none
    Keys = {1, 2, 3}
    Values = {"u", "v"}
    Holders = {1, 2, 3}
    Texts <- C_Texts
    Raws <- C_Raws
    OpenFiles <- C_OpenFiles
    Flags <- C_Flags
    Refusals <- C_Refusals
    Masks <- C_Masks
    Indices = {0, 1, 8, 9}
INVARIANTS StateFollowsDevice EndIsTold
INVARIANTS CallsArrive AddressesKeepTheirMeaning ConfigurationIsReadBack StatusIsTheFiles TablesAgree EndsComeFirst
CHECK_DEADLOCK FALSE
