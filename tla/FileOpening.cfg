SPECIFICATION Spec
CONSTANTS
    Openers = {a, b, c}
    Inodes = {i1, i2, i3}
    Nothing = nothing
INVARIANTS DescriptorsAccounted NamesAreFound OwnFileAnswered
CHECK_DEADLOCK FALSE
