CONSTANTS
    Call <- Calls
    Kind <- Kinds
    Dat <- Dats
    Box <- Boxes
    MsgSize <- Sizes
    Config <- Sets
    Gdim <- Dims
    IntMax = 15
    MaxTick = 1
    MaxMsg = 4
    Usec = 3
    Now <- Times
SPECIFICATION Spec
INVARIANTS GetsSound SizesAndTimes
PROPERTIES GetReturns
CHECK_DEADLOCK FALSE
