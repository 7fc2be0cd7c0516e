CONSTANTS
    Id = {1, 2}
    Ds = {1, 2}
    PDs <- PSites
    CDs <- CSites
    Num = 2
    Mode <- Modes
    Whole = Whole
SPECIFICATION Spec
PROPERTIES SpaceRead ConsumersEnd
CHECK_DEADLOCK FALSE
