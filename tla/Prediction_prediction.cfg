CONSTANTS
    Acc = {1, 2, 3}
    Mix <- MCMix
    Gap = {0, 1}
    WindowSize = 2
    InitialWeight = 100
    MinWeight = 10
    Penalty = 60
    MaxTime = 4
    NDim = 3
    Setup <- Setups
    Box <- Boxes
    Key = {11, 12}
    App = {21}
    Ds = {1, 2}
    MaxEntry = 3
    MaxAcc = 2
SPECIFICATION MCSpec
INVARIANTS TreesCount KeptUpToDate PredictsAccessed
PROPERTIES SpaceSound
CHECK_DEADLOCK FALSE
