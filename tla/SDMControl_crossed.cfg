SPECIFICATION Spec
CONSTANTS
    s0 = s0  s1 = s1  s2 = s2  none = none  p = p  q = q  c = c  e = e  f = f
    h = h  d1 = d1  d2 = d2  g1 = g1  g2 = g2  g3 = g3  g4 = g4  g5 = g5  g6 = g6
    Master = s0
    Slave <- TwoSlaves
    NoNode = none
    App = {p, c, e}
    Home <- CrossedHome
    Data = {d1}
    Producer <- POne
    Get = {g1, g2}
    GetApp <- CrossedGetA
    GetData <- CrossedGetD
    Blocking <- CrossedBlock
    AppDs0 <- Registered
    TransFails = FALSE
INVARIANTS ReplyMeansMoved
CHECK_DEADLOCK FALSE
