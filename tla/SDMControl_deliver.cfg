SPECIFICATION ControlSpec
CONSTANTS
    s0 = s0  s1 = s1  s2 = s2  none = none  p = p  q = q  c = c  e = e  f = f
    h = h  d1 = d1  d2 = d2  g1 = g1  g2 = g2  g3 = g3  g4 = g4  g5 = g5  g6 = g6
    Master = s0
    Slave <- TwoSlaves
    NoNode = none
    App = {p, c, e}
    Home <- SiteHome
    Data = {d1}
    Producer <- POne
    Get = {g1, g2, g3}
    GetApp <- SiteGetA
    GetData <- SiteGetD
    Blocking <- SiteBlock
    AppDs0 <- Registered
    TransFails = TRUE
INVARIANTS RepliesSound
PROPERTIES MovedIsAnswered
CHECK_DEADLOCK FALSE
