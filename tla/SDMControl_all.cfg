SPECIFICATION Spec
CONSTANTS
    s0 = s0  s1 = s1  s2 = s2  none = none  p = p  q = q  c = c  e = e  f = f
    h = h  d1 = d1  d2 = d2  g1 = g1  g2 = g2  g3 = g3  g4 = g4  g5 = g5  g6 = g6
    Master = s0
    Slave <- TwoSlaves
    NoNode = none
    App = {p, q, c, e, f, h}
    Home <- AllHome
    Data = {d1, d2}
    Producer <- AllProd
    Get = {g1, g2, g3, g4, g5, g6}
    GetApp <- AllGetA
    GetData <- AllGetD
    Blocking <- AllBlock
    AppDs0 <- AllDs0
    TransFails = TRUE
INVARIANTS TypeOK GetSound MoveSourceHolds ProducerKnown OneHolder
PROPERTY OrdersMoves
CHECK_DEADLOCK FALSE
