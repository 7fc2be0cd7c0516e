CONSTANTS
    s0 = s0  s1 = s1  s2 = s2  d1 = d1  d2 = d2
    Site = {s0, s1, s2}
    Master = s0
    Data = {d1, d2}
    Order <- Orders
    Get <- Gets
    Port = {5001, 5002}
    NoPort = 0
    NoOrder = NoOrder
    Config <- Transfers
    p1 = p1
    Waiter = {t1, t2, t3}
    Handler = {h1, h2}
    Point = {p1}
    PointOf <- OnePoint
    Nobody = Nobody
SPECIFICATION MCSpec
INVARIANTS PortsSound NoOverflow WaitersSound
PROPERTIES Moves SyncerSound
CHECK_DEADLOCK FALSE
