SPECIFICATION Spec
CONSTANTS
    none = none
    p1 = p1
    p2 = p2
    p3 = p3
    k1 = k1
    k2 = k2
    k3 = k3
    k4 = k4
    k5 = k5
    k6 = k6
    t1 = t1
    t2 = t2
    P = {p1, p2, p3}
    Local = {p3}
    KV = {k1, k2, k3, k4, k5, k6}
    NoKV = none
    Prod <- ThreeProd
    Thread = {t1, t2}
    MaxKV = 1
    WPrefetch = TRUE
    MaxStep = 1
SYMMETRY Alike
INVARIANTS BufferSound
PROPERTIES PrefetchInTurn
CHECK_DEADLOCK FALSE
