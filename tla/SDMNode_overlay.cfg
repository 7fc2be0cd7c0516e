CONSTANTS
    Node <- Four
    Master = 0
    JoinHost <- ToZero
    Config <- Overlays
SPECIFICATION Spec
INVARIANTS ConnectionsWork MeshComplete
CHECK_DEADLOCK FALSE
