CONSTANTS
    NumHS = 4
    Modes = {"plain", "big", "retry", "early", "reject"}
    MaxTrouble = 2
    MaxPto = 6
SPECIFICATION Spec
INVARIANT HandshakeSafe
PROPERTY Completes
CHECK_DEADLOCK FALSE
