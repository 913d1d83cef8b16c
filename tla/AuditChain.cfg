SPECIFICATION ChainSpec
CONSTANTS
    Writers = {w1, w2}
    Replicas = {r1}
    Idle = Idle
    NoTx = NoTx
    NoTip = NoTip
    Retention = 1
    MaxRows = 4
    MaxTime = 2
SYMMETRY Symmetry
INVARIANTS
    ChainTypeOK
    ChainVerifies
    AttemptLogged
PROPERTIES
    KeepsTrail
CHECK_DEADLOCK FALSE
