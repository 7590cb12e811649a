SPECIFICATION Spec
CONSTANTS
    A = A
    B = B
    SeqModulus = 6
    NumTx = 4
    Window = 2
    NumRx = 2
    MaxTransmit = 1
    AclBuffers = 1
    MaxPieces = 3
    RequestWhenFull = TRUE
    MaxSdus = 2
    MaxFaults = 0
INVARIANTS UnackedWithinWindow
SYMMETRY Symmetry
CHECK_DEADLOCK FALSE
