SPECIFICATION Spec
CONSTANTS
    A = A
    B = B
    SeqModulus = 6
    NumTx = 4
    Window = 2
    NumRx = 2
    MaxTransmit = 1
    AclBuffers = 1
    MaxPieces = 3
    RequestWhenFull = FALSE
    MaxSdus = 2
    MaxFaults = 2
INVARIANTS ErtmTypeOK AcknowledgedMeansAccepted GivesUpOnFaults NeverStuck
PROPERTIES ImplementsFifo
SYMMETRY Symmetry
CHECK_DEADLOCK FALSE
