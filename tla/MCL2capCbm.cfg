SPECIFICATION Spec
CONSTANTS
    A = A
    B = B
    CreditMod = 4
    Watermark = 2
    Increment = 2
    InitialCredits <- MCInitialCredits
    MaxProvided = 1
    MaxPieces = 2
    MaxSdus = 2
INVARIANTS CbmTypeOK CreditsConserved
PROPERTIES ImplementsFifo SduDelivered 
CHECK_DEADLOCK FALSE
