SPECIFICATION Spec
CONSTANTS
    Builds = {"tag", "entry", "field", "once"}
    Tag = {1, 2}
    Deletable <- NoDeleteOnce
    Value <- MixedValues
    BankSize = 8
    CopyBuffer = 2
    ZeroBuffer = 3
INVARIANTS
    TlvTypeOK
    LiveViewIsDurable
    WriteOnErasedOnly
    EpochsAdjacent
    FullMeansFull
PROPERTIES
    ImplementsStore
