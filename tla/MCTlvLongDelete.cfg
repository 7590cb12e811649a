SPECIFICATION Spec
CONSTANTS
    Builds = {"entry"}
    Tag = {1, 2}
    Deletable <- DeleteNone
    Value <- LongValues
    BankSize = 12
    CopyBuffer = 4
    ZeroBuffer = 4
INVARIANTS
    NewValueSurvivesReset
