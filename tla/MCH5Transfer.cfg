SPECIFICATION Spec
CONSTANTS
    Side = {"host", "ctrl"}
    SeqModulus = 2
    MaxSend = 3
    MaxBaud = 0
    ConfigField <- OtherConfig
    AutoSleep = {}
    UartSleep = {}
    WireCap = 1
    Calls <- ScoAndData
    TimerDuringWrite = TRUE
INVARIANTS
    TypeOK
    InOrderDelivery
    SentMeansReceived
    TimerNeverRegisteredTwice
    WindowInv
PROPERTIES
    ImplementsChannel
CHECK_DEADLOCK FALSE
