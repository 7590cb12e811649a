SPECIFICATION Spec
CONSTANTS
    Side = {"host", "ctrl"}
    SeqModulus = 2
    MaxSend = 1
    MaxBaud = 0
    ConfigField <- SameConfig
    AutoSleep = {}
    UartSleep = {}
    WireCap = 1
    Calls <- BothSend
    TimerDuringWrite = TRUE
INVARIANTS
    QueuedPacketExists
CHECK_DEADLOCK FALSE
