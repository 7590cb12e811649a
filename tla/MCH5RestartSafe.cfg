SPECIFICATION RestartSpec
CONSTANTS
    Side = {"host", "ctrl"}
    Host = "host"
    MaxRestart = 1
    SeqModulus = 2
    MaxSend = 2
    MaxBaud = 0
    ConfigField <- SameConfig
    AutoSleep = {}
    UartSleep = {}
    WireCap = 1
    Calls <- BothSend
    TimerDuringWrite = FALSE
INVARIANTS
    RestartTypeOK
    NoStalePacket
    NoStaleAck
CHECK_DEADLOCK FALSE
