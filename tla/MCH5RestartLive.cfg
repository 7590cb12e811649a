SPECIFICATION FairRestartSpec
CONSTANTS
    Side = {"host", "ctrl"}
    Host = "host"
    MaxRestart = 1
    SeqModulus = 2
    MaxSend = 2
    MaxBaud = 0
    ConfigField <- SameConfig
    AutoSleep = {}
    UartSleep = {}
    WireCap = 1
    Calls <- HostSends
    TimerDuringWrite = FALSE
PROPERTIES
    RestartRecovers
CHECK_DEADLOCK FALSE
