SPECIFICATION FairSpec
CONSTANTS
    Side = {"host", "ctrl"}
    SeqModulus = 2
    MaxSend = 1
    MaxBaud = 1
    ConfigField <- SameConfig
    AutoSleep = {"host"}
    UartSleep = {"host", "ctrl"}
    WireCap = 1
    Calls <- HostBaud
    TimerDuringWrite = FALSE
PROPERTIES
    
    EventuallyAcknowledged
    EventuallyBaudrateSet
CHECK_DEADLOCK FALSE
