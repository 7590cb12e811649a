SPECIFICATION Spec
CONSTANTS
    Timers = {t1, t2}
    DataSources = {d1}
    Callbacks = {c1}
    Tasks = {k1}
    None = None
    TimeMod = 8
    Boot = 6
    QueueLength = 1
    Delays <- MCDelays
    MaxLate = 1
    MaxTime = 4
    MaxPosts = 2
INVARIANTS RunLoopTypeOK ExpiredIsDue
PROPERTIES ItemHandled  TimerFires
CHECK_DEADLOCK FALSE
