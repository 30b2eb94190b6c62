SPECIFICATION FairSpec
CONSTANTS
    Sensors = {s1}
    Stray = stray
    Nobody = Nobody
    Timeout = 0
    EventCap = 1
    WireCap = 1
    CommandCap = 1
    MaxTime = 1
    MaxSignals = 1
    MaxUpsets = 2
INVARIANTS RetainedTrue OfflineMeansSilent
PROPERTIES SilenceReported ReadersGoOn
CHECK_DEADLOCK FALSE
