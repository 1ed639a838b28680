\* Solare: two packets for a queue of one.  Calibration: two callers, three
\* calls, two frames where one is kept.  The facades: every cancellation of
\* two tasks.  One failure each, two for the items.
SPECIFICATION FairSpec
CHECK_DEADLOCK FALSE
CONSTANTS
    Windows = FALSE
    PacketQueueSize = 1
    UpdateQueueSize = 1
    SavePcap = TRUE
    MaxPackets = 1
    BurstPackets = 2
    Clients = {a, b}
    MaxRetained = 1
    MaxFrames = 2
    CalibrationCalls = 3
    MaxEvents = 2
    ItemFailures = 2
    MaxStops = 3
    ItemCancels = 2
    MaxRuns = 2
    MaxCancels = 1
    MaxCalls = 3
    MaxFailures = 1
    None = None
INVARIANTS ConfirmedKept NothingDropped CaptureOwned ResultCertified CanBeStopped
PROPERTIES CallsEnd
