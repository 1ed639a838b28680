SPECIFICATION Spec
CONSTANTS
    Windows = FALSE
    PacketQueueSize = 1
    UpdateQueueSize = 1
    SavePcap = TRUE
    MaxPackets = 1
    MaxFailures = 1
    None = None
INVARIANT CleanupOwned
