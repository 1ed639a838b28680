SPECIFICATION FairSpec
CONSTANTS
    Windows = FALSE
    PacketQueueSize = 1
    EventQueueSize = 1
    SaveRaw = TRUE
    Duration = TRUE
    MaxPackets = 2
    MaxFailures = 1
    MaxCancels = 1
    None = None
INVARIANTS OwnedAlone FailsClosedOrCompletes ReadersLoseNothing AsyncDrains
PROPERTIES SessionEnds
