SPECIFICATION Spec
CONSTANTS
    Windows = FALSE
    PacketQueueSize = 1
    EventQueueSize = 1
    MaxPackets = 2
    MaxFailures = 0
    MaxStarts = 1
    None = None
INVARIANT IteratorDrains
