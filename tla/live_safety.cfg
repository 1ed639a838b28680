\* Two packets, a queue of one event; two failures; a second start after a failed one.
SPECIFICATION Spec
CONSTANTS
    Windows = TRUE
    PacketQueueSize = 1
    EventQueueSize = 1
    MaxPackets = 2
    MaxFailures = 2
    MaxStarts = 2
    None = None
INVARIANTS
    BackendOwned
    FinishedAlone
    CleanStopDecodesAll
    RolledBackIsFresh
    EventsKept
