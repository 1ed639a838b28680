\* The session: two packets, queues of one.  The flow: a stream of five bytes
\* that starts two before the wrap of the sequence numbers, in five packets.
SPECIFICATION FairSpec
CONSTANTS
    Windows = FALSE
    PacketQueueSize = 1
    EventQueueSize = 1
    LivePackets = 2
    M = 16
    ISN = 14
    StreamLen = 5
    MaxSegment = 2
    Flows <- TestFlows
    GapReset = 2
    Grace = 1
    MaxPackets = 5
    MaxClock = 2
    Horizon = 7
    None = None
INVARIANTS Aligned GapsBounded
PROPERTIES StreamPromise ResetsSkipOnlyLostBytes NothingWaits
