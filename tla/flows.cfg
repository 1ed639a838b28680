\* Three flows for two places; one callback raises.
SPECIFICATION LiveSpec
CONSTANTS
    Flows = {f1, f2, f3}
    MaxFlows = 2
    IdleTimeout = 1
    MaxPackets = 3
    MaxRaises = 1
    MaxClock = 1
    Horizon = 3
    None = None
INVARIANTS
    WithinMaxFlows
    ClosedOnce
PROPERTIES
    TrackerContract
    SilentFlowsLeave
