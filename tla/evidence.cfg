\* Eight frames of leaderboards, six retained.  Two writers of profiles, two
\* operations, two failures or crashes.  Streams of two messages in every cut.
\* Four messages of a character load.  Four frames of one flow for the ledger.
\* Three transfers of a calibration and one odd frame.
SPECIFICATION Spec
CHECK_DEADLOCK FALSE
CONSTANTS
    None = None
    Retention = 6
    LowWater = 5
    MaxSent = 8
    MaxLosses = 1
    Writers = {w1, w2}
    exact = exact
    wide = wide
    bare = bare
    family = family
    Broken = Broken
    MaxOps = 2
    MaxFaults = 2
    MaxLength = 8
    HistoryLimit = 2
    MaxRepeats = 1
    Steps = {1, 3}
    MaxMessages = 4
    MaxFrames = 4
    MaxRecords = 3
    InventoryGap = 2
    ChunkGap = 2
    Margin = 2
    BurstGap = 1
    BurstLength = 2
    Epoch = 6
    MinDestinations = 2
    PerFlow = 2
    Stale = 1
    Immediate = 2
    MaxStream = 4
    MaxDecode = 1
    MaxTime = 2
    MaxResets = 1
    Columns = {"town", "count", "other"}
    Registered = {2}
    Towns = {2, 3}
    Sizes = {1, 2}
    ContextFrames = 5
    MaxChains = 3
    MaxOdd = 1
INVARIANTS PublishedWhole LootDecidable DecodesWhole FramesTile OnePass   
PROPERTIES ProfilesKept 
