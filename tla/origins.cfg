SPECIFICATION Spec
CONSTANTS
    Flows = {"f"}
    Wires <- MCWires
    PendingLimit = 1
    StaleAfter = 0
    BurstGap = 0
    BurstLength = 0
    Epoch = 0
    InventoryGap = 0
    MinAnchored = 1
    MinUnanchored = 2
    MinRecordCount = 2
    BurstLimit = 1
    MaxCloses = 1
    MaxTime = 1
    MaxEvidence = 1
    MaxFailures = 1
    None = None
INVARIANTS RecordsKept SnapshotsProven Handover FinalizeCompleteAlone
PROPERTIES MutationOrder
