------------------------------ MODULE MCEvidence ------------------------------
(***************************************************************************)
(* What the toolkit keeps, learns and reports, in parts that share no      *)
(* state: leaderboards, profiles, item framing, character snapshots, the   *)
(* ledger of manual decrements, and calibration.  A behaviour is one of    *)
(* one part; the others keep None.                                         *)
(***************************************************************************)
EXTENDS Integers, FiniteSets, Sequences

CONSTANTS
    None,
    \* leaderboards
    Retention, LowWater, MaxSent, MaxLosses,
    \* profiles
    Writers, exact, wide, bare, family, Broken, MaxOps, MaxFaults,
    \* item framing and character snapshots
    MaxLength, HistoryLimit, MaxRepeats,
    Steps, MaxMessages, MaxFrames, MaxRecords,
    InventoryGap, ChunkGap, Margin, BurstGap, BurstLength, Epoch, MinDestinations,
    \* the ledger, and calibration
    PerFlow, Stale, Immediate, MaxStream, MaxDecode, MaxTime, MaxResets,
    Columns, Registered, Towns, Sizes, ContextFrames, MaxChains, MaxOdd

VARIABLES
    part,
    \* leaderboards
    server, sent, losses, generation, clean, tracker, recent,
    \* profiles
    file, backups, stamp, temp, litter, op, pc, orig, data, name, fresh,
    count, faults,
    \* framing
    wire, pos, tap, target, scan, loop, seen, repeats, base, found, framed,
    emitted,
    \* snapshots
    now, frames, events, refused, report, offered,
    \* the ledger
    stream, candidates, mark, clock, dropped, claims, budget,
    \* calibration
    patch, options, collected, flow, left

-----------------------------------------------------------------------------
(* A class table of three frames, or one that nothing is known of, and      *)
(* tables of two.                                                           *)
Size == [kind \in {"full", "old", "unknown", "overall"} |->
            IF kind \in {"full", "unknown"} THEN 3 ELSE 2]

(* Layouts of one message length and of two; calls of update_profile: a     *)
(* complete and an incomplete automatic calibration, a merge and a          *)
(* replacement of loot, a reset of one action.                              *)
Layouts == {exact, wide}
Bare == {bare}
Families == {family}
Lengths == [l \in Layouts |-> IF l = exact THEN {1} ELSE {1, 2}]
Call(specs, calibrated, action, replace, entire) ==
    [specs |-> specs, calibrated |-> calibrated, action |-> action,
     replace |-> replace, entire |-> entire]
Transfers(l) ==
    {<<e, l>> : e \in {"INVENTORY_TRANSFER", "SOURCE_STACK_DECREMENT", "STORAGE_ITEM_DELTA"}}
Updates ==
    {Call(Transfers(wide), TRUE, "auto", TRUE, FALSE),
     Call({<<"INVENTORY_TRANSFER", wide>>}, TRUE, "auto", TRUE, FALSE),
     Call({<<"LOOT_PREVIEW", wide>>}, FALSE, "auto", FALSE, FALSE),
     Call({<<"LOOT_PREVIEW", exact>>}, FALSE, "loot-preview", TRUE, FALSE),
     Call({<<"STORAGE_ITEM_DELTA", bare>>}, FALSE, "inventory-to-storage", TRUE, TRUE)}
Stored(loot, families, active, characters) ==
    [active |-> active, families |-> families, agris |-> exact, xp |-> exact,
     characters |-> characters,
     specs |-> [e \in {"LOOT_PREVIEW", "INVENTORY_TRANSFER", "SOURCE_STACK_DECREMENT",
                       "STORAGE_ITEM_DELTA"} |-> IF e = "LOOT_PREVIEW" THEN loot ELSE {exact}]]
Fetched == {Broken, Stored({exact}, Families, TRUE, exact), Stored(Layouts, Families, TRUE, exact)}
Files == {None, Broken, Stored({exact}, {}, TRUE, exact), Stored({exact}, Families, FALSE, Broken)}

(* Storage of two records, a bad record, a wrong count; loot; a message     *)
(* that storage and loot explain; transfers and loads, good and bad; a      *)
(* rejected message with a header inside, a proven one with a message       *)
(* inside, and one of another opcode with a header inside.                  *)
WireMessages == {<<5,1,2,3,3>>, <<5,1,2,3,6>>, <<4,1,2,3>>, <<4,1,1,3>>,
                 <<5,2,1,3,3>>, <<5,2,1,3,6>>, <<5,2,5,3,3>>, <<6,1,2,4,1,2>>,
                 <<8,1,5,4,1,2,3,3>>, <<4,3,4,1>>}
Junk == {<<>>, <<5>>, <<3,1>>}
Wires == {j \o a \o b : j \in Junk, a \in WireMessages, b \in {<<5,1,2,3,3>>, <<5,2,6,3,3>>}}

(* Loads of the inventory, records and empty storages of two towns, and     *)
(* changes.                                                                 *)
Seen(kind, onFlow, town, proven, named) ==
    [kind |-> kind, flow |-> onFlow, town |-> town, proven |-> proven, named |-> named,
     time |-> 0, seq |-> 0]
Kinds ==
    {Seen("inventory", 2, 0, TRUE, TRUE), Seen("wrapper", 1, 0, TRUE, TRUE),
     Seen("storage", 1, 1, TRUE, TRUE), Seen("storage", 1, 1, FALSE, TRUE),
     Seen("storage", 1, 2, FALSE, TRUE), Seen("storage", 1, 1, FALSE, FALSE),
     Seen("envelope", 1, 2, TRUE, TRUE),
     Seen("delta", 1, 1, TRUE, TRUE), Seen("withdrawal", 1, 1, TRUE, TRUE)}

(* A decrement known by its quantity alone, and one of two records that two *)
(* layouts explain; a wrapper of one record and one of two.                 *)
Moved(quantity, instance) == [quantity |-> quantity, instance |-> instance]
Decrements ==
    {[specs |-> {"quantity"}, records |-> <<Moved(1, "x")>>],
     [specs |-> {"anchored", "repeat"}, records |-> <<Moved(1, "x"), Moved(2, "weak")>>]}
Wrappers == {<<Moved(1, "x")>>, <<Moved(1, None), Moved(2, "weak")>>}

(* Patches without kept instances, without a reference frame, without a     *)
(* count, and what else may stand in the header; what a user may ask for.   *)
Patch(counted, referenced, kept, other) ==
    [counted |-> counted, referenced |-> referenced, kept |-> kept, other |-> other]
Patches == {Patch(TRUE, TRUE, FALSE, 1), Patch(TRUE, FALSE, TRUE, 2),
            Patch(FALSE, TRUE, TRUE, 1)}
Asked(action, quantity) == [action |-> action, quantity |-> quantity]
Calibrations ==
    {Asked("auto", None), Asked("inventory-to-storage", 2), Asked("storage-to-inventory", 1),
     Asked("loot-preview", 1)}

-----------------------------------------------------------------------------
Boards == INSTANCE SolareEvidence WITH faults <- losses, MaxFaults <- MaxLosses
Profiles == INSTANCE ProfileStore WITH clock <- stamp
Framing == INSTANCE ItemFraming WITH pc <- loop, frames <- framed
Items == INSTANCE ItemAssembly
Manual == INSTANCE ManualLedger WITH MaxFrames <- MaxStream, MaxFaults <- MaxResets
Calibration == INSTANCE CalibrationEvidence
    WITH wire <- patch, frames <- collected, budget <- left, MaxFaults <- MaxOdd

ASSUME EvidenceConstants ==
    /\ Boards!EvidenceConstants /\ Profiles!StoreAssumption
    /\ Framing!FramingConstants /\ Items!AssemblyConstants /\ Manual!ManualConstants
    /\ Calibration!EvidenceConstants

boardsVars ==
    <<server, sent, losses, generation, clean, tracker, recent>>
profilesVars ==
    <<file, backups, stamp, temp, litter, op, pc, orig, data, name, fresh,
      count, faults>>
framingVars ==
    <<wire, pos, tap, target, scan, loop, seen, repeats, base, found, framed,
      emitted>>
itemsVars ==
    <<now, frames, events, refused, report, offered>>
manualVars ==
    <<stream, candidates, mark, clock, dropped, claims, budget>>
calibrationVars ==
    <<patch, options, collected, flow, left>>

NoBoards ==
    /\ server = None /\ sent = None /\ losses = None /\ generation = None
    /\ clean = None /\ tracker = None /\ recent = None
NoProfiles ==
    /\ file = None /\ backups = None /\ stamp = None /\ temp = None
    /\ litter = None /\ op = None /\ pc = None /\ orig = None /\ data = None
    /\ name = None /\ fresh = None /\ count = None /\ faults = None
NoFraming ==
    /\ wire = None /\ pos = None /\ tap = None /\ target = None /\ scan = None
    /\ loop = None /\ seen = None /\ repeats = None /\ base = None
    /\ found = None /\ framed = None /\ emitted = None
NoItems ==
    /\ now = None /\ frames = None /\ events = None /\ refused = None
    /\ report = None /\ offered = None
NoManual ==
    /\ stream = None /\ candidates = None /\ mark = None /\ clock = None
    /\ dropped = None /\ claims = None /\ budget = None
NoCalibration ==
    /\ patch = None /\ options = None /\ collected = None /\ flow = None
    /\ left = None

Init ==
    \/ part = "boards" /\ Boards!Init
          /\ NoProfiles /\ NoFraming /\ NoItems /\ NoManual
          /\ NoCalibration
    \/ part = "profiles" /\ Profiles!Init
          /\ NoBoards /\ NoFraming /\ NoItems /\ NoManual
          /\ NoCalibration
    \/ part = "framing" /\ Framing!Init
          /\ NoBoards /\ NoProfiles /\ NoItems /\ NoManual
          /\ NoCalibration
    \/ part = "items" /\ Items!Init
          /\ NoBoards /\ NoProfiles /\ NoFraming /\ NoManual
          /\ NoCalibration
    \/ part = "manual" /\ Manual!Init
          /\ NoBoards /\ NoProfiles /\ NoFraming /\ NoItems
          /\ NoCalibration
    \/ part = "calibration" /\ Calibration!Init
          /\ NoBoards /\ NoProfiles /\ NoFraming /\ NoItems
          /\ NoManual

BoardsStep ==
    /\ part = "boards" /\ Boards!Next
    /\ UNCHANGED <<part, profilesVars, framingVars, itemsVars, manualVars,
                     calibrationVars>>
ProfilesStep ==
    /\ part = "profiles" /\ Profiles!Next
    /\ UNCHANGED <<part, boardsVars, framingVars, itemsVars, manualVars,
                     calibrationVars>>
FramingStep ==
    /\ part = "framing" /\ Framing!Next
    /\ UNCHANGED <<part, boardsVars, profilesVars, itemsVars, manualVars,
                     calibrationVars>>
ItemsStep ==
    /\ part = "items" /\ Items!Next
    /\ UNCHANGED <<part, boardsVars, profilesVars, framingVars, manualVars,
                     calibrationVars>>
ManualStep ==
    /\ part = "manual" /\ Manual!Next
    /\ UNCHANGED <<part, boardsVars, profilesVars, framingVars, itemsVars,
                     calibrationVars>>
CalibrationStep ==
    /\ part = "calibration" /\ Calibration!Next
    /\ UNCHANGED <<part, boardsVars, profilesVars, framingVars, itemsVars,
                     manualVars>>

Next ==
    \/ BoardsStep \/ ProfilesStep \/ FramingStep
    \/ ItemsStep \/ ManualStep \/ CalibrationStep

vars == <<part, boardsVars, profilesVars, framingVars, itemsVars,
          manualVars, calibrationVars>>
Spec == Init /\ [][Next]_vars

-----------------------------------------------------------------------------
(* A published leaderboard is one class table and the overall table after   *)
(* it, each whole, of one response and one connection; and two that were    *)
(* captured whole and not long ago are recognised when the traffic falls    *)
(* silent, whatever was evicted (solare/_discovery.py:813, 1127-1169,       *)
(* _live_tracker.py:324-382).                                               *)
PublishedWhole == part = "boards" => Boards!PublishedWhole /\ Boards!NothingMissed

(* An active profile never has two loot layouts for messages of one length, *)
(* whichever writer wrote, merged or activated it (persistence.py           *)
(* _validate_loot_profile_entries, remote_profiles.py fetch_opcode_profile);*)
(* and the store keeps its types.                                           *)
LootDecidable == part = "profiles" => Profiles!StoreTypeOK /\ Profiles!LootDecidable

(* However the stream is cut into pieces, the target scanner finds what a   *)
(* decoder of the whole stream finds (_framing.py:556-629).                 *)
DecodesWhole == part = "framing" => Framing!DecodesWhole

(* The frames the tap takes tile the stream, also after a retransmission,   *)
(* and an event is emitted again only when the filter had to forget it      *)
(* (_framing.py:386-464, _engine.py:318).                                   *)
FramesTile == part = "framing" => Framing!FramesTile /\ Framing!RepeatsForgotten

(* A character snapshot is one pass over the towns, and nothing of an       *)
(* earlier load of the character is in it (storage.py:493-574, 917-1001,    *)
(* inventory.py:325-411).                                                   *)
OnePass == part = "items" => Items!OnePass /\ Items!LatestLoad




(* A profile that loads stays one, whatever the writers interleave, fail at *)
(* or die at; a merge keeps the other sections, and what a writer with a    *)
(* backup replaces is in a whole one, unless another writer came in         *)
(* between; a whole backup stays (_profile_io.py:40, persistence.py         *)
(* update_profile, remote_profiles.py:90).                                  *)
ProfilesKept ==
    [][part = "profiles" => Profiles!KeepsLoading /\ Profiles!MergesOnly /\ Profiles!BacksUp]_vars

=============================================================================
