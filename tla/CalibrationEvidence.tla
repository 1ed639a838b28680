--------------------------- MODULE CalibrationEvidence ---------------------------
(***************************************************************************)
(* assess_frames of _calibration/analysis.py: what the layouts of the item *)
(* messages are, learned from the frames of a few transfers of one item.   *)
(* The opcodes and the columns change with every patch of the game, so     *)
(* nothing is known of them; the result is a function of the frames        *)
(* collected so far, live or at the end.  A frame is known here by what    *)
(* the analysis finds in it: columns of the header that hold small         *)
(* numbers, records of the item, a label, occurrences of the quantity.     *)
(***************************************************************************)
EXTENDS Integers, FiniteSets, Sequences

CONSTANTS
    Columns,        \* of a header, {"town", "count", "other"}: the true ones, and one more
    Registered,     \* town numbers that are known
    Towns,          \* town numbers
    Sizes,          \* records of one transfer
    Patches,        \* what wire may be
    Calibrations,   \* what options may be: an action, and the quantity moved or None
    ContextFrames,  \* context_frames
    MaxChains, MaxFaults,   \* bounds: transfers, odd frames and reconnections
    None

EvidenceConstants ==
    /\ IsFiniteSet(Columns) /\ {"town", "count", "other"} \subseteq Columns
    /\ Registered \subseteq Towns /\ 0 \notin Towns
    /\ {ContextFrames, MaxChains, MaxFaults} \subseteq Nat

VARIABLES
    wire,      \* this patch: whether there is a count column and a reference
               \*   frame, whether instances are kept, and the other column
    options,   \* of the calibration
    frames,    \* collected
    flow,      \* the flow and its generation, as a number
    budget     \* the bounds, what is left of them

vars == <<wire, options, frames, flow, budget>>

Init ==
    /\ wire \in Patches /\ options \in Calibrations
    /\ frames = <<>> /\ flow = 1
    /\ budget = [chains |-> MaxChains, faults |-> MaxFaults]

-----------------------------------------------------------------------------
(* What the frames show.  _FrameIndex.context_before: the same connection.  *)
OnFlow(fs, i) == {j \in 1..(i - 1) : fs[j].flow = fs[i].flow}
ContextBefore(fs, i) ==
    {j \in OnFlow(fs, i) : Cardinality({k \in OnFlow(fs, i) : k >= j}) <= ContextFrames}

IsRecord(f) == f.records > 0 /\ f.instance = "real"
HasItem(f) == f.records > 0 \/ f.mentions

(* _has_item_reference_frame: no further back than another transfer.        *)
References(fs, i) ==
    {j \in ContextBefore(fs, i) :
        /\ fs[j].small /\ HasItem(fs[j])
        /\ \A k \in ContextBefore(fs, i) : k >= j => ~IsRecord(fs[k])}

(* _has_dynamic_storage_record_geometry, storage_destination_candidates.    *)
Geometry(f) == \E c \in Columns : f.header[c] > 0 /\ f.records % f.header[c] = 0
TownColumns(f) == {c \in Columns : f.header[c] \in Registered}
CountColumns(f) == {c \in Columns : f.header[c] = f.records}

(* A count that could be a town proves no destination.                      *)
StorageContext(f) ==
    /\ IsRecord(f) /\ Geometry(f) /\ Cardinality(TownColumns(f)) = 1
    /\ ~(f.records > 1 /\ CountColumns(f) # {} /\ CountColumns(f) \subseteq TownColumns(f))

(* detect_transfer_family.                                                  *)
Family(fs, i) ==
    IF fs[i].label /\ StorageContext(fs[i]) THEN "contradictory"
    ELSE IF fs[i].label THEN "into_inventory"
    ELSE IF StorageContext(fs[i]) \/ References(fs, i) # {} THEN "into_storage"
    ELSE "unclassified"

-----------------------------------------------------------------------------
(* _find_calibration_item_records: the score, in hundredths.                *)
Confidence(f, opt) ==
    LET quantity == IF opt.quantity = None THEN 15
                    ELSE IF opt.quantity = 1 THEN 25
                    ELSE IF IsRecord(f) /\ f.records = opt.quantity THEN 20 ELSE -20
        instance == IF f.instance = "none" THEN -20 ELSE 20
        sentinel == IF opt.action = "loot-preview"
                    THEN IF f.instance = "sentinel" THEN 10 ELSE -20
                    ELSE IF f.instance = "sentinel" THEN -20 ELSE 0
    IN  35 + quantity + instance + 20 + sentinel

Found(fs, opt) == {i \in DOMAIN fs : fs[i].records > 0 /\ Confidence(fs[i], opt) >= 80}

(* _select_records_by_family, and the error it raises in strict mode.       *)
Expected(action) == IF action = "storage-to-inventory" THEN "into_inventory" ELSE "into_storage"
Transfers(fs, opt) == {i \in Found(fs, opt) : fs[i].instance = "real"}
Matched(fs, opt, action, strict) ==
    {i \in Transfers(fs, opt) :
        \/ Family(fs, i) = Expected(action)
        \/ strict /\ action = "inventory-to-storage" /\ Family(fs, i) = "unclassified"}
Mismatch(fs, opt, action, strict) ==
    /\ strict /\ Matched(fs, opt, action, strict) = {}
    /\ \E i \in Transfers(fs, opt) : Family(fs, i) # "unclassified"

Best(fs, opt, set) ==
    CHOOSE i \in set :
        \A j \in set : \/ Confidence(fs[i], opt) > Confidence(fs[j], opt)
                       \/ Confidence(fs[i], opt) = Confidence(fs[j], opt) /\ i <= j

-----------------------------------------------------------------------------
(* Companions.  The exact instance of the record, found once, outranks an   *)
(* instance known by its shape, and that one a quantity alone; the same     *)
(* record repeated outranks them all.                                       *)
IsExact(fs, i, j) == fs[j].exact = 1 /\ fs[j].transfer = fs[i].transfer
At(f, n, score) == [op |-> f.op, shape |-> n, score |-> score]
Strength(fs, i, j, exact) ==
    IF IsExact(fs, i, j) THEN exact ELSE IF fs[j].structural THEN 86 ELSE 82

(* _unique_best_companion_spec: none of several that are equally strong.    *)
Strongest(candidates) ==
    {c \in candidates : \A d \in candidates : d.score <= c.score}
UniqueBest(candidates) ==
    IF Cardinality({[op |-> c.op, shape |-> c.shape] : c \in Strongest(candidates)}) = 1
    THEN Strongest(candidates) ELSE {}

(* _discover_source_container_decrement.                                    *)
ContainerDecrement(fs, i) ==
    UniqueBest(UNION {
        {At(fs[j], n, Strength(fs, i, j, 90)) : n \in 1..fs[j].quantities} :
            j \in {j \in ContextBefore(fs, i) :
                      /\ fs[j].small /\ ~HasItem(fs[j])
                      /\ fs[j].context = "before" \/ (fs[j].context = "after" /\ IsExact(fs, i, j))}})

(* _source_stack_repeated_shape, _discover_source_stack_decrement.          *)
Repeated(fs, i, j) ==
    /\ IsExact(fs, i, j) /\ fs[j].quantities > 1
    /\ fs[i].records > 1 => fs[j].quantities = fs[i].records
StackDecrement(fs, i) ==
    LET context == ContextBefore(fs, i)
        able == {j \in context :
                    /\ ~HasItem(fs[j]) /\ (fs[j].small \/ IsExact(fs, i, j))
                    /\ \/ IsExact(fs, i, j)
                       \/ \E k \in context : k > j /\ fs[k].small /\ fs[k].mentions}
    IN  UniqueBest(UNION {
            IF Repeated(fs, i, j) THEN {At(fs[j], 0, 90)}
            ELSE {At(fs[j], n, Strength(fs, i, j, 88)) : n \in 1..fs[j].quantities} : j \in able})

StackDecrements(fs, set) == UniqueBest(UNION {StackDecrement(fs, i) : i \in set})

-----------------------------------------------------------------------------
(* The columns of a storage wrapper, over every wrapper of its opcode.      *)
Common(sets) == {c \in Columns : \A s \in sets : c \in s}
Only(set) == IF Cardinality(set) = 1 THEN CHOOSE c \in set : TRUE ELSE None

(* _discover_storage_context_offset_from_frames: towns not known by name    *)
(* do not disagree.                                                         *)
TownColumn(fs, set, op) ==
    LET wrappers == {i \in set : fs[i].op = op /\ Geometry(fs[i])}
        named == {i \in wrappers : TownColumns(fs[i]) # {}}
        column == Only(Common({TownColumns(fs[i]) : i \in named}))
    IN  IF named = {} \/ column = None \/ \E i \in wrappers \ named : fs[i].header[column] = 0
        THEN None ELSE column

(* _discover_storage_record_count_offset: two different counts at least, so *)
(* that no number that is always there passes for the count.                *)
Shapes == 2
CountColumn(fs, op) ==
    LET wrappers == {i \in DOMAIN fs : fs[i].op = op /\ IsRecord(fs[i])}
        shapes == {fs[i].records : i \in wrappers}
    IN  IF Cardinality(shapes) < Shapes THEN None
        ELSE Only(Common({CountColumns(fs[i]) : i \in wrappers}))

-----------------------------------------------------------------------------
Spec1(event, op) == [event |-> event, op |-> op, town |-> None, count |-> None]
Companion(event, found) == {Spec1(event, c.op) : c \in found}

LootPreview(fs, opt) ==
    LET found == {i \in Found(fs, opt) : fs[i].instance = "sentinel"}
    IN  IF found = {} THEN {} ELSE {Spec1("LOOT_PREVIEW", fs[Best(fs, opt, found)].op)}

StorageToInventory(fs, opt, strict) ==
    LET found == Matched(fs, opt, "storage-to-inventory", strict)
        best == Best(fs, opt, found)
    IN  IF found = {} THEN {}
        ELSE {Spec1("INVENTORY_TRANSFER", fs[best].op)}
             \cup Companion("SOURCE_CONTAINER_DECREMENT", ContainerDecrement(fs, best))

(* Without a proven column for the destination and one for the count there  *)
(* is no result at all.                                                     *)
Authority(town, count) == town # None /\ count # None
InventoryToStorage(fs, opt, strict) ==
    LET found == Matched(fs, opt, "inventory-to-storage", strict)
        best == Best(fs, opt, found)
        op == fs[best].op
        town == TownColumn(fs, found, op)
        count == CountColumn(fs, op)
    IN  IF found = {} THEN [specs |-> {}, error |-> FALSE]
        ELSE IF ~Authority(town, count) THEN [specs |-> {}, error |-> TRUE]
        ELSE [specs |-> {[event |-> "STORAGE_ITEM_DELTA", op |-> op, town |-> town, count |-> count]}
                        \cup Companion("SOURCE_STACK_DECREMENT", StackDecrements(fs, found)),
              error |-> FALSE]

(* assess_frames: the first error ends it, with the specs found before.     *)
Assess(fs, opt) ==
    LET strict == opt.action # "auto"
        deposits == InventoryToStorage(fs, opt, strict)
        pulls == StorageToInventory(fs, opt, strict)
        Fails(action) == Mismatch(fs, opt, action, strict)
    IN  IF opt.action = "loot-preview" THEN [specs |-> LootPreview(fs, opt), error |-> FALSE]
        ELSE IF opt.action = "storage-to-inventory"
        THEN [specs |-> pulls, error |-> Fails("storage-to-inventory")]
        ELSE IF opt.action = "inventory-to-storage"
        THEN IF Fails("inventory-to-storage") THEN [specs |-> {}, error |-> TRUE] ELSE deposits
        ELSE [specs |-> pulls \cup deposits.specs, error |-> deposits.error]

Result == Assess(frames, options)

-----------------------------------------------------------------------------
(* The game.  Every frame of a transfer arrives after the one before it,    *)
(* and an odd one may come in between, with the quantity in it.  A          *)
(* decrement behind the transfer's context keeps the instance.              *)
Blank == [op |-> "noise", flow |-> flow, transfer |-> budget.chains, records |-> 0, instance |-> "none", label |-> FALSE,
          header |-> [c \in Columns |-> 0],
          mentions |-> FALSE, quantities |-> 0, exact |-> 0,
          structural |-> FALSE, context |-> "none", small |-> TRUE]

Exact == IF wire.kept THEN 1 ELSE 0
Decrement(op, n, context) ==
    [Blank EXCEPT !.op = op, !.quantities = n, !.exact = Exact, !.structural = TRUE, !.context = context]
Reference == [Blank EXCEPT !.op = "reference", !.mentions = TRUE]
Header(n, town) ==
    [c \in Columns |-> IF c = "town" THEN town
                       ELSE IF c = "count" THEN IF wire.counted THEN n ELSE 0 ELSE wire.other]
Wrapper(op, n, label, header) ==
    [Blank EXCEPT !.op = op, !.records = n, !.instance = "real", !.label = label,
                  !.header = header, !.small = FALSE]

(* An odd frame is weaker evidence than a decrement.                        *)
Odd == [Blank EXCEPT !.transfer = 0, !.quantities = 1, !.structural = wire.kept, !.context = "before"]

Arrives(chain) ==
    /\ budget.chains > 0
    /\ \/ frames' = frames \o chain /\ budget' = [budget EXCEPT !.chains = @ - 1]
       \/ /\ budget.faults > 0 /\ Len(chain) > 1
          /\ frames' = frames \o <<Head(chain), Odd>> \o Tail(chain)
          /\ budget' = [chains |-> budget.chains - 1, faults |-> budget.faults - 1]
       \/ /\ budget.faults > 0
          /\ frames' = frames \o <<Odd>> \o chain
          /\ budget' = [chains |-> budget.chains - 1, faults |-> budget.faults - 1]
    /\ UNCHANGED <<wire, options, flow>>

(* A town that is not known by name is only told from the others when no    *)
(* other column of its wrapper could be one that is.                        *)
Deposit ==
    \E n \in Sizes, town \in Towns :
        /\ town \in Registered \/ (wire.other \notin Registered /\ n \notin Registered)
        /\ Arrives(<<Decrement("decrement", n, "none")>>
                   \o (IF wire.referenced THEN <<Reference>> ELSE <<>>)
                   \o <<Wrapper("deposit", n, FALSE, Header(n, town))>>)

Pull ==
    \E n \in Sizes, town \in Registered \cup {0}, context \in {"before", "after"} :
        /\ context = "after" => wire.kept
        /\ Arrives(<<Decrement("container", n, context),
                     Wrapper("receipt", n, TRUE, [c \in Columns |-> IF c = "town" THEN town
                                                       ELSE IF c = "other" THEN n ELSE 0])>>)

(* A record of the item that was not moved, and a preview of loot.          *)
Listed == Arrives(<<Wrapper("listed", 1, FALSE, [c \in Columns |-> 0])>>)
Preview == Arrives(<<[Wrapper("preview", 1, FALSE, [c \in Columns |-> 0])
                        EXCEPT !.instance = "sentinel"]>>)

Reconnect ==
    /\ budget.faults > 0 /\ budget' = [budget EXCEPT !.faults = @ - 1]
    /\ flow' = flow + 1
    /\ UNCHANGED <<wire, options, frames>>

Next == Deposit \/ Pull \/ Listed \/ Preview \/ Reconnect

Spec == Init /\ [][Next]_vars

-----------------------------------------------------------------------------
True(event) == CASE event = "LOOT_PREVIEW" -> "preview"
                 [] event = "INVENTORY_TRANSFER" -> "receipt"
                 [] event = "STORAGE_ITEM_DELTA" -> "deposit"
                 [] event = "SOURCE_STACK_DECREMENT" -> "decrement"
                 [] OTHER -> "container"


(* A calibration that was complete stays so when more transfers are seen    *)
(* before it is stopped (_calibration/live.py:206-222).                     *)
Required ==
    CASE options.action = "loot-preview" -> {"LOOT_PREVIEW"}
      [] options.action = "storage-to-inventory" -> {"INVENTORY_TRANSFER"}
      [] options.action = "inventory-to-storage" -> {"STORAGE_ITEM_DELTA", "SOURCE_STACK_DECREMENT"}
      [] OTHER -> {"INVENTORY_TRANSFER", "STORAGE_ITEM_DELTA", "SOURCE_STACK_DECREMENT"}
Ready(fs) == LET r == Assess(fs, options)
             IN  ~r.error /\ Required \subseteq {s.event : s \in r.specs}
StillReady == Ready(frames) => Ready(frames')
=============================================================================
