----------------------------- MODULE ItemAssembly -----------------------------
(***************************************************************************)
(* _item_state/assembly.py, inventory.py and storage.py: the accumulator   *)
(* that keeps the evidence of a character load, and the snapshot built     *)
(* from it: the latest inventory load, the storage records that belong to  *)
(* it, the ones that were left neutral and may be promoted, the sweeps     *)
(* over the towns, and what the last sweep says.                           *)
(*                                                                         *)
(* A message stands for its frame and for the events of its records; "town" *)
(* is also the instance an inventory record names.                         *)
(***************************************************************************)
EXTENDS Integers, FiniteSets, Sequences, SequencesExt

CONSTANTS
    Kinds,              \* bound: the messages but for their time and place
    Steps,              \* bound: the time between two messages
    MaxMessages,        \* bound
    MaxFrames,          \* max_relevant_frames
    MaxRecords,         \* max_snapshot_records
    InventoryGap, ChunkGap, Margin, BurstGap, BurstLength, Epoch,
    MinDestinations,    \* the thresholds of _constants.py
    None

AssemblyConstants ==
    /\ \A k \in Kinds :
          /\ k.kind \in {"inventory", "wrapper", "storage", "envelope", "delta", "withdrawal"}
          /\ k.proven \in BOOLEAN /\ k.named \in BOOLEAN
    /\ Steps \subseteq Nat
    /\ {MaxMessages, MaxFrames, MaxRecords, InventoryGap, ChunkGap, Margin,
        BurstGap, BurstLength, Epoch, MinDestinations} \subseteq Nat

VARIABLES
    now,        \* time of the last message
    frames,     \* _frames
    events,     \* _inventory_, _storage_, _neutral_storage_events, _live_storage_boundaries
    refused,    \* _limit_error
    report,     \* the last snapshot, None when there is none since
    offered     \* history: messages observed

vars == <<now, frames, events, refused, report, offered>>

Init ==
    /\ now = 0 /\ frames = {} /\ events = {} /\ refused = FALSE
    /\ report = None /\ offered = {}

-----------------------------------------------------------------------------
(* Capture order: time, then the flow, then the position in its stream.     *)
Before(a, b) ==
    \/ a.time < b.time
    \/ a.time = b.time /\ a.flow < b.flow
    \/ a.time = b.time /\ a.flow = b.flow /\ a.seq < b.seq
InOrder(S) == SetToSortSeq(S, Before)
Latest(S) == CHOOSE m \in S : \A other \in S : ~Before(m, other)
Earliest(S) == CHOOSE m \in S : \A other \in S : ~Before(other, m)

HasRecord(m) == m.kind \notin {"wrapper", "envelope"}

(* observe_frame, then observe_event for its record.                        *)
Refuse == refused' = TRUE
Observe ==
    /\ Cardinality(offered) < MaxMessages
    /\ \E k \in Kinds, step \in IF offered = {} THEN {0} ELSE Steps :
          LET m == [k EXCEPT !.time = now + step, !.seq = Cardinality(offered)]
          IN  /\ now' = m.time /\ offered' = offered \cup {m} /\ report' = None
              /\ IF refused \/ Cardinality(frames) >= MaxFrames
                 THEN Refuse /\ UNCHANGED <<frames, events>>
                 ELSE /\ frames' = frames \cup {m}
                      /\ IF ~HasRecord(m)
                         THEN UNCHANGED <<events, refused>>
                         ELSE IF Cardinality(events) >= MaxRecords
                         THEN Refuse /\ UNCHANGED events
                         ELSE events' = events \cup {m} /\ UNCHANGED refused

(* A retransmitted frame is seen again, later: its key is known.            *)
KnownFrame(m) == \E f \in frames : f.seq = m.seq
ObserveAgain ==
    /\ \E m \in offered :
          /\ ~HasRecord(m)
          /\ IF refused \/ KnownFrame(m)
             THEN UNCHANGED <<frames, refused>>
             ELSE IF Cardinality(frames) >= MaxFrames
             THEN Refuse /\ UNCHANGED frames
             ELSE frames' = frames \cup {[m EXCEPT !.time = now]} /\ UNCHANGED refused
    /\ report' = None
    /\ UNCHANGED <<now, events, offered>>

-----------------------------------------------------------------------------
(* _latest_inventory_generation: an anchor far from the previous one, or of *)
(* another flow, begins a new load.                                         *)
Anchors == {e \in events : e.kind = "inventory"} \cup {f \in frames : f.kind = "wrapper"}

NewLoad(last, a) == a.time - last.time > InventoryGap \/ a.flow # last.flow
Load ==
    LET order == InOrder(Anchors)
        Next1(g, a) == IF NewLoad(g.last, a) THEN [start |-> a, last |-> a]
                       ELSE [g EXCEPT !.last = a]
    IN  FoldLeft(Next1, [start |-> Head(order), last |-> Head(order)], Tail(order)).start

InLoad(m) == Anchors = {} \/ (m.time >= Load.time /\ m.flow = Load.flow)
LoadAnchors == {a \in Anchors : InLoad(a)}
Kept(S) == {m \in S : InLoad(m)}

LastAnchor(flow) == Latest({a \in LoadAnchors : a.flow = flow})
Anchored(m, flow) ==
    /\ \E a \in LoadAnchors : a.flow = flow
    /\ LastAnchor(flow).time <= m.time

(* _empty_storage_envelope_id: a count of zero is a town only within the    *)
(* window of the records and of the anchors of its flow.                    *)
WindowStarts(flow, records, anchors) ==
    {m.time : m \in {x \in records \cup anchors : x.flow = flow}}
WindowEnds(flow, records, anchors) ==
    {m.time : m \in {x \in records : x.flow = flow}}
    \cup {a.time + Epoch : a \in {x \in anchors : x.flow = flow}}
Windowed(e, records, anchors) ==
    /\ WindowStarts(e.flow, records, anchors) # {}
    /\ Min(WindowStarts(e.flow, records, anchors)) - Margin <= e.time
    /\ e.time <= Max(WindowEnds(e.flow, records, anchors)) + Margin

(* _storage_group_observations.                                             *)
Groups(records, anchors) ==
    records \cup {f \in Kept(frames) : f.kind = "envelope" /\ Windowed(f, records, anchors)}

(* _infer_storage_sweeps: the chunks of a town form a block; a town, or     *)
(* another flow, that comes back begins a new sweep.                        *)
IsChunk(block, m) ==
    /\ block.town = m.town /\ block.flow = m.flow /\ block.empty = (m.kind = "envelope")
    /\ m.time - Latest(block.groups).time <= ChunkGap
BlockOf(m) == [town |-> m.town, flow |-> m.flow, empty |-> m.kind = "envelope", groups |-> {m}]
AddGroup(blocks, m) ==
    IF blocks # <<>> /\ IsChunk(blocks[Len(blocks)], m)
    THEN [blocks EXCEPT ![Len(blocks)].groups = @ \cup {m}]
    ELSE Append(blocks, BlockOf(m))

AnySweep(sweep, b) == TRUE
SameSweep(sweep, b) == \A c \in sweep : c.town # b.town /\ c.flow = b.flow
AddBlock(sweeps, b) ==
    IF sweeps # <<>> /\ SameSweep(sweeps[Len(sweeps)], b)
    THEN [sweeps EXCEPT ![Len(sweeps)] = @ \cup {b}]
    ELSE Append(sweeps, {b})
Sweeps(groups) == FoldLeft(AddBlock, <<>>, FoldLeft(AddGroup, <<>>, InOrder(groups)))
GroupsOf(sweep) == UNION {b.groups : b \in sweep}

-----------------------------------------------------------------------------
(* _character_storage_snapshot_fallback: without a proven record, a burst   *)
(* of enough towns, one of them empty, shortly after the load.              *)
AddToBurst(bursts, m) ==
    IF /\ bursts # <<>>
       /\ m.time - Latest(bursts[Len(bursts)]).time <= BurstGap
       /\ m.time - Earliest(bursts[Len(bursts)]).time <= BurstLength
    THEN [bursts EXCEPT ![Len(bursts)] = @ \cup {m}]
    ELSE Append(bursts, {m})
Bursts(groups, flow) ==
    ToSet(FoldLeft(AddToBurst, <<>>, InOrder({m \in groups : m.flow = flow})))

Broad(burst) ==
    /\ Cardinality({m.town : m \in burst}) >= MinDestinations
    /\ \E m \in burst : m.kind = "envelope"
    /\ Anchored(Earliest(burst), Earliest(burst).flow)
    /\ Latest(burst).time - LastAnchor(Earliest(burst).flow).time <= Epoch
BroadCohorts(neutral) ==
    IF LoadAnchors = {} THEN {}
    ELSE {b \in UNION {Bursts(Groups(neutral, LoadAnchors), m.flow) : m \in frames} : Broad(b)}

(* _small_character_storage_fallback: all the neutral records are one short *)
(* burst after the load, for few towns, identified, undisturbed, one sweep. *)
Undisturbed(boundaries, anchor, last) ==
    ~\E d \in boundaries :
        d.flow = last.flow /\ anchor.time <= d.time /\ d.time <= last.time
SmallCohort(neutral, boundaries) ==
    /\ neutral # {} /\ LoadAnchors # {}
    /\ LET first == Earliest(neutral)
           last == Latest(neutral)
       IN  /\ \A m \in neutral : m.flow = first.flow /\ m.named
           /\ Anchored(first, first.flow)
           /\ last.time <= LastAnchor(first.flow).time + Epoch
           /\ Cardinality(Bursts(neutral, first.flow)) = 1
           /\ Cardinality({m.town : m \in neutral}) < MinDestinations
           /\ Undisturbed(boundaries, LastAnchor(first.flow), last)
           /\ Len(Sweeps(neutral)) = 1

SideOf(m, deltas) == {d \in deltas : d.flow = m.flow /\ ~Before(m, d)}
InEpoch(m) ==
    Anchored(m, m.flow) /\ m.time - LastAnchor(m.flow).time <= Epoch
Joined(proven, neutral, deltas) ==
    IF LoadAnchors = {} THEN {}
    ELSE LET groups == {m \in Groups(proven \cup neutral, LoadAnchors) : InEpoch(m)}
             cohorts == {{m \in groups : m.flow = n.flow /\ SideOf(m, deltas) = SideOf(n, deltas)} :
                            n \in groups}
             sweeps == UNION {ToSet(Sweeps(c)) : c \in cohorts}
         IN  neutral \cap UNION {GroupsOf(s) : s \in {x \in sweeps : GroupsOf(x) \cap proven # {}}}

-----------------------------------------------------------------------------
(* snapshot(): select, promote, assemble; it raises once evidence has been  *)
(* refused.                                                                 *)
Records(kind) == {e \in Kept(events) : e.kind = kind}
Proven == {e \in Records("storage") : e.proven}
Neutral == {e \in Records("storage") : ~e.proven}
Boundaries == Records("delta") \cup Records("withdrawal")

LatestBurst(cohorts) == CHOOSE b \in cohorts : \A c \in cohorts : ~Before(Latest(b), Latest(c))

Selection(compatible) ==
    IF Proven # {}
    THEN LET joined == Joined(Proven, Neutral, Records("delta"))
         IN  [how |-> "joined", accepted |-> Proven \cup joined,
              groups |-> Groups(Proven \cup joined, LoadAnchors)]
    ELSE IF BroadCohorts(Neutral) # {}
    THEN LET cohort == LatestBurst(BroadCohorts(Neutral))
         IN  [how |-> "broad", accepted |-> Neutral \cap cohort, groups |-> cohort]
    ELSE LET small == IF compatible /\ SmallCohort(Neutral, Boundaries) THEN Neutral ELSE {}
         IN  [how |-> "small", accepted |-> small, groups |-> Groups(small, LoadAnchors)]

(* _assemble_storage: the blocks of the last sweep are the current state.   *)
CurrentBlocks(sweeps) == IF sweeps = <<>> THEN {} ELSE sweeps[Len(sweeps)]

(* _assemble_inventory: the last record of an instance is its state.        *)
InventoryItems ==
    {m \in Records("inventory") : ~\E later \in Records("inventory") :
        later.named /\ m.named /\ later.town = m.town /\ later.seq > m.seq}

Snapshot ==
    /\ report = None
    /\ \E compatible \in BOOLEAN :
          LET s == Selection(compatible)
          IN  /\ ~refused
              /\ report' = [how |-> s.how, accepted |-> s.accepted, groups |-> s.groups,
                            inventory |-> InventoryItems,
                            current |-> CurrentBlocks(Sweeps(s.groups))]
    /\ UNCHANGED <<now, frames, events, refused, offered>>

Next == Observe \/ ObserveAgain \/ Snapshot
Spec == Init /\ [][Next]_vars

-----------------------------------------------------------------------------
Reported == IF report = None THEN {}
            ELSE report.inventory \cup GroupsOf(report.current)

(* What is reported as current is one pass over the towns: everything that  *)
(* was observed since its first group belongs to it, and no town is in it   *)
(* twice.  A town the last pass did not visit keeps no items, and an empty  *)
(* one was seen empty (storage.py:493-574, 917-1001).                                *)
OnePass ==
    report # None =>
        /\ \A m \in report.groups, r \in GroupsOf(report.current) :
              ~Before(m, r) => m \in GroupsOf(report.current)
        /\ \A b, c \in report.current : b.town = c.town => b = c
        /\ \A b \in report.current : \A m \in b.groups : b.empty = (m.kind = "envelope")

(* Nothing of an earlier load is reported: from a reported record on, the   *)
(* inventory loads only continue, without a pause and on one flow           *)
(* (inventory.py:325-411, assembly.py:258-316).                             *)
AllAnchors == {m \in offered : m.kind \in {"inventory", "wrapper"}}
Continues(a) ==
    \E b \in AllAnchors :
        /\ Before(b, a) /\ b.flow = a.flow /\ a.time - b.time <= InventoryGap
        /\ ~\E c \in AllAnchors : Before(b, c) /\ Before(c, a) /\ c.flow # a.flow
LatestLoad ==
    \A r \in Reported :
        AllAnchors # {} =>
            /\ r.flow = Latest(AllAnchors).flow
            /\ \E a \in AllAnchors : a.time <= r.time
            /\ \A a \in AllAnchors : r.time < a.time => Continues(a)

(* A neutral record counts beside a proven one only if no change of the     *)
(* storage lies between them, and alone only if nothing was moved between   *)
(* the load and its burst (storage.py:214-220, 280-343).                    *)
Parted(m, n, kinds) ==
    \E d \in offered :
        /\ d.kind \in kinds /\ d.flow = m.flow
        /\ (~Before(m, d) /\ Before(n, d)) \/ (~Before(n, d) /\ Before(m, d))

(* A snapshot is made of everything that was offered, or there is none.     *)
NothingRefused ==
    report # None =>
        /\ frames = offered
        /\ events = {m \in offered : HasRecord(m)}
=============================================================================
