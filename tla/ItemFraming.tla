------------------------------ MODULE ItemFraming ------------------------------
(***************************************************************************)
(* The scanners of _framing.py behind the tee of _engine.py, fed with one  *)
(* reassembled stream in pieces of any size, with gaps and with            *)
(* retransmitted pieces, and PacketEngine's filter of duplicates.          *)
(*                                                                         *)
(* A stream is a sequence of cells: the length of a message (in cells, the *)
(* two cells of its header included), its opcode, a header field, then one *)
(* cell for each record.  A buffer is the part of the wire from its start  *)
(* to the end of what is being scanned, so only the start is kept.         *)
(***************************************************************************)
EXTENDS Integers, FiniteSets, Sequences, SequencesExt

CONSTANTS
    Wires,          \* bound: the streams
    MaxLength,      \* MAX_TARGET_MESSAGE_LENGTH, in cells
    HistoryLimit,   \* DEDUP_HISTORY_LIMIT
    MaxRepeats,     \* bound: gaps and retransmissions
    None

FramingConstants ==
    /\ Wires \subseteq Seq(Nat) /\ MaxLength \in Nat /\ MaxLength >= 4
    /\ HistoryLimit \in Nat \ {0} /\ MaxRepeats \in Nat
    /\ None \notin Nat

VARIABLES
    wire,       \* the stream
    pos,        \* cells delivered in order
    tap,        \* FrameCollectorScanner: start, synchronized, framed start
    target,     \* TargetMessageScanner: start
    scan,       \* what is scanned: its end, and the scanners it will restore
    pc,         \* "idle", or whose loop runs: "tap" or "target"
    seen,       \* _seen_event_order
    repeats,    \* bound
    base,       \* history: where the stream restarted
    found,      \* history: events decoded from the stream since then
    frames,     \* history: frames of the tap
    emitted     \* history: events that passed the filter

engineVars == <<wire, pos, tap, target, scan, pc, seen, repeats>>
historyVars == <<base, found, frames, emitted>>
vars == <<engineVars, historyVars>>

HeaderLength == 2
Unsynchronized(at) == [start |-> at, synchronized |-> FALSE, framed |-> None]
Delivery == [end |-> 0, tap |-> None, target |-> None]

Init ==
    /\ wire \in Wires /\ pos = 0
    /\ tap = Unsynchronized(0) /\ target = 0
    /\ scan = Delivery /\ pc = "idle"
    /\ seen = <<>> /\ repeats = 0
    /\ base = 0 /\ found = {} /\ frames = <<>> /\ emitted = <<>>

Cell(i) == wire[i + 1]
End == scan.end
Standalone == scan.tap # None

IsLength(n) == HeaderLength <= n /\ n <= MaxLength

-----------------------------------------------------------------------------
(* The layouts.  A record cell is plausible up to 4.  Opcode 1 is a storage *)
(* wrapper, whose header field counts its records, and also a loot message  *)
(* of one record; opcode 2 is a transfer, whose records are found by their  *)
(* markers, or, when its header field is above LoadContext, a character     *)
(* load that declares the excess as its number of records.                  *)
Specs == {"storage", "loot", "transfer"}
LoadContext == 4
Opcode(spec) == IF spec = "transfer" THEN 2 ELSE 1
FirstRecord == HeaderLength + 1
BaseLength == FirstRecord + 1
Plausible(c) == 0 < c /\ c < 5

(* The header at cell i belongs to this spec and may have its length.       *)
LengthMatches(spec, n) ==
    /\ BaseLength <= n /\ n <= MaxLength
    /\ spec = "loot" => n = BaseLength

Candidates(i) ==
    {spec \in Specs : Cell(i + 1) = Opcode(spec) /\ LengthMatches(spec, Cell(i))}

Records(i) == {r \in 1..MaxLength : r + FirstRecord <= Cell(i)}
RecordCell(i, r) == Cell(i + HeaderLength + r)

(* _declared_storage_record_deltas, _declared_inventory_snapshot_...: the   *)
(* count explains the length, and every record is plausible, or there is    *)
(* nothing.                                                                 *)
Declared(i, count) ==
    IF Cardinality(Records(i)) = count /\ \A r \in Records(i) : Plausible(RecordCell(i, r))
    THEN Records(i) ELSE {}

(* _structural_record_deltas: the records that carry the marker start at    *)
(* the calibrated first one, and explain the length.                        *)
Structural(i) ==
    LET marked == {r \in Records(i) : Plausible(RecordCell(i, r))}
    IN  IF 1 \in marked /\ Cell(i) = BaseLength + Cardinality(marked) - 1
        THEN marked ELSE {}

(* _decode_events_from_message: the records of a message, none if rejected. *)
Decode(spec, i) ==
    CASE spec = "storage" -> Declared(i, Cell(i + HeaderLength))
      [] spec = "transfer" /\ Cell(i + HeaderLength) > LoadContext ->
            Declared(i, Cell(i + HeaderLength) - LoadContext)
      [] spec = "transfer" -> Structural(i)
      [] spec = "loot" -> {r \in {1} : Plausible(RecordCell(i, r))}

ValidDecodes(i) == {spec \in Candidates(i) : Decode(spec, i) # {}}

-----------------------------------------------------------------------------
(* TCP reassembly delivers the next piece, restarts after a gap, or meets   *)
(* cells again that it has delivered before.                                *)
Feed ==
    /\ pc = "idle"
    /\ \E n \in 1..(Len(wire) - pos) :
          pos' = pos + n /\ scan' = [Delivery EXCEPT !.end = pos + n]
    /\ pc' = "tap"
    /\ UNCHANGED <<wire, tap, target, seen, repeats, historyVars>>

Reset ==
    /\ pc = "idle" /\ repeats < MaxRepeats /\ repeats' = repeats + 1
    /\ \E n \in 1..(Len(wire) - pos) : pos' = pos + n
    /\ tap' = Unsynchronized(pos') /\ target' = pos'
    /\ base' = pos' /\ found' = {}
    /\ UNCHANGED <<wire, scan, pc, seen, frames, emitted>>

StandaloneWhole(last) == last

(* scan_standalone of the tap only looks at what lies before the first cell *)
(* that was framed.                                                         *)
StandaloneEnd(last) ==
    IF tap.framed # None /\ tap.framed < last THEN tap.framed ELSE last

Retransmit ==
    /\ pc = "idle" /\ repeats < MaxRepeats /\ repeats' = repeats + 1
    /\ \E first \in 0..pos, last \in 0..pos :
          /\ first < last
          /\ scan' = [end |-> last, tap |-> tap, target |-> target]
          /\ target' = first
          /\ IF StandaloneEnd(last) <= first
             THEN pc' = "target" /\ UNCHANGED tap
             ELSE /\ pc' = "tap"
                  /\ tap' = [tap EXCEPT !.start = first, !.synchronized = FALSE]
    /\ UNCHANGED <<wire, pos, seen, historyVars>>

TapEnd == IF Standalone THEN StandaloneEnd(End) ELSE End
TapDone(t) == tap' = (IF Standalone THEN scan.tap ELSE t) /\ pc' = "target"

-----------------------------------------------------------------------------
(* _find_synchronization_candidate: a known opcode, the whole buffer, or a  *)
(* second complete message behind the first.                                *)
Boundary(i) ==
    LET next == i + Cell(i)
    IN  /\ i + HeaderLength <= TapEnd /\ IsLength(Cell(i)) /\ next <= TapEnd
        /\ \/ Cell(i + 1) \in {Opcode(spec) : spec \in Specs}
           \/ i = tap.start /\ next = TapEnd
           \/ /\ next + HeaderLength <= TapEnd /\ IsLength(Cell(next))
              /\ next + Cell(next) <= TapEnd

Boundaries == {i \in tap.start..(TapEnd - HeaderLength) : Boundary(i)}
TapShort == TapEnd < tap.start + HeaderLength

(* _scan of the tap, one turn of its loop at a time.                        *)
Synchronize ==
    /\ pc = "tap" /\ ~TapShort /\ ~tap.synchronized /\ Boundaries # {}
    /\ LET i == Min(Boundaries)
       IN  tap' = [start |-> i, synchronized |-> TRUE,
                   framed |-> IF tap.framed = None THEN i ELSE tap.framed]
    /\ UNCHANGED <<wire, pos, target, scan, pc, seen, repeats, historyVars>>

(* No boundary yet: one message and a split header are kept.                *)
StayUnsynchronized ==
    /\ pc = "tap" /\ ~TapShort /\ ~tap.synchronized /\ Boundaries = {}
    /\ TapDone([tap EXCEPT !.start =
                   IF TapEnd - @ > MaxLength + 1 THEN TapEnd - MaxLength - 1 ELSE @])
    /\ UNCHANGED <<wire, pos, target, scan, seen, repeats, historyVars>>

LoseBoundary ==
    /\ pc = "tap" /\ ~TapShort /\ tap.synchronized /\ ~IsLength(Cell(tap.start))
    /\ tap' = [tap EXCEPT !.synchronized = FALSE, !.start = @ + 1]
    /\ UNCHANGED <<wire, pos, target, scan, pc, seen, repeats, historyVars>>

CollectFrame ==
    /\ pc = "tap" /\ ~TapShort /\ tap.synchronized /\ IsLength(Cell(tap.start))
    /\ tap.start + Cell(tap.start) <= TapEnd
    /\ frames' = Append(frames, [start |-> tap.start, end |-> tap.start + Cell(tap.start),
                                 again |-> Standalone, base |-> base])
    /\ tap' = [tap EXCEPT !.start = @ + Cell(tap.start)]
    /\ UNCHANGED <<wire, pos, target, scan, pc, seen, repeats, base, found, emitted>>

KeepTail ==
    /\ tap.synchronized /\ IsLength(Cell(tap.start))
    /\ tap.start + Cell(tap.start) > TapEnd
    /\ TapDone(tap)

(* A message that is not complete waits for the rest.                       *)
AwaitFrame ==
    /\ pc = "tap"
    /\ \/ TapShort /\ TapDone(tap)
       \/ ~TapShort /\ KeepTail
    /\ UNCHANGED <<wire, pos, target, scan, seen, repeats, historyVars>>

-----------------------------------------------------------------------------
(* _scan of the target scanner.                                             *)
Headers == {i \in target..(End - HeaderLength) : i + HeaderLength <= End /\ Candidates(i) # {}}
Complete == {i \in Headers : i + Cell(i) <= End}
Incomplete == Headers \ Complete

MayDecodeAny == Complete # {}
MayDecode == Complete # {} /\ \A i \in Incomplete : Min(Complete) < i

(* What may still become a message stays in the buffer.                     *)
KeptFrom ==
    IF Incomplete # {} THEN Min(Incomplete)
    ELSE IF End - target > HeaderLength - 1 THEN End - (HeaderLength - 1) ELSE target

AwaitMessage ==
    /\ pc = "target" /\ ~MayDecode
    /\ target' = IF Standalone THEN scan.target ELSE KeptFrom
    /\ scan' = Delivery /\ pc' = "idle"
    /\ UNCHANGED <<wire, pos, tap, seen, repeats, historyVars>>

(* _is_duplicate_event, for the records of one message in turn.             *)
Recently(order) == IF Len(order) > HistoryLimit THEN Tail(order) ELSE order

Filter(passed, event) ==
    IF event \in ToSet(passed.seen) THEN passed
    ELSE [seen |-> Recently(Append(passed.seen, event)), new |-> Append(passed.new, event)]

(* Exactly one layout must prove the message: otherwise the scan goes on    *)
(* one cell later.                                                          *)
DecodeMessage ==
    /\ pc = "target" /\ MayDecode
    /\ LET i == Min(Complete)
       IN  IF Cardinality(ValidDecodes(i)) # 1
           THEN /\ target' = i + 1
                /\ UNCHANGED <<seen, found, emitted>>
           ELSE LET spec == CHOOSE s \in ValidDecodes(i) : TRUE
                    events == [k \in 1..Cardinality(Decode(spec, i)) |-> <<i, spec, k>>]
                    passed == FoldLeft(Filter, [seen |-> seen, new |-> <<>>], events)
                IN  /\ target' = i + Cell(i)
                    /\ found' = IF Standalone THEN found ELSE found \cup ToSet(events)
                    /\ seen' = passed.seen
                    /\ emitted' = emitted \o passed.new
    /\ UNCHANGED <<wire, pos, tap, scan, pc, repeats, base, frames>>

Tap == Synchronize \/ StayUnsynchronized \/ LoseBoundary \/ CollectFrame \/ AwaitFrame
Target == AwaitMessage \/ DecodeMessage
Next == Feed \/ Reset \/ Retransmit \/ Tap \/ Target

Spec == Init /\ [][Next]_vars

-----------------------------------------------------------------------------
(* What a decoder that has the whole stream in its hands would find: it     *)
(* takes headers in order, waits for none that the stream cannot complete,  *)
(* and believes a message that one layout alone explains, as a whole.       *)
Explained(spec, i) ==
    LET field == Cell(i + HeaderLength)
        records == Records(i)
        good == {r \in records : Plausible(RecordCell(i, r))}
    IN  /\ spec \in Candidates(i)
        /\ IF spec = "loot" THEN 1 \in good ELSE records = good
        /\ spec = "storage" => field = Cardinality(records)
        /\ spec = "transfer" /\ field > LoadContext =>
              field - LoadContext = Cardinality(records)

MessageAt(i) ==
    {<<i, spec, r>> : spec \in {s \in Specs : Explained(s, i)}, r \in Records(i)}

WholeStream ==
    LET Read[i \in base..(pos + MaxLength)] ==
          IF i + HeaderLength > pos THEN {}
          ELSE IF Candidates(i) = {} THEN Read[i + 1]
          ELSE IF i + Cell(i) > pos THEN {}
          ELSE IF Cardinality({s \in Specs : Explained(s, i)}) = 1
          THEN MessageAt(i) \cup Read[i + Cell(i)]
          ELSE Read[i + 1]
    IN  Read[base]

(* However the stream is cut into pieces, and whatever is retransmitted in  *)
(* between, the target scanner finds what a decoder of the whole stream     *)
(* finds: a header split between pieces, a message inside the payload of an *)
(* incomplete one, a message two layouts explain, and a batch with one bad  *)
(* record do not change it (_framing.py:556-629).                           *)
DecodesWhole == pc = "idle" => found = WholeStream

(* The frames the tap takes from the stream never overlap, and nothing is   *)
(* skipped between two of them unless it begins with what cannot be a       *)
(* message; and since the last gap a retransmission adds no frame that      *)
(* overlaps one that was taken before (_framing.py:386-414, 436-464).       *)
FramesTile ==
    \A j \in 1..Len(frames), k \in 1..Len(frames) :
        LET f == frames[j]
            g == frames[k]
        IN  j < k /\ ~f.again /\ f.base = g.base =>
                IF g.again THEN g.end <= f.start \/ f.end <= g.start
                ELSE /\ f.end <= g.start
                     /\ \/ f.end = g.start \/ ~IsLength(Cell(f.end))
                        \/ \E n \in j + 1..k - 1 : ~frames[n].again

(* An event passes the filter a second time only after the filter has had   *)
(* to forget it (_engine.py:318).                                           *)
RepeatsForgotten ==
    \A j \in 1..Len(emitted), k \in 1..Len(emitted) :
        j < k /\ emitted[j] = emitted[k] =>
            Cardinality({emitted[n] : n \in j + 1..k - 1}) >= HistoryLimit
=============================================================================
