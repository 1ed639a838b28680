---------------------------- MODULE SolareEvidence ----------------------------
(***************************************************************************)
(* solare/_live_tracker.py over solare/_discovery.py: the frames that may  *)
(* belong to a leaderboard are retained within a limit, searched at        *)
(* milestones and when the traffic falls silent, and latched when a class  *)
(* table and the overall table that follows it prove each other; then      *)
(* _result.py publishes them, if the capture lost nothing.                 *)
(*                                                                         *)
(* The server sends responses of a known number of frames; opcodes and     *)
(* layouts are unknown, so a family is all that tells two tables apart.  A *)
(* frame stands for its rows, and a row for its rank; "full" and "old" are *)
(* class tables of the two rosters (SOLARE_CLASS_ROSTERS), "unknown" one   *)
(* with a class the toolkit has no name for.                               *)
(***************************************************************************)
EXTENDS Integers, FiniteSets, Sequences, SequencesExt

CONSTANTS
    Size,           \* number of frames of a response
    Retention,      \* DISCOVERY_RETENTION_MAX_FRAMES
    LowWater,       \* what _make_room_for leaves, the new frame included
    MaxSent,        \* bound: frames sent
    MaxFaults,      \* bound: frames lost, connections replaced
    None

Responses == {"full", "old", "unknown", "overall"}
EvidenceConstants ==
    /\ Size \in [Responses -> Nat \ {0}] /\ Size["old"] < Size["full"]
    /\ {Retention, LowWater, MaxSent, MaxFaults} \subseteq Nat
    /\ Size["full"] + Size["overall"] <= LowWater /\ LowWater < Retention

VARIABLES
    server,     \* what was sent last: kind, number and frame of the response
    sent,       \* bound; also the position in the stream
    faults,     \* bound
    generation, \* flow_generation
    clean,      \* capture_is_clean
    tracker,    \* LiveSolareDiscoveryTracker
    recent      \* history: the last frames that were observed

vars == <<server, sent, faults, generation, clean, tracker, recent>>

Family(kind) == IF kind \in {"full", "old"} THEN "class" ELSE kind

Init ==
    /\ \E kind \in Responses :
          \E row \in 1..Size[kind] : server = [kind |-> kind, row |-> row, number |-> 0]
    /\ sent = 0 /\ faults = 0 /\ generation = 1 /\ clean = TRUE
    /\ tracker = [frames |-> <<>>, resets |-> {}, confirmed |-> None, best |-> 0,
                  dirty |-> FALSE, finalized |-> TRUE]
    /\ recent = <<>>

-----------------------------------------------------------------------------
(* Discovery.  Families are kept apart by flow generation; a window starts  *)
(* where the ranks start again.                                             *)
Key(f) == <<f.generation, Family(f.kind)>>
Keys(frames) == {Key(f) : f \in ToSet(frames)}
Group(frames, key) == SelectSeq(frames, LAMBDA f : Key(f) = key)

RankResets(group) ==
    {i \in DOMAIN group : group[i].row = 1}

(* The analysis cache remembers the resets of a group by the identities of  *)
(* its frames, which are those of objects that may be gone.                 *)
Identities(group) == [i \in DOMAIN group |-> group[i].slot]
Cached(t, key) ==
    {c \in t.resets : c.key = key /\ c.of = Identities(Group(t.frames, key))}
Resets(t, key) ==
    IF Cached(t, key) # {} THEN (CHOOSE c \in Cached(t, key) : TRUE).starts
    ELSE RankResets(Group(t.frames, key))

WindowAt(group, starts, start, count) ==
    LET next == {i \in starts : i > start}
        stop == IF next = {} THEN Len(group) + 1 ELSE Min(next)
    IN  SubSeq(group, start, Min({start + count, stop}) - 1)
Windows(t, key, count) ==
    {WindowAt(Group(t.frames, key), Resets(t, key), start, count) : start \in Resets(t, key)}

Whole(window, count) ==
    Len(window) = count /\ \A i \in 1..count : window[i].row = i

After(t, window) == {f \in ToSet(t.frames) : f.at > window[Len(window)].at}
NextInGroup(t, window) ==
    {f \in After(t, window) : Key(f) = Key(window[1]) /\
        \A g \in After(t, window) : Key(g) = Key(f) => f.at <= g.at}

(* A class table of the old roster may be the beginning of a newer one.     *)
OldRosterEnds(t, window, trailing) ==
    IF NextInGroup(t, window) # {}
    THEN \A f \in NextInGroup(t, window) : f.row = 1
    ELSE trailing \/ \E f \in After(t, window) : Key(f) # Key(window[1])

RichTables(t, trailing) ==
    {w \in UNION {Windows(t, key, Size[kind]) : key \in Keys(t.frames), kind \in {"old", "full"}} :
        /\ Family(w[1].kind) = "class"
        /\ \/ Whole(w, Size["full"])
           \/ Whole(w, Size["old"]) /\ OldRosterEnds(t, w, trailing)}

RankedTables(t) ==
    {w \in UNION {Windows(t, key, Size["full"]) : key \in Keys(t.frames)} :
        Len(w) > 1}

LooksLikeClassTable(w) == Family(w[1].kind) = "class"

(* The first frames of a longer table are not the overall table.            *)
ClosedAtOnce(t, window, trailing) == TRUE
Closed(t, window, trailing) ==
    IF NextInGroup(t, window) # {}
    THEN \A f \in NextInGroup(t, window) : f.row = 1
    ELSE trailing

OverallTables(t, rich, trailing) ==
    {w \in UNION {Windows(t, key, Size["overall"]) : key \in Keys(t.frames) \ {Key(rich[1])}} :
        /\ Whole(w, Size["overall"])
        /\ w[1].generation = rich[1].generation
        /\ w[1].at > rich[Len(rich)].at
        /\ ~LooksLikeClassTable(w)
        /\ Closed(t, w, trailing)}

Pairs(t, trailing) ==
    {[rich |-> r, overall |-> o] : r \in RichTables(t, trailing),
        o \in UNION {OverallTables(t, x, trailing) : x \in RichTables(t, trailing)}}
CompletePairs(t, trailing) ==
    {p \in Pairs(t, trailing) : p.overall \in OverallTables(t, p.rich, trailing)}
Completion(p) == p.overall[Len(p.overall)].at
Earliest(pairs) ==
    CHOOSE p \in pairs : \A q \in pairs :
        \/ Completion(p) < Completion(q)
        \/ Completion(p) = Completion(q) /\ p.rich[1].at <= q.rich[1].at

(* _discovery_score of what is not a complete pair.                         *)
Score(t, trailing) ==
    IF RichTables(t, trailing) # {} THEN 10
    ELSE Max({0} \cup {Len(w) : w \in RankedTables(t)})

-----------------------------------------------------------------------------
(* The tracker.                                                             *)
Learned(t) ==
    t.resets \cup {[key |-> key, of |-> Identities(Group(t.frames, key)),
                    starts |-> Resets(t, key)] : key \in Keys(t.frames)}

BestSoFar(t, score) == Max({t.best, score})

Refresh(t, trailing) ==
    IF t.confirmed # None \/ (~t.dirty /\ (~trailing \/ t.finalized)) THEN t
    ELSE IF CompletePairs(t, trailing) = {}
    THEN [t EXCEPT !.resets = Learned(t), !.best = BestSoFar(t, Score(t, trailing)),
                   !.dirty = FALSE, !.finalized = trailing]
    ELSE LET pair == Earliest(CompletePairs(t, trailing))
         IN  [t EXCEPT !.confirmed = pair, !.frames = pair.rich \o pair.overall,
                       !.resets = {}, !.best = 11, !.dirty = FALSE, !.finalized = trailing]

(* _make_room_for: the whole window is evaluated, the cache is dropped, the *)
(* oldest frames go.                                                        *)
Full(t) == Len(t.frames) >= Retention
Evict(t) ==
    [t EXCEPT !.resets = {}, !.frames = SubSeq(@, Len(@) - LowWater + 2, Len(@))]

FreeSlot(t) == Min(1..(Retention + 1) \ {f.slot : f \in ToSet(t.frames)})
Kept(t, f) ==
    [t EXCEPT !.frames = Append(@, [f EXCEPT !.slot = FreeSlot(t)]),
              !.dirty = TRUE, !.finalized = FALSE]

Milestone(t, f) == f.row \in {Size["overall"], Size["old"], Size["full"]}

LookFirst(t) == Refresh(t, FALSE)

ObserveFrame(t, f) ==
    IF t.confirmed # None THEN t
    ELSE IF Full(t)
    THEN LET looked == LookFirst(t)
         IN  IF looked.confirmed # None THEN looked ELSE Kept(Evict(looked), f)
    ELSE LET kept == Kept(t, f)
         IN  IF Milestone(kept, f) THEN Refresh(kept, FALSE) ELSE kept

(* The next frame is captured, or lost.                                     *)
Advance ==
    IF server.row < Size[server.kind]
    THEN server' = [server EXCEPT !.row = @ + 1]
    ELSE \E kind \in Responses :
            server' = [kind |-> kind, row |-> 1, number |-> server.number + 1]
Frame(s) == [generation |-> generation, kind |-> s.kind, row |-> s.row,
             response |-> s.number, at |-> sent, slot |-> 0]

Deliver ==
    /\ tracker.confirmed = None /\ sent < MaxSent /\ sent' = sent + 1
    /\ Advance
    /\ tracker' = ObserveFrame(tracker, Frame(server'))
    /\ recent' = Append(IF Len(recent) < LowWater THEN recent ELSE Tail(recent), Frame(server'))
    /\ UNCHANGED <<faults, generation, clean>>

Lose ==
    /\ tracker.confirmed = None /\ sent < MaxSent /\ faults < MaxFaults
    /\ sent' = sent + 1 /\ faults' = faults + 1
    /\ Advance
    /\ clean' = FALSE
    /\ UNCHANGED <<generation, tracker, recent>>

(* Only a table with an unknown class is taken to arrive in one go: without *)
(* an end and without a class it can be told from the overall table only by *)
(* the frame that follows.                                                  *)
UnknownHalfSent == server.kind = "unknown" /\ server.row < Size["unknown"]

(* The connection is replaced; what was being sent is sent no further.      *)
Reconnect ==
    /\ tracker.confirmed = None
    /\ faults < MaxFaults /\ faults' = faults + 1 /\ generation' = generation + 1
    /\ ~UnknownHalfSent
    /\ server' = [server EXCEPT !.row = Size[server.kind]]
    /\ UNCHANGED <<sent, clean, tracker, recent>>

(* service_candidate_idle: the candidates have been silent.                 *)
Idle ==
    /\ tracker.confirmed = None /\ ~tracker.finalized
    /\ ~UnknownHalfSent
    /\ tracker' = Refresh(tracker, TRUE)
    /\ UNCHANGED <<server, sent, faults, generation, clean, recent>>

Next == Deliver \/ Lose \/ Reconnect \/ Idle
Spec == Init /\ [][Next]_vars

(* build_solare_result: no snapshot from a capture that lost something.     *)
Published == tracker.confirmed # None /\ clean

-----------------------------------------------------------------------------
(* A published leaderboard is one class table and one overall table, each   *)
(* whole and of one response, the overall table the later of the two, on    *)
(* one connection; never the beginning of a longer table, two refreshes     *)
(* joined, or a table of something else (_discovery.py:813, 1127-1169).     *)
OneResponse(w) ==
    /\ \A f \in ToSet(w) : f.response = w[1].response
    /\ Len(w) = Size[w[1].kind]
PublishedWhole ==
    Published =>
        LET p == tracker.confirmed
        IN  /\ OneResponse(p.rich) /\ p.rich[1].kind \in {"full", "old"}
            /\ OneResponse(p.overall) /\ p.overall[1].kind = "overall"
            /\ p.rich[1].response < p.overall[1].response
            /\ p.rich[1].generation = p.overall[1].generation

(* When the traffic falls silent, a class table and the overall table that  *)
(* follows it, both captured whole and not long ago, have been recognised,  *)
(* whatever was evicted to make room and whatever the cache remembers       *)
(* (_live_tracker.py:324-382, _discovery.py:868).                           *)
AllOf(number, kind) ==
    Cardinality({f \in ToSet(recent) : f.response = number}) = Size[kind]
NothingMissed ==
    tracker.finalized /\ tracker.confirmed = None /\ clean =>
        ~\E c, o \in ToSet(recent) :
            /\ c.kind \in {"full", "old"} /\ AllOf(c.response, c.kind)
            /\ o.kind = "overall" /\ AllOf(o.response, o.kind)
            /\ c.response < o.response /\ c.generation = o.generation

(* What the result says of an incomplete leaderboard never gets worse, even *)
(* when the frames it rests on are evicted (_live_tracker.py:292-301).      *)
NeverWorse == tracker'.best >= tracker.best
=============================================================================
