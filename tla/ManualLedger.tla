------------------------------ MODULE ManualLedger ------------------------------
(***************************************************************************)
(* _ManualDecrementLedger of _origin/manual.py.  A storage wrapper (one or *)
(* more records put into a storage at once) was made by hand if a          *)
(* calibrated decrement of the inventory went before it in its stream.     *)
(* The ledger keeps the decrements of the last seconds, within limits, and *)
(* gives one of them to a wrapper only where no other explains it as well. *)
(* One flow is modelled; the others prune the ledger, and fill its totals. *)
(* Frames are seen by the tap before the wrappers among them are decoded.  *)
(***************************************************************************)
EXTENDS Integers, FiniteSets, Sequences

CONSTANTS
    Decrements,     \* messages: [specs: what is calibrated of them, records]
    Wrappers,       \* storage wrappers: sequences of [quantity, instance]
    PerFlow,        \* the limit of candidates of one flow
    Stale,          \* STALE_SECONDS
    Immediate,      \* MANUAL_IMMEDIATE_SUCCESSORS
    MaxFrames, MaxTime, MaxFaults, MaxDecode,   \* bounds: frames, clock, faults, wrappers in a piece
    None

ManualConstants ==
    {PerFlow, Stale, Immediate, MaxFrames, MaxTime, MaxFaults, MaxDecode} \subseteq Nat

VARIABLES
    stream,      \* the flow: generation, next position, frames sent,
                 \*   wrappers that are not decoded yet
    candidates,  \* the ledger
    mark,        \* of the flow: its active generation (0 for none), frontier,
                 \*   reset floor, latest timestamp, suppressed until (-1 for not)
    clock,       \* capture time
    dropped,     \* history: decrements that a limit kept out of the ledger
    claims,      \* history: which decrement was the best one for which wrapper
    budget       \* the bounds, what is left of them

vars == <<stream, candidates, mark, clock, dropped, claims, budget>>

Unmarked(g) == [gen |-> g, frontier |-> 0, floor |-> 0, latest |-> 0, until |-> -1]

Init ==
    /\ stream = [gen |-> 1, next |-> 1, sent |-> {}, decode |-> <<>>]
    /\ candidates = {}
    /\ mark = Unmarked(0)
    /\ clock = 0 /\ dropped = {} /\ claims = {}
    /\ budget = [frames |-> MaxFrames, faults |-> MaxFaults]

Larger(a, b) == IF b > a THEN b ELSE a
Active(g) == g >= mark.gen

(* _activate_manual_generation: a later generation forgets the flow.        *)
Activated(g) == IF mark.gen = g THEN mark ELSE Unmarked(g)
CurrentOnly(g) == IF mark.gen \in {0, g} THEN candidates ELSE {}

(* _prune: what is stale by the timestamp of the moment.                    *)
Fresh(set, now) == {c \in set : now - c.time <= Stale}
Unexpired(k, now) ==
    IF Larger(k.latest, now) > k.until THEN [k EXCEPT !.until = -1] ELSE k

-----------------------------------------------------------------------------
(* _manual_candidate_record_matches: the records of a decrement that agree  *)
(* with one record of the wrapper, the strongest of them.  0: the instance  *)
(* is the destination's; 1: an instance; 2: a quantity alone, near enough.  *)
Positions(spec, d, wrapper, i) ==
    IF \/ spec = "repeat"
       \/ spec = "anchored" /\ wrapper[i].instance # None
              /\ Len(wrapper) > 1 /\ Len(d.records) = Len(wrapper)
    THEN DOMAIN d.records ELSE {1}

Near(d, seq) == Cardinality({s \in d.successors : s < seq}) < Immediate

RankOf(spec, d, wrapper, i, p, seq) ==
    LET source == d.records[p].instance
    IN  IF d.records[p].quantity # wrapper[i].quantity THEN None
        ELSE IF spec = "quantity" THEN IF Near(d, seq) THEN 2 ELSE None
        ELSE IF source = "empty" THEN None
        ELSE IF source = wrapper[i].instance THEN 0
        ELSE IF (spec = "anchored" /\ p > 1) \/ source = "weak" THEN None ELSE 1

Choices(d, wrapper, i, seq) ==
    LET all == UNION {{[at |-> <<p, spec = "quantity">>, rank |-> RankOf(spec, d, wrapper, i, p, seq)] :
                          p \in Positions(spec, d, wrapper, i)} : spec \in d.specs}
        matches == {m \in all : m.rank # None}
    IN  {m \in matches : \A n \in matches : m.rank <= n.rank}

(* _manual_candidate_group_match: strength first, then how many records.    *)
Compatible(d, wrapper, seq) == {i \in DOMAIN wrapper : Choices(d, wrapper, i, seq) # {}}
RecordRank(d, wrapper, i, seq) == (CHOOSE m \in Choices(d, wrapper, i, seq) : TRUE).rank
Score(d, wrapper, seq) ==
    LET ranks == [i \in Compatible(d, wrapper, seq) |-> RecordRank(d, wrapper, i, seq)]
        best == CHOOSE r \in 0..2 :
                    /\ \E i \in DOMAIN ranks : ranks[i] = r
                    /\ \A i \in DOMAIN ranks : r <= ranks[i]
    IN  <<best, -Cardinality({i \in DOMAIN ranks : ranks[i] = best}), -Cardinality(DOMAIN ranks)>>
NoWorse(a, b) ==
    \/ a[1] < b[1]
    \/ a[1] = b[1] /\ (a[2] < b[2] \/ (a[2] = b[2] /\ a[3] <= b[3]))

(* One source record cannot prove two records of the wrapper.               *)
ProvenRecords(d, wrapper, seq) ==
    LET single == {i \in DOMAIN wrapper : Cardinality(Choices(d, wrapper, i, seq)) = 1}
        At(i) == (CHOOSE m \in Choices(d, wrapper, i, seq) : TRUE).at
    IN  {i \in single : \A j \in single : At(i) = At(j) => i = j}

Explains(d, op) ==
    /\ d.gen = op.gen /\ d.start < op.seq
    /\ op.time - d.time <= Stale
    /\ Compatible(d, op.wrapper, op.seq) # {}

-----------------------------------------------------------------------------
Suppressed(k, now) ==
    [k EXCEPT !.until = Larger(@, Larger(k.latest, now) + Stale)]
IsSuppressed(k) == k.latest <= k.until

AtLimit(set) == Cardinality(set) >= PerFlow

Succeeded(set, start) ==
    {IF c.start < start /\ Cardinality(c.successors) < Immediate
     THEN [c EXCEPT !.successors = @ \cup {start}] ELSE c : c \in set}

(* A frame before the frontier, or before the end of a gap, is a            *)
(* retransmission: it brings no decrement back.                             *)
IsNew(k, start) == start >= k.floor /\ start >= k.frontier

(* _observe_manual_frame; message is None where nothing is calibrated.      *)
ObserveFrame(g, start, now, message, full) ==
    LET k == [Activated(g) EXCEPT !.latest = Larger(@, now)]
        kept == Succeeded(CurrentOnly(g), start)
        k2 == [k EXCEPT !.frontier = Larger(@, start + 1)]
        k3 == Unexpired(k2, now)
        fresh == Fresh(kept, now)
        d == [gen |-> g, start |-> start, time |-> now, specs |-> message.specs,
              records |-> message.records, successors |-> {}, reserved |-> FALSE]
    IN  \/ /\ ~IsNew(k, start)
           /\ mark' = k /\ candidates' = CurrentOnly(g)
           /\ UNCHANGED dropped
        \/ /\ IsNew(k, start) /\ message = None
           /\ mark' = k2 /\ candidates' = kept
           /\ dropped' = Succeeded(dropped, start)
        \/ /\ IsNew(k, start) /\ message # None
           /\ IF IsSuppressed(k3) \/ AtLimit(fresh) \/ full
              THEN /\ mark' = Suppressed(k3, now) /\ candidates' = fresh
                   /\ dropped' = Succeeded(dropped, start) \cup {d}
              ELSE /\ mark' = k3 /\ candidates' = fresh \cup {d}
                   /\ dropped' = Succeeded(dropped, start)

(* Every best one is reserved, so that none is unique for a later wrapper.  *)
Reserve(best) == best

(* _reserve_matching_decrement.                                             *)
Match(op) ==
    LET k == Unexpired([Activated(op.gen) EXCEPT !.latest = Larger(@, op.time)], op.time)
        fresh == Fresh(CurrentOnly(op.gen), op.time)
        able == {c \in fresh : ~c.reserved /\ Explains(c, op)}
        score(c) == Score(c, op.wrapper, op.seq)
        best == {c \in able : \A e \in able : NoWorse(score(c), score(e))}
        rivals == {d \in dropped : /\ Explains(d, op) /\ clock - d.time <= Stale
                                   /\ \A c \in best : NoWorse(score(d), score(c))}
        open == ~IsSuppressed(k)
    IN  /\ mark' = k
        /\ candidates' =
              {IF open /\ c \in Reserve(best) THEN [c EXCEPT !.reserved = TRUE] ELSE c : c \in fresh}
        /\ claims' = IF open
                     THEN claims \cup
                          {[gen |-> c.gen, start |-> c.start, by |-> op.seq,
                            rivals |-> rivals # {},
                            won |-> Cardinality(best) = 1
                                    /\ ProvenRecords(c, op.wrapper, op.seq) # {}] : c \in best}
                     ELSE claims

-----------------------------------------------------------------------------
(* The stream.  A frame has the time of its piece, which may be earlier     *)
(* than that of a frame before it, when that one was sent again.            *)
Times == {t \in {clock, clock - 1} : t >= 0}
Sends == budget.frames > 0
Sent(n) == budget' = [frames |-> budget.frames - 1, faults |-> budget.faults - n]
Fault == budget.faults > 0

Decrement ==
    /\ Sends
    /\ \E message \in Decrements, now \in Times :
          /\ \/ ObserveFrame(stream.gen, stream.next, now, message, FALSE) /\ Sent(0)
             \/ ObserveFrame(stream.gen, stream.next, now, message, TRUE) /\ Fault /\ Sent(1)
          /\ stream' = [stream EXCEPT !.next = @ + 1,
                                      !.sent = @ \cup {[at |-> stream.next, message |-> message]}]
    /\ UNCHANGED <<clock, claims>>

OtherFrame ==
    /\ Sends
    /\ \E now \in Times : ObserveFrame(stream.gen, stream.next, now, None, FALSE)
    /\ stream' = [stream EXCEPT !.next = @ + 1]
    /\ Sent(0)
    /\ UNCHANGED <<clock, claims>>

WrapperFrame ==
    /\ Sends /\ Len(stream.decode) < MaxDecode
    /\ \E wrapper \in Wrappers, now \in Times :
          /\ ObserveFrame(stream.gen, stream.next, now, None, FALSE)
          /\ stream' = [stream EXCEPT
                           !.next = @ + 1,
                           !.decode = Append(@, [gen |-> stream.gen, time |-> now,
                                                 seq |-> stream.next, wrapper |-> wrapper])]
    /\ Sent(0)
    /\ UNCHANGED <<clock, claims>>

(* A frame found again in a piece that was sent again.                      *)
Retransmitted ==
    /\ Fault /\ budget' = [budget EXCEPT !.faults = @ - 1]
    /\ \E s \in stream.sent : ObserveFrame(stream.gen, s.at, clock, s.message, FALSE)
    /\ UNCHANGED <<stream, clock, claims>>

(* register, for a wrapper that has been decoded.                           *)
Register ==
    /\ stream.decode # <<>>
    /\ LET op == Head(stream.decode)
       IN  IF Active(op.gen) THEN Match(op) ELSE UNCHANGED <<candidates, mark, claims>>
    /\ stream' = [stream EXCEPT !.decode = Tail(@)]
    /\ UNCHANGED <<clock, dropped, budget>>

(* reset: a gap was given up; what came before it proves nothing.           *)
GapReset ==
    /\ Fault /\ Sends /\ Sent(1)
    /\ stream' = [stream EXCEPT !.next = @ + 1]
    /\ mark.gen \in {0, stream.gen}
    /\ mark' = [Unmarked(stream.gen) EXCEPT !.floor = stream.next + 1, !.frontier = stream.next + 1]
    /\ candidates' = {} /\ dropped' = {}
    /\ UNCHANGED <<clock, claims>>

(* A new connection, with or without the close of the one before it         *)
(* (_purge_manual_flow).                                                    *)
Reopen ==
    /\ Fault /\ budget' = [budget EXCEPT !.faults = @ - 1]
    /\ stream' = [stream EXCEPT !.gen = @ + 1, !.next = 1, !.sent = {}]
    /\ \/ UNCHANGED <<mark, candidates>>
       \/ mark' = Unmarked(0) /\ candidates' = {}
    /\ UNCHANGED <<clock, dropped, claims>>

(* flush_stale, or another flow's frame.                                    *)
Flush ==
    /\ candidates' = Fresh(candidates, clock)
    /\ mark' = Unexpired(mark, clock)
    /\ UNCHANGED <<stream, clock, dropped, claims, budget>>

Tick == clock < MaxTime /\ clock' = clock + 1
        /\ UNCHANGED <<stream, candidates, mark, dropped, claims, budget>>

Next ==
    \/ Decrement \/ OtherFrame \/ WrapperFrame \/ Retransmitted
    \/ Register \/ GapReset \/ Reopen \/ Flush \/ Tick

Spec == Init /\ [][Next]_vars

-----------------------------------------------------------------------------
(* The limits never make a decrement the only one that explains a wrapper:  *)
(* none that they kept out would have explained it as well                  *)
(* (_origin/manual.py:118-123).                                             *)
NoFalseUniqueness == \A c \in claims : c.won => ~c.rivals

=============================================================================
