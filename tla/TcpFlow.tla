------------------------------- MODULE TcpFlow -------------------------------
(***************************************************************************)
(* One server-to-client TCP flow of the capture pipeline: TCPFlowState in  *)
(* _reassembly.py.  Segments arrive lost, duplicated, overlapping and out  *)
(* of order; the flow feeds its scanner the longest contiguous prefix it   *)
(* can, holds what is ahead of a hole, and jumps over the hole when it has *)
(* waited GapReset, when the buffer is over its limits, or at the end of   *)
(* the capture.                                                            *)
(*                                                                         *)
(* A byte is its position in the stream, 0..StreamLen-1; on the wire       *)
(* position p has sequence number (ISN + p) % M.  The code's loops run     *)
(* under FlowManager's lock; each iteration is one step here, and `pc`     *)
(* says which loop is running, so nothing else happens until it is done.   *)
(***************************************************************************)
EXTENDS Integers, Sequences, FiniteSets, FiniteSetsExt, SequencesExt

CONSTANTS
    M,             \* TCP_SEQUENCE_MODULUS
    ISN,           \* wire number of position 0
    StreamLen,     \* bytes the server sends before its FIN
    MaxSegment,    \* longest payload
    Flows,         \* the settings a flow may be created with (see Settings)
    GapReset,      \* GAP_RESET_SECONDS, in ticks
    Grace,         \* _INITIAL_REORDER_GRACE_SECONDS, in ticks
    MaxPackets,    \* bound: payload packets captured
    MaxClock,      \* bound: packets arrive up to this time
    Horizon,       \* bound: the clock stops here
    None

(***************************************************************************)
(* The fields of a TCPFlowState that FlowManager sets once:                *)
(* max_pending_segments, max_pending_bytes (or None), and                  *)
(* defer_gap_timeouts, which every owner sets exactly for live captures.   *)
(***************************************************************************)
Settings == [segments : Nat \ {0}, bytes : (Nat \ {0}) \cup {None}, defer : BOOLEAN]

FlowConstants ==
    /\ M \in Nat \ {0} /\ M % 2 = 0
    /\ ISN \in 0..M-1
    /\ StreamLen \in Nat \ {0} /\ 2 * StreamLen < M
    /\ MaxSegment \in 1..StreamLen
    /\ None \notin Int
    /\ Flows \subseteq Settings
    /\ GapReset \in Nat \ {0} /\ Grace \in Nat
    /\ MaxPackets \in Nat /\ MaxClock \in Nat /\ Horizon \in Nat

ASSUME TcpFlowAssumption == FlowConstants

VARIABLES
    settings,      \* the flow's settings
    next,          \* next_sequence: absolute number, or None
    pending,       \* pending: segments ahead of next, one per sequence
    unanchored,    \* unanchored: segments kept while the origin is unknown
    reference,     \* first key of the unanchored dict
    unanchoredAt,  \* unanchored_started_at
    gap,           \* gap_started_at
    fin, finAt,    \* fin_sequence, fin_observed_at
    pc,            \* which loop of the code is running
    call,          \* the public operation it runs for
    todo,          \* what _commit_unanchored has still to add
    now,           \* the clock argument of the service_gaps call running
    clock, packets,
    nextPos,       \* history: the stream position `next` stands for
    received,      \* history: positions captured so far
    fed,           \* history: positions fed to the scanner, in order
    rescanned,     \* history: positions given to scan_standalone
    skipped        \* history: positions jumped over by scanner resets

code == <<next, pending, unanchored, reference, unanchoredAt, gap, fin, finAt>>
control == <<pc, call, todo, now>>
env == <<settings, clock, packets>>
history == <<nextPos, received, fed, rescanned, skipped>>
vars == <<code, control, env, history>>

Segment == [seq : Int, len : 1..StreamLen, pos : 0..StreamLen, ts : Nat]

End(s) == s.seq + s.len
Bytes(s) == s.pos .. s.pos + s.len - 1
BytesOf(S) == UNION {Bytes(s) : s \in S}

(***************************************************************************)
(* An operator whose name ends in a fault (UnwrapWithoutHalfRange, ...) is *)
(* a plausible bug of the definition that follows it.  No action uses it:  *)
(* it shows that a property tells the code from the bug.                   *)
(***************************************************************************)
UnwrapWithoutHalfRange(sequence, ref) == ref - (ref % M) + (sequence % M)

(***************************************************************************)
(* _unwrap_tcp_sequence: the absolute number nearest to the reference.     *)
(***************************************************************************)
Unwrap(sequence, ref) ==
    LET candidate == ref - (ref % M) + (sequence % M)
    IN  IF candidate - ref > M \div 2 THEN candidate - M
        ELSE IF ref - candidate > M \div 2 THEN candidate + M
        ELSE candidate

Wire(pos) == (ISN + pos) % M

(***************************************************************************)
(* The dicts `pending` and `unanchored` keep one segment per sequence; a   *)
(* longer copy replaces a shorter one.                                     *)
(***************************************************************************)
Put(S, s) ==
    IF \E p \in S : p.seq = s.seq /\ p.len >= s.len THEN S
    ELSE {p \in S : p.seq # s.seq} \cup {s}

CapacityExceeded(S) ==
    \/ Cardinality(S) > settings.segments
    \/ settings.bytes # None /\ MapThenSumSet(LAMBDA s : s.len, S) > settings.bytes

(* Where _flush_pending stops when it starts at n: the least point that no *)
(* held segment reaches or crosses.                                        *)
FlushPoint(S, n) ==
    Min({m \in {n} \cup {End(s) : s \in S} :
            m >= n /\ \A s \in S : s.seq <= m => End(s) <= m})

(* The stream position of the byte that the segments S hold at number a.   *)
ByteAt(S, a) ==
    LET s == CHOOSE s \in S : s.seq <= a /\ a < End(s)
    IN  s.pos + (a - s.seq)

(* The gap timer _flush_pending leaves for the segments still held.        *)
Oldest(S) == IF S = {} THEN None ELSE Min({s.ts : s \in S})

(***************************************************************************)
(* _deliver of the segment at n followed by _flush_pending.                *)
(***************************************************************************)
DeliverAndFlush(held, n) ==
    LET reach == FlushPoint(held, n)
        bytes == [i \in 1..reach - n |-> ByteAt(held, n + i - 1)]
        left == {s \in held : s.seq > reach}
    IN  /\ next' = reach
        /\ nextPos' = bytes[reach - n] + 1
        /\ fed' = fed \o bytes
        /\ pending' = left
        /\ gap' = Oldest(left)

ResumeAtLatest ==
    LET last == CHOOSE s \in pending : \A t \in pending : s.seq >= t.seq
    IN  /\ skipped' = skipped \cup nextPos .. last.pos - 1
        /\ DeliverAndFlush(pending, last.seq)

(* _resume_after_gap: reset the scanner and restart at the earliest held   *)
(* segment.                                                                *)
ResumeAfterGap ==
    LET first == CHOOSE s \in pending : \A t \in pending : s.seq <= t.seq
    IN  /\ skipped' = skipped \cup nextPos .. first.pos - 1
        /\ DeliverAndFlush(pending, first.seq)

FinAbsolute == Unwrap(fin, next)

FinIsReassembled ==
    /\ fin # None /\ next # None /\ unanchored = {} /\ pending = {}
    /\ next >= FinAbsolute

(* _start_fin_gap_timer_if_needed: the timer value it leaves.              *)
FinTimer(finish, at, started) ==
    IF /\ finish # None /\ next # None /\ unanchored = {} /\ pending = {}
       /\ next < Unwrap(finish, next) /\ started = None
    THEN at ELSE started

(* _resume_after_fin_gap.                                                  *)
ResumeAfterFinGap ==
    IF fin # None /\ next # None /\ next < FinAbsolute
    THEN /\ skipped' = skipped \cup nextPos .. nextPos + (FinAbsolute - next) - 1
         /\ next' = FinAbsolute
         /\ nextPos' = nextPos + (FinAbsolute - next)
         /\ gap' = None
    ELSE UNCHANGED <<skipped, next, nextPos, gap>>

(* payload[overlap:]                                                       *)
Trim(s, old) == [s EXCEPT !.seq = @ + old, !.pos = @ + old, !.len = @ - old]

(***************************************************************************)
(* _add_anchored_segment.  `rescan` is scan_retransmission; the segment's  *)
(* sequence may be a wire number or already absolute.                      *)
(***************************************************************************)
AddAnchored(s, rescan) ==
    LET at == Unwrap(s.seq, next)
        old == IF at >= next THEN 0 ELSE Min({next - at, s.len})
        rest == Trim([s EXCEPT !.seq = at], old)
        held == Put(pending, rest)
    IN  /\ rescanned' = IF rescan THEN rescanned \cup s.pos .. s.pos + old - 1
                        ELSE rescanned
        /\ \/ /\ rest.len = 0
              /\ pc' = "commit"
              /\ UNCHANGED <<next, pending, gap, nextPos, fed>>
           \/ /\ rest.len > 0 /\ rest.seq > next
              /\ pending' = held
              /\ gap' = IF gap = None THEN s.ts ELSE gap
              /\ pc' = IF CapacityExceeded(held) THEN "capacity"
                       ELSE IF settings.defer THEN "commit" ELSE "timeout"
              /\ UNCHANGED <<next, nextPos, fed>>
           \/ /\ rest.len > 0 /\ rest.seq = next
              /\ DeliverAndFlush(pending \cup {rest}, next)
              /\ pc' = "commit"

(* sorted() of segments whose numbers are distinct.                        *)
Sorted(S) ==
    CHOOSE q \in [1..Cardinality(S) -> S] :
        \A i, j \in 1..Cardinality(S) : i < j => q[i].seq < q[j].seq

OrderedByWireNumber(S, ref) == Sorted(S)

(* _ordered_unanchored                                                     *)
Ordered(S, ref) ==
    LET absolute == {[s EXCEPT !.seq = Unwrap(@, ref)] : s \in S}
        shift == IF \E s \in absolute : s.seq < 0 THEN M ELSE 0
    IN  Sorted({[s EXCEPT !.seq = @ + shift] : s \in absolute})

(* _commit_unanchored: fix the origin at the first segment.  The segments  *)
(* are then added one at a time by CommitNext.                             *)
StartCommit(S, ref) ==
    LET ordered == Ordered(S, ref)
    IN  /\ next' = Head(ordered).seq
        /\ nextPos' = Head(ordered).pos
        /\ todo' = ordered
        /\ pc' = "commit"
        /\ unanchored' = {} /\ reference' = None /\ unanchoredAt' = None

(* _add_unanchored_segment.  Whether can_anchor_at_start recognises a      *)
(* frame at the first byte depends on the payload: either answer.          *)
AddUnanchored(s) ==
    LET kept == Put(unanchored, s)
        ref == IF unanchored = {} THEN s.seq ELSE reference
    IN  \/ /\ StartCommit(kept, ref)
           /\ UNCHANGED <<pending, gap, fed>>
        \/ /\ ~CapacityExceeded(kept)
           /\ unanchored' = kept
           /\ reference' = ref
           /\ unanchoredAt' = IF unanchoredAt = None THEN s.ts ELSE unanchoredAt
           /\ pc' = "commit"
           /\ UNCHANGED <<next, pending, gap, todo, nextPos, fed>>

-----------------------------------------------------------------------------
Init ==
    /\ settings \in Flows
    /\ next = None /\ pending = {}
    /\ unanchored = {} /\ reference = None /\ unanchoredAt = None
    /\ gap = None /\ fin = None /\ finAt = None
    /\ pc = "idle" /\ call = "none" /\ todo = <<>> /\ now = 0
    /\ clock = 0 /\ packets = 0
    /\ nextPos = None /\ received = {} /\ fed = <<>>
    /\ rescanned = {} /\ skipped = {}

(* FlowManager takes its lock for one operation at a time, and a flow whose *)
(* FIN is reassembled is closed before the lock is released.                *)
Ready == pc = "idle" /\ ~FinIsReassembled

CanReceive == Ready /\ packets < MaxPackets /\ clock <= MaxClock

(* anchor_sequence: FlowManager calls it for a SYN, on a fresh state.       *)
AnchorSequence ==
    /\ CanReceive /\ next = None /\ unanchored = {} /\ fin = None
    /\ next' = Wire(0) /\ nextPos' = 0
    /\ UNCHANGED <<pending, unanchored, reference, unanchoredAt, gap, fin,
                   finAt, control, env, received, fed, rescanned, skipped>>

(* add_segment of a captured payload: any part of the stream, any order.    *)
AddSegment(pos, len) ==
    LET s == [seq |-> Wire(pos), len |-> len, pos |-> pos, ts |-> clock]
    IN  /\ CanReceive /\ pos + len <= StreamLen
        /\ received' = received \cup Bytes(s)
        /\ packets' = packets + 1
        /\ call' = "segment"
        /\ now' = clock
        /\ \/ /\ next = None
              /\ AddUnanchored(s)
              /\ UNCHANGED rescanned
           \/ /\ next # None
              /\ AddAnchored(s, TRUE)
              /\ UNCHANGED <<unanchored, reference, unanchoredAt, todo>>
        /\ UNCHANGED <<settings, fin, finAt, clock, skipped>>

(* mark_fin: a FIN for an unknown flow never reaches a TCPFlowState.        *)
MarkFin ==
    /\ CanReceive /\ (next # None \/ unanchored # {})
    /\ fin' = Wire(StreamLen)
    /\ finAt' = clock
    /\ gap' = FinTimer(fin', clock, gap)
    /\ packets' = packets + 1
    /\ UNCHANGED <<next, pending, unanchored, reference, unanchoredAt,
                   control, settings, clock, history>>

Elapsed(since, limit, at) == since # None /\ at - since >= limit

FinGapDue(at) ==
    /\ pending = {} /\ unanchored = {} /\ fin # None /\ next # None
    /\ Elapsed(FinTimer(fin, finAt, gap), GapReset, at)

GraceOver == unanchored # {} /\ Elapsed(unanchoredAt, Grace, clock)

(* service_gaps by a clock owner, which only a live capture has; a call     *)
(* with nothing due changes nothing.                                        *)
ServiceGaps ==
    /\ Ready /\ settings.defer
    /\ \/ GraceOver
       \/ pending # {} /\ Elapsed(gap, GapReset, clock)
       \/ FinTimer(fin, finAt, gap) # gap
       \/ FinGapDue(clock)
    /\ call' = "service"
    /\ now' = clock
    /\ \/ /\ GraceOver
          /\ StartCommit(unanchored, reference)
       \/ /\ ~GraceOver
          /\ pc' = "timeout"
          /\ UNCHANGED <<next, nextPos, todo, unanchored, reference, unanchoredAt>>
    /\ UNCHANGED <<pending, gap, fin, finAt, env, received, fed, rescanned, skipped>>

(* finish: FIN reassembled, RST, a new SYN, eviction, idleness or the end   *)
(* of the capture.                                                          *)
Finish ==
    /\ pc = "idle"
    /\ call' = "finish"
    /\ \/ /\ unanchored # {}
          /\ StartCommit(unanchored, reference)
       \/ /\ unanchored = {}
          /\ pc' = "drain"
          /\ UNCHANGED <<next, nextPos, todo, unanchored, reference, unanchoredAt>>
    /\ UNCHANGED <<pending, gap, fin, finAt, now, env, received, fed, rescanned, skipped>>

-----------------------------------------------------------------------------
loopUnchanged == <<unanchored, reference, unanchoredAt, fin, finAt, env, received>>

CommitNext ==
    /\ pc = "commit" /\ todo # <<>>
    /\ AddAnchored(Head(todo), FALSE)
    /\ todo' = Tail(todo)
    /\ now' = Head(todo).ts
    /\ UNCHANGED <<loopUnchanged, call, skipped>>

(* The commit, or the single segment, is done: return to the caller.        *)
CommitReturn ==
    /\ pc = "commit" /\ todo = <<>>
    /\ pc' = CASE call = "segment" -> "idle"
               [] call = "service" -> "timeout"
               [] call = "finish" -> "drain"
    /\ call' = IF call = "segment" THEN "none" ELSE call
    /\ now' = IF call = "service" THEN clock ELSE 0
    /\ UNCHANGED <<code, todo, env, history>>

ShedOnce ==
    /\ pc = "capacity"
    /\ ResumeAfterGap
    /\ pc' = "commit"
    /\ UNCHANGED <<loopUnchanged, call, todo, now, rescanned>>

(* The capacity loop of _add_anchored_segment.                              *)
ShedPending ==
    /\ pc = "capacity"
    /\ \/ /\ CapacityExceeded(pending)
          /\ ResumeAfterGap
          /\ UNCHANGED pc
       \/ /\ ~CapacityExceeded(pending)
          /\ pc' = "commit"
          /\ UNCHANGED <<next, pending, gap, nextPos, fed, skipped>>
    /\ UNCHANGED <<loopUnchanged, call, todo, now, rescanned>>

(* The gap loop of service_gaps.                                            *)
ExpireGap ==
    /\ pc = "timeout" /\ pending # {} /\ Elapsed(gap, GapReset, now)
    /\ ResumeAfterGap
    /\ UNCHANGED <<loopUnchanged, pc, call, todo, now, rescanned>>

(* The end of service_gaps: the FIN gap.                                    *)
ExpireFinGap ==
    /\ pc = "timeout" /\ ~(pending # {} /\ Elapsed(gap, GapReset, now))
    /\ \/ FinGapDue(now) /\ next < FinAbsolute /\ ResumeAfterFinGap
       \/ /\ ~(FinGapDue(now) /\ next < FinAbsolute)
          /\ gap' = FinTimer(fin, finAt, gap)
          /\ UNCHANGED <<next, nextPos, skipped>>
    /\ IF call = "service"
       THEN pc' = "idle" /\ call' = "none" /\ now' = 0
       ELSE pc' = "commit" /\ UNCHANGED <<call, now>>
    /\ UNCHANGED <<loopUnchanged, pending, todo, fed, rescanned>>

(* The loop and the tail of finish.                                         *)
DrainPending ==
    /\ pc = "drain" /\ pending # {}
    /\ ResumeAfterGap
    /\ UNCHANGED <<loopUnchanged, pc, call, todo, now, rescanned>>

DrainFinGap ==
    /\ pc = "drain" /\ pending = {}
    /\ ResumeAfterFinGap
    /\ pc' = "closed"
    /\ UNCHANGED <<loopUnchanged, pending, call, todo, now, fed, rescanned>>

Tick ==
    /\ Ready /\ clock < Horizon
    /\ clock' = clock + 1
    /\ UNCHANGED <<code, control, settings, packets, history>>

Closed == pc = "closed" /\ UNCHANGED vars

Loop == CommitNext \/ CommitReturn \/ ShedPending \/ ExpireGap
        \/ ExpireFinGap \/ DrainPending \/ DrainFinGap

Next ==
    \/ AnchorSequence
    \/ \E pos \in 0..StreamLen-1, len \in 1..MaxSegment : AddSegment(pos, len)
    \/ MarkFin
    \/ ServiceGaps
    \/ Finish
    \/ Loop
    \/ Tick
    \/ Closed

(* The clock runs, its owner services it, a loop under the lock ends, and   *)
(* FlowManager finishes a flow whose FIN is reassembled at once.            *)
Fairness ==
    /\ WF_vars(Loop)
    /\ WF_vars(Tick)
    /\ WF_vars(ServiceGaps)
    /\ WF_vars(FinIsReassembled /\ Finish)

Spec == Init /\ [][Next]_vars
LiveSpec == Spec /\ Fairness

-----------------------------------------------------------------------------
(***************************************************************************)
(* Properties.                                                             *)
(***************************************************************************)
MaybeNat == Nat \cup {None}

(* The state has its types: the fields of TCPFlowState, the loop state and  *)
(* the history.                                                             *)
TypeOK ==
    /\ settings \in Flows
    /\ next \in Int \cup {None}
    /\ pending \subseteq Segment
    /\ unanchored \subseteq Segment
    /\ reference \in Int \cup {None}
    /\ unanchoredAt \in MaybeNat /\ gap \in MaybeNat
    /\ fin \in MaybeNat /\ finAt \in MaybeNat
    /\ pc \in {"idle", "commit", "capacity", "timeout", "drain", "closed"}
    /\ call \in {"none", "segment", "service", "finish"}
    /\ todo \in Seq(Segment)
    /\ now \in Nat /\ clock \in Nat /\ packets \in Nat
    /\ nextPos \in MaybeNat
    /\ received \subseteq 0..StreamLen-1
    /\ fed \in Seq(0..StreamLen-1)
    /\ rescanned \subseteq 0..StreamLen-1
    /\ skipped \subseteq 0..StreamLen-1

Held == BytesOf(pending) \cup BytesOf(unanchored) \cup BytesOf(ToSet(todo))

(* Sequence numbers that wrap at M do not tear the stream: every segment    *)
(* still to deliver lies exactly as far from `next` in the code's numbers   *)
(* as in the stream (_unwrap_tcp_sequence, _ordered_unanchored); and the    *)
(* flow keeps its types.                                                    *)
NumbersAligned ==
    next # None =>
        /\ next % M = Wire(nextPos)
        /\ \A s \in pending : s.seq - next = s.pos - nextPos
        /\ \A s \in ToSet(todo) : Unwrap(s.seq, next) - next = s.pos - nextPos
Aligned == TypeOK /\ NumbersAligned

(* Between operations, what is held waits behind a real hole whose timer is *)
(* running, and the timer is never younger than all that is held, or than   *)
(* the FIN; and the buffers keep both limits, although one segment may      *)
(* exceed them alone and one restart may expose a further hole              *)
(* (gap_started_at, _flush_pending, _pending_capacity_exceeded).            *)
HoleIsTimed ==
    pending # {} =>
        /\ gap # None
        /\ \A s \in pending : s.seq > next
        /\ \/ \E s \in pending : gap <= s.ts
           \/ fin # None /\ gap <= finAt
WithinLimits == ~CapacityExceeded(pending) /\ ~CapacityExceeded(unanchored)
GapsBounded == pc = "idle" => HoleIsTimed /\ WithinLimits

(* A scanner reset jumps only over bytes that were never captured: a byte   *)
(* already received is never given up for a gap (_resume_after_gap,         *)
(* _resume_after_fin_gap); but in a replay, whose gaps time out inside a    *)
(* commit too, the gap before a FIN takes what the commit has still to add. *)
Unsafe == IF settings.defer THEN {} ELSE BytesOf(ToSet(todo))
ResetsSkipOnlyLostBytes == [][(skipped' \ skipped) \cap received' \subseteq Unsafe]_vars

(* The flow keeps the scanner's contract: what was fed is never retracted or *)
(* joined to an older prefix, and a finished flow has offered the scanner    *)
(* every captured byte, but for those a replay reported as a gap (the       *)
(* one-way origin of _commit_unanchored, finish).                           *)
Stream == INSTANCE StreamDelivery
              WITH done <- pc = "closed", reported <- IF settings.defer THEN {} ELSE skipped
StreamPromise == Stream!Spec

(* What must not last: in a live capture, bytes held behind a hole, which   *)
(* the gap timer releases without another packet, and a FIN, which closes   *)
(* the flow with or without the bytes that precede it (service_gaps,        *)
(* fin_is_reassembled, _resume_after_fin_gap).                              *)
Waits == settings.defer /\ (Held # {} \/ (fin # None /\ pc # "closed"))
=============================================================================
