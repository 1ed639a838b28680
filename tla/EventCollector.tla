---------------------------- MODULE EventCollector ----------------------------
(***************************************************************************)
(* _EventCollector of capture.py between the decoder and the delivery of   *)
(* events: DepositOriginTracker (_origin/tracker.py), which holds storage  *)
(* wrappers until evidence tells live operations from neutral records, and *)
(* StorageHydrationTracker (_storage_hydration.py), which promotes neutral *)
(* cohorts to snapshots.  Each has its lock, its outbox and one dispatcher *)
(* at a time, and runs callbacks without its lock.  Threads:               *)
(*   worker    decodes packets: evidence, records, closed flows            *)
(*   consumer  poll(), which calls flush_stale with the delivery lock held *)
(*   stopper   _finish_stop once the worker ended: engine.finish, finalize *)
(* An event is a record of a message: what a wrapper is worth as evidence  *)
(* (companions, decrements) is a choice here.  Origin tracking is on, with *)
(* an origin_observer; on_event is LiveCaptureSession._enqueue, which      *)
(* waits for the delivery lock and does not fail.                          *)
(***************************************************************************)
EXTENDS Integers, Sequences, FiniteSets, SequencesExt

CONSTANTS
    Flows,
    Wires,                            \* the wrappers a server may send, in order
    PendingLimit,                     \* MAX_PENDING_OPERATIONS_PER_FLOW
    StaleAfter,                       \* STALE_SECONDS
    BurstGap, BurstLength,            \* BURST_GAP_, MAX_BURST_SECONDS
    Epoch, InventoryGap,              \* HYDRATION_EPOCH_, INVENTORY_GENERATION_GAP_
    MinAnchored, MinUnanchored,       \* MIN_*_DESTINATIONS
    MinRecordCount,                   \* MIN_UNANCHORED_RECORD_COUNT
    BurstLimit,                       \* MAX_PENDING_EVENTS
    MaxCloses, MaxTime, MaxEvidence,   \* bounds
    MaxFailures,
    None

Kinds == {"storage_record", "storage_delta", "inventory_snapshot"}
Destinations == UNION {{wire[m].destination : m \in DOMAIN wire} : wire \in Wires}
Cohorts ==                                   \* _HydrationBurst
    [first : Nat, last : Nat, anchored : BOOLEAN,
     events : Seq([message : Nat, record : Nat, type : {"storage_record"}]),
     destinations : SUBSET Destinations, recordCount : Nat, confirmed : BOOLEAN]

ASSUME CollectorConstants ==
    /\ Flows # {} /\ IsFiniteSet(Flows) /\ IsFiniteSet(Wires)
    /\ \E wire \in Wires : wire # <<>>
    /\ \A wire \in Wires :
         wire \in Seq([flow : Flows, kind : Kinds, count : Nat \ {0},
                      destination : Destinations])
    /\ \A wire \in Wires : \A m \in DOMAIN wire :
         wire[m].kind = "inventory_snapshot" => wire[m].count = 1
    /\ {PendingLimit, MinAnchored, MinUnanchored, MinRecordCount, BurstLimit}
         \subseteq Nat \ {0}
    /\ MinAnchored <= MinUnanchored
    /\ {StaleAfter, BurstGap, BurstLength, Epoch, InventoryGap, MaxCloses, MaxTime, MaxEvidence, MaxFailures} \subseteq Nat
    /\ BurstGap <= BurstLength /\ BurstGap <= StaleAfter
    /\ None \notin Nat \cup Flows /\ None \notin Cohorts

Threads == {"worker", "consumer", "stopper"}
Keys == Flows \X (0..MaxCloses)              \* _HydrationKey
Messages == 1..Max({Len(wire) : wire \in Wires})
MaxRecords == Max(UNION {{wire[m].count : m \in DOMAIN wire} : wire \in Wires})

VARIABLES
    clock,
    generation,     \* generation of each flow's state in the FlowManager
    messages,       \* history: what the decoder reported, in order
    todo,           \* records of the last message not yet handed over
    staged,         \* _staged_neutral_batches: records by message
    pending,        \* _pending of the origin tracker
    originOutbox, originBusy,            \* _outbox and _dispatching
    anchor, inventoryLast, bursts,       \* _inventory_anchor, _last, _bursts
    hydrationOutbox, hydrationBusy,
    pc, call,       \* where each thread is, and in which operation
    arg,            \* the operation's flow or `now`
    originHand, hydrationHand,           \* the callback a thread is running, if any
    delivered,      \* events handed to _enqueue
    toClose,        \* flows engine.finish() has still to close
    finalized,      \* collector.finalize() ended
    stopped,
    failures,
    evidence,       \* pieces of evidence found so far
    overtaken       \* history: finalization met another dispatcher

decoder == <<clock, generation, messages, todo>>
origin == <<staged, pending>>
hydration == <<anchor, inventoryLast, bursts>>
threads == <<pc, call, arg>>
stop == <<toClose, finalized, stopped, failures>>
vars == <<decoder, origin, originOutbox, originBusy, originHand, hydration,
          hydrationOutbox, hydrationBusy, hydrationHand, threads, delivered,
          stop, evidence, overtaken>>

Init ==
    /\ clock = 0 /\ generation = [f \in Flows |-> 0]
    /\ messages = <<>> /\ todo = 0
    /\ staged = [m \in Messages |-> {}] /\ pending = <<>>
    /\ originOutbox = <<>> /\ originBusy = FALSE
    /\ anchor = [k \in Keys |-> None] /\ inventoryLast = [k \in Keys |-> None]
    /\ bursts = [k \in Keys |-> None]
    /\ hydrationOutbox = <<>> /\ hydrationBusy = FALSE
    /\ pc = [t \in Threads |-> "ready"] /\ call = [t \in Threads |-> "none"]
    /\ arg = [t \in Threads |-> None]
    /\ originHand = [t \in Threads |-> <<>>]
    /\ hydrationHand = [t \in Threads |-> <<>>]
    /\ delivered = {}
    /\ toClose = Flows /\ finalized = FALSE /\ stopped = FALSE
    /\ failures = 0 /\ evidence = 0 /\ overtaken = FALSE

Event(m, i, type) == [message |-> m, record |-> i, type |-> type]
Key(e) == <<messages[e.message].flow, messages[e.message].generation>>
Time(e) == messages[e.message].time

(***************************************************************************)
(* The origin tracker.  Each operation mutates under _state_lock, queues   *)
(* what it decided, then drains the outbox.                                *)
(***************************************************************************)
WireType(m) == messages[m].kind

(* The elements of s that belong to T, in their order.                     *)
Where(s, T) == FlattenSeq([i \in DOMAIN s |-> IF s[i] \in T THEN <<s[i]>> ELSE <<>>])

InOrder(S, n) == Where([i \in 1..n |-> i], S)
Entries(m, records, type) ==
    LET order == InOrder(records, messages[m].count)
    IN  [i \in DOMAIN order |-> Event(m, order[i], type)]

(* _finalize: worker companions, or a matching decrement, prove a neutral  *)
(* wrapper live; all its records get the same verdict.                     *)
Finalized(p, worker) ==
    [i \in 1..messages[p.message].count |->
        Event(p.message, i, IF p.message \in worker \/ p.manual
                            THEN "storage_delta" ELSE WireType(p.message))]

Settled(deposits, gone, worker) ==
    LET settled == Where(deposits, {p \in ToSet(deposits) : p.message \in gone})
    IN  FlattenSeq([i \in 1..Len(settled) |-> Finalized(settled[i], worker)])

Keep(deposits, gone) ==
    Where(deposits, {p \in ToSet(deposits) : p.message \notin gone})

(* Deposits a companion family was seen for: when it is confirmed they are *)
(* all finalized, of whatever flow.                                        *)
Candidates(deposits) ==
    {p.message : p \in {q \in ToSet(deposits) : q.candidate}}
PendingOf(f) == {p.message : p \in {q \in ToSet(pending) : messages[q.message].flow = f}}

(* _emit_neutral_entries for incomplete batches, oldest first.             *)
Unstaged(batches) ==
    LET order == InOrder({m \in batches : staged[m] # {}}, Len(messages))
    IN  FlattenSeq([i \in 1..Len(order) |->
                       Entries(order[i], staged[order[i]], WireType(order[i]))])

Leave(t, label) ==
    /\ pc' = [pc EXCEPT ![t] = label]
    /\ call' = [call EXCEPT ![t] = "none"] /\ arg' = [arg EXCEPT ![t] = None]

Enter(t, operation, argument) ==
    /\ pc' = [pc EXCEPT ![t] = "origin"]
    /\ call' = [call EXCEPT ![t] = operation]
    /\ arg' = [arg EXCEPT ![t] = argument]

(* Who may decode: the worker, and engine.finish() for what it drains.     *)
Decodes(t) ==
    /\ pc[t] = "ready"
    /\ \/ t = "worker"
       \/ t = "stopper" /\ pc["worker"] = "dead" /\ toClose # {} /\ ~stopped

Shape(message) ==
    [flow |-> message.flow, kind |-> message.kind, count |-> message.count,
     destination |-> message.destination]

Decode(t) ==
    /\ Decodes(t) /\ todo = 0
    /\ \E wire \in Wires :
         LET n == Len(messages)
             next == wire[n + 1]
         IN  /\ n < Len(wire)
             /\ \A m \in 1..n : Shape(messages[m]) = wire[m]
             /\ t = "stopper" => next.flow \in toClose
             /\ messages' = Append(messages,
                  [flow |-> next.flow, kind |-> next.kind, count |-> next.count,
                   destination |-> next.destination, registered |-> 0,
                   generation |-> generation[next.flow], time |-> clock])
             /\ todo' = next.count
    /\ UNCHANGED <<clock, generation, origin, originOutbox, originBusy, originHand,
                   hydration, hydrationOutbox, hydrationBusy, hydrationHand,
                   threads, delivered, stop, evidence, overtaken>>

(* _register_group: a wrapper that evidence already in view resolves, or   *)
(* whose lookahead is over, is finalized at once; another is retained, and *)
(* the oldest of its flow is evicted at the limit, without trusting what   *)
(* was found for it.                                                       *)
Oldest(deposits, f) ==
    LET ofFlow == Where(deposits, {p \in ToSet(deposits) : messages[p.message].flow = f})
    IN  IF Len(ofFlow) > PendingLimit THEN {Head(ofFlow).message} ELSE {}

Uses(manual, found) ==
    /\ evidence' = evidence + (IF manual THEN 1 ELSE 0) + (IF found THEN 1 ELSE 0)
    /\ evidence' <= MaxEvidence

Observed(m, found) == IF found THEN <<Event(m, 0, "observation")>> ELSE <<>>

Retain(deposit, gone, worker) ==
    LET m == deposit.message
        all == Append(pending, deposit)
        kept == Keep(all, gone)
        evicted == IF m \in gone THEN {} ELSE Oldest(kept, messages[m].flow)
    IN  /\ pending' = Keep(kept, evicted)
        /\ originOutbox' = originOutbox \o Observed(m, deposit.candidate)
               \o Settled(all, gone, worker) \o Settled(kept, evicted, {})

RegisterGroup(m) ==
    \E deposit \in [message : {m}, manual : BOOLEAN, candidate : BOOLEAN] :
      /\ deposit.manual => WireType(m) = "storage_record"
      /\ Uses(deposit.manual, deposit.candidate)
      /\ \E worker \in SUBSET Candidates(Append(pending, deposit)), over \in BOOLEAN :
           Retain(deposit, worker \cup IF over THEN {m} ELSE {}, worker)

(* register: the records of a wrapper wait for each other.                 *)
RegisterStorage(t, m, i) ==
    LET complete == staged[m] \cup {i} = 1..messages[m].count IN
    /\ Enter(t, "register", None)
    /\ \/ /\ complete
          /\ staged' = [staged EXCEPT ![m] = {}]
          /\ RegisterGroup(m)
       \/ /\ ~complete
          /\ staged' = [staged EXCEPT ![m] = @ \cup {i}]
          /\ UNCHANGED <<pending, originOutbox, evidence>>
    /\ UNCHANGED <<originBusy, originHand, hydration, hydrationOutbox>>

(* observe_stream, observe_frame: one pending deposit is found companions, *)
(* which may confirm a family, or its window closes.                       *)
Observe(t) ==
    /\ Decodes(t) /\ todo = 0
    /\ \E p \in ToSet(pending), worker \in SUBSET Messages, found, over \in BOOLEAN :
         /\ found => ~p.candidate
         /\ Uses(FALSE, found)
         /\ LET all == [i \in DOMAIN pending |->
                   IF pending[i] = p /\ found THEN [p EXCEPT !.candidate = TRUE]
                                             ELSE pending[i]]
                gone == worker \cup IF over THEN {p.message} ELSE {}
            IN  /\ worker \subseteq Candidates(all)
                /\ found \/ gone # {}
                /\ pending' = Keep(all, gone)
                /\ originOutbox' = originOutbox \o Observed(p.message, found)
                                     \o Settled(all, gone, worker)
    /\ Enter(t, "observe", None)
    /\ UNCHANGED <<decoder, staged, originBusy, originHand, hydration, hydrationOutbox,
                   hydrationBusy, hydrationHand, delivered, stop, overtaken>>

ClosePendingKeepsBatches(batches, closing) ==
    \E worker \in SUBSET Candidates(pending) :
        LET gone == closing \cup worker IN
        /\ UNCHANGED staged
        /\ pending' = Keep(pending, gone)
        /\ originOutbox' = originOutbox \o Unstaged(batches)
                             \o Settled(pending, gone, worker)

(* Closing deposits may confirm the family of others.                      *)
ClosePending(batches, closing) ==
    \E worker \in SUBSET Candidates(pending) :
        LET gone == closing \cup worker IN
        /\ staged' = [m \in Messages |-> IF m \in batches THEN {} ELSE staged[m]]
        /\ pending' = Keep(pending, gone)
        /\ originOutbox' = originOutbox \o Unstaged(batches)
                             \o Settled(pending, gone, worker)

MessagesOf(f) == {m \in 1..Len(messages) : messages[m].flow = f}

(* _EventCollector._close_flow, the tracker's part, for a flow that ended  *)
(* or that engine.finish() drained.                                        *)
CloseFlow(t) ==
    /\ Decodes(t) /\ todo = 0
    /\ \E f \in Flows :
         /\ \/ t = "worker" /\ MessagesOf(f) # {} /\ generation[f] < MaxCloses
            \/ t = "stopper" /\ f \in toClose
         /\ ClosePending(MessagesOf(f), PendingOf(f))
         /\ Enter(t, "close", f)
         /\ generation' = [generation EXCEPT ![f] =
               IF t = "stopper" THEN @ ELSE @ + 1]
         /\ toClose' = IF t = "stopper" THEN toClose \ {f} ELSE toClose
    /\ UNCHANGED <<clock, messages, todo, originBusy, originHand, hydration,
                   hydrationOutbox, hydrationBusy, hydrationHand, delivered,
                   finalized, stopped, failures, evidence, overtaken>>

(* flush_stale of the tracker, with the time poll() read.                  *)
Stale(time, now) == now - time > StaleAfter

FlushStale ==
    /\ pc["consumer"] = "ready" /\ ~stopped
    /\ LET stale == {m \in 1..Len(messages) : Stale(messages[m].time, clock)}
       IN  ClosePending(stale, stale \cap {p.message : p \in ToSet(pending)})
    /\ Enter("consumer", "flush", clock)
    /\ UNCHANGED <<decoder, originBusy, originHand, hydration, hydrationOutbox,
                   hydrationBusy, hydrationHand, delivered, stop, evidence, overtaken>>

FlushSkipped == pc["consumer"] = "ready" /\ stopped /\ UNCHANGED vars

(* _finish_stop after engine.finish(): collector.finalize().               *)
Finalize ==
    /\ pc["stopper"] = "ready" /\ pc["worker"] = "dead" /\ ~stopped
    /\ todo = 0 /\ toClose = {} /\ ~finalized
    /\ ClosePending(Messages, {p.message : p \in ToSet(pending)})
    /\ Enter("stopper", "finalize", None)
    /\ UNCHANGED <<decoder, originBusy, originHand, hydration, hydrationOutbox,
                   hydrationBusy, hydrationHand, delivered, stop, evidence, overtaken>>

(***************************************************************************)
(* _drain_outbox of the tracker: claim the outbox or leave it to its       *)
(* dispatcher, then run the callbacks one by one.                          *)
(***************************************************************************)
AfterOrigin(t) ==
    IF call[t] \in {"close", "flush", "finalize"}
    THEN pc' = [pc EXCEPT ![t] = "between"] /\ UNCHANGED <<call, arg>>
    ELSE Leave(t, "ready")

OriginYield(t) ==
    /\ pc[t] = "origin" /\ originBusy
    /\ AfterOrigin(t)
    /\ overtaken' = (overtaken \/ t = "stopper")
    /\ UNCHANGED <<originBusy, originOutbox, originHand>>

MayDispatchAlways(t) == pc[t] \in {"originTake", "origin"}

MayDispatchOrigin(t) == pc[t] = "originTake" \/ (pc[t] = "origin" /\ ~originBusy)

OriginTake(t) ==
    /\ MayDispatchOrigin(t) /\ originOutbox # <<>>
    /\ originBusy' = TRUE
    /\ originHand' = [originHand EXCEPT ![t] = <<Head(originOutbox)>>]
    /\ originOutbox' = Tail(originOutbox)
    /\ pc' = [pc EXCEPT ![t] = "originCall"]
    /\ UNCHANGED <<call, arg, overtaken>>

OriginDoneAfterOne(t) ==
    /\ MayDispatchOrigin(t) /\ (originOutbox = <<>> \/ pc[t] = "originTake")
    /\ originBusy' = FALSE
    /\ AfterOrigin(t)
    /\ UNCHANGED <<originOutbox, originHand, overtaken>>

OriginDone(t) ==
    /\ MayDispatchOrigin(t) /\ originOutbox = <<>>
    /\ originBusy' = FALSE
    /\ AfterOrigin(t)
    /\ UNCHANGED <<originOutbox, originHand, overtaken>>

OriginDrain(t) ==
    /\ OriginYield(t) \/ OriginTake(t) \/ OriginDone(t)
    /\ UNCHANGED <<decoder, origin, hydration, hydrationOutbox, hydrationBusy,
                   hydrationHand, delivered, stop, evidence>>

(* The application's origin_observer, and what becomes of its exception:   *)
(* the dispatcher gives up the outbox; the worker stops decoding, poll()   *)
(* records the error, and _finish_stop goes on with its next step.         *)
Observer(t) ==
    /\ pc[t] = "originCall" /\ Head(originHand[t]).type = "observation"
    /\ originHand' = [originHand EXCEPT ![t] = <<>>]
    /\ \/ /\ pc' = [pc EXCEPT ![t] = "originTake"]
          /\ UNCHANGED <<originBusy, stop, todo, call, arg>>
       \/ /\ failures < MaxFailures /\ failures' = failures + 1
          /\ originBusy' = FALSE
          /\ Leave(t, IF t = "worker" THEN "dead" ELSE "ready")
          /\ todo' = IF t = "consumer" THEN todo ELSE 0
          /\ toClose' = IF t = "stopper" THEN {} ELSE toClose
          /\ finalized' = (finalized \/ call[t] = "finalize")
          /\ UNCHANGED stopped
    /\ UNCHANGED <<clock, generation, messages, origin, originOutbox, hydration,
                   hydrationOutbox, hydrationBusy, hydrationHand, delivered,
                   evidence, overtaken>>

(***************************************************************************)
(* The hydration tracker.  A burst is a cohort of neutral records of one   *)
(* flow; once it spans enough destinations, its records are a snapshot.    *)
(***************************************************************************)
Unconfirmed(keys) ==
    LET order == SetToSeq({k \in keys : bursts[k] # None})
    IN  FlattenSeq([i \in DOMAIN order |-> bursts[order[i]].events])

Without(keys) == [k \in Keys |-> IF k \in keys THEN None ELSE bursts[k]]
AsSnapshots(events) ==
    [i \in DOMAIN events |-> [events[i] EXCEPT !.type = "storage_snapshot"]]

HydrationQueue(events) == hydrationOutbox' = hydrationOutbox \o events

(* observe_inventory: a boundary opens an epoch of its flow.               *)
ObserveInventory(e) ==
    LET k == Key(e)
        opens == inventoryLast[k] = None \/ Time(e) - inventoryLast[k] > InventoryGap
        flushed == IF opens THEN {k} ELSE {}
    IN  /\ bursts' = Without(flushed)
        /\ anchor' = IF opens THEN [anchor EXCEPT ![k] = Time(e)] ELSE anchor
        /\ inventoryLast' = [inventoryLast EXCEPT ![k] = Time(e)]
        /\ HydrationQueue(Append(Unconfirmed(flushed), e))

(* observe_storage of an event proven live: it ends what came before it.   *)
PassLive(e) ==
    LET k == Key(e)
        flushed == IF bursts[k] = None \/ Time(e) >= bursts[k].first THEN {k} ELSE {}
        retired == anchor[k] = None \/ Time(e) >= anchor[k]
    IN  /\ bursts' = Without(flushed)
        /\ anchor' = IF retired THEN [anchor EXCEPT ![k] = None] ELSE anchor
        /\ inventoryLast' =
             IF retired THEN [inventoryLast EXCEPT ![k] = None] ELSE inventoryLast
        /\ HydrationQueue(Append(Unconfirmed(flushed), e))

Anchored(e) ==
    /\ anchor[Key(e)] # None
    /\ anchor[Key(e)] <= Time(e) /\ Time(e) - anchor[Key(e)] <= Epoch

Continues(burst, e) ==
    /\ burst # None
    /\ Time(e) - burst.last <= BurstGap /\ Time(e) - burst.first <= BurstLength
    /\ Time(e) >= burst.last
    /\ burst.anchored = Anchored(e)

NewBurst(e) ==
    [first |-> Time(e), last |-> Time(e), anchored |-> Anchored(e), events |-> <<>>,
     destinations |-> {}, recordCount |-> 0, confirmed |-> FALSE]

EnoughRecords(burst) ==
    /\ Len(burst.events) + 1 >= IF burst.anchored THEN MinAnchored ELSE MinUnanchored
    /\ burst.anchored \/ burst.recordCount >= MinRecordCount

Enough(burst) ==
    /\ Cardinality(burst.destinations) >=
         IF burst.anchored THEN MinAnchored ELSE MinUnanchored
    /\ burst.anchored \/ burst.recordCount >= MinRecordCount

(* observe_storage of a neutral record.                                    *)
StageNeutral(e) ==
    LET k == Key(e)
        message == messages[e.message]
        continues == Continues(bursts[k], e)
        flushed == IF continues THEN <<>> ELSE Unconfirmed({k})
        burst == [(IF continues THEN bursts[k] ELSE NewBurst(e)) EXCEPT
                    !.last = Time(e),
                    !.destinations = (@ \cup {message.destination}) \ {None},
                    !.recordCount = IF message.count > @ THEN message.count ELSE @]
        events == Append(burst.events, e)
        Becomes(b, out) ==
            bursts' = [bursts EXCEPT ![k] = b] /\ HydrationQueue(flushed \o out)
    IN  /\ CASE burst.confirmed -> Becomes(burst, AsSnapshots(<<e>>))
             [] ~burst.confirmed /\ Enough(burst) ->
                  Becomes([burst EXCEPT !.confirmed = TRUE, !.events = <<>>],
                          AsSnapshots(events))
             [] ~burst.confirmed /\ ~Enough(burst) /\ Len(events) > BurstLimit ->
                  Becomes(None, events)
             [] OTHER -> Becomes([burst EXCEPT !.events = events], <<>>)
        /\ UNCHANGED <<anchor, inventoryLast>>

ObserveStorage(e) == IF e.type = "storage_record" THEN StageNeutral(e) ELSE PassLive(e)

(* _after_origin, the tracker's callback.                                  *)
AfterOriginCall(t) ==
    /\ pc[t] = "originCall" /\ Head(originHand[t]).type # "observation"
    /\ ObserveStorage(Head(originHand[t]))
    /\ pc' = [pc EXCEPT ![t] = "hydration"]
    /\ UNCHANGED <<decoder, origin, originOutbox, originBusy, originHand, call, arg,
                   hydrationBusy, hydrationHand, delivered, stop, evidence, overtaken>>

CloseKeysForgetting(keys) ==
    /\ bursts' = Without(keys)
    /\ anchor' = [k \in Keys |-> IF k \in keys THEN None ELSE anchor[k]]
    /\ inventoryLast' = [k \in Keys |-> IF k \in keys THEN None ELSE inventoryLast[k]]
    /\ UNCHANGED hydrationOutbox

(* The hydration half of close_flow, flush_stale and finalize.             *)
CloseKeys(keys) ==
    /\ bursts' = Without(keys)
    /\ anchor' = [k \in Keys |-> IF k \in keys THEN None ELSE anchor[k]]
    /\ inventoryLast' = [k \in Keys |-> IF k \in keys THEN None ELSE inventoryLast[k]]
    /\ HydrationQueue(Unconfirmed(keys))

FlushBursts(now) ==
    LET stale == {k \in Keys : bursts[k] # None /\ now - bursts[k].last > BurstGap}
        expired == {k \in Keys : anchor[k] # None /\ now - anchor[k] > Epoch}
    IN  /\ bursts' = Without(stale)
        /\ anchor' = [k \in Keys |-> IF k \in expired THEN None ELSE anchor[k]]
        /\ inventoryLast' =
             [k \in Keys |-> IF k \in expired THEN None ELSE inventoryLast[k]]
        /\ HydrationQueue(Unconfirmed(stale))

HydrationHalf(t) ==
    /\ pc[t] = "between"
    /\ \/ call[t] = "close" /\ CloseKeys({k \in Keys : k[1] = arg[t]})
       \/ call[t] = "flush" /\ FlushBursts(arg[t])
       \/ call[t] = "finalize" /\ CloseKeys(Keys)
    /\ pc' = [pc EXCEPT ![t] = "hydration"]
    /\ UNCHANGED <<decoder, origin, originOutbox, originBusy, originHand, call, arg,
                   hydrationBusy, hydrationHand, delivered, stop, evidence, overtaken>>

(* _drain_outbox of the hydration tracker; it may run inside a callback of *)
(* the origin tracker, which then returns.                                 *)
AfterHydration(t) ==
    /\ IF originHand[t] # <<>>
       THEN pc' = [pc EXCEPT ![t] = "originTake"] /\ UNCHANGED <<call, arg>>
       ELSE Leave(t, "ready")
    /\ finalized' = (finalized \/ (originHand[t] = <<>> /\ call[t] = "finalize"))
    /\ originHand' = [originHand EXCEPT ![t] = <<>>]

HydrationYield(t) ==
    /\ pc[t] = "hydration" /\ hydrationBusy
    /\ AfterHydration(t)
    /\ UNCHANGED <<hydrationBusy, hydrationOutbox, hydrationHand>>

MayDispatchHydration(t) ==
    pc[t] = "hydrationTake" \/ (pc[t] = "hydration" /\ ~hydrationBusy)

HydrationTake(t) ==
    /\ MayDispatchHydration(t) /\ hydrationOutbox # <<>>
    /\ hydrationBusy' = TRUE
    /\ hydrationHand' = [hydrationHand EXCEPT ![t] = <<Head(hydrationOutbox)>>]
    /\ hydrationOutbox' = Tail(hydrationOutbox)
    /\ pc' = [pc EXCEPT ![t] = "hydrationCall"]
    /\ UNCHANGED <<originHand, call, arg, finalized>>

HydrationDone(t) ==
    /\ MayDispatchHydration(t) /\ hydrationOutbox = <<>>
    /\ hydrationBusy' = FALSE
    /\ AfterHydration(t)
    /\ UNCHANGED <<hydrationOutbox, hydrationHand>>

HydrationDrain(t) ==
    /\ HydrationYield(t) \/ HydrationTake(t) \/ HydrationDone(t)
    /\ UNCHANGED <<decoder, origin, originOutbox, originBusy, hydration, delivered,
                   toClose, stopped, failures, evidence, overtaken>>

(* _deliver and _enqueue: poll() holds the delivery lock while it flushes. *)
Deliver(t) ==
    /\ pc[t] = "hydrationCall"
    /\ t = "consumer" \/ pc["consumer"] = "ready"
    /\ delivered' = delivered \cup ToSet(hydrationHand[t])
    /\ hydrationHand' = [hydrationHand EXCEPT ![t] = <<>>]
    /\ pc' = [pc EXCEPT ![t] = "hydrationTake"]
    /\ UNCHANGED <<decoder, origin, originOutbox, originBusy, originHand, hydration,
                   hydrationOutbox, hydrationBusy, call, arg, stop, evidence, overtaken>>

(***************************************************************************)
(* _handle_accepted_record: the decoder hands the next record over.        *)
(***************************************************************************)
Register(t) ==
    LET m == Len(messages)
        i == messages[m].registered + 1
    IN  /\ Decodes(t) /\ todo > 0
        /\ todo' = todo - 1
        /\ messages' = [messages EXCEPT ![m].registered = i]
        /\ IF messages[m].kind = "inventory_snapshot"
           THEN /\ ObserveInventory(Event(m, i, "inventory_snapshot"))
                /\ pc' = [pc EXCEPT ![t] = "hydration"]
                /\ UNCHANGED <<origin, evidence, originOutbox, originBusy, originHand,
                               call, arg>>
           ELSE RegisterStorage(t, m, i)
        /\ UNCHANGED <<clock, generation, hydrationBusy, hydrationHand, delivered,
                       stop, overtaken>>

(* Time, and the session around the collector.                             *)
Tick ==
    /\ clock < MaxTime /\ clock' = clock + 1
    /\ UNCHANGED <<generation, messages, todo, origin, originOutbox, originBusy,
                   originHand, hydration, hydrationOutbox, hydrationBusy,
                   hydrationHand, threads, delivered, stop, evidence, overtaken>>

(* A stop was requested, and the worker has taken the sentinel.            *)
WorkerEnds ==
    /\ pc["worker"] = "ready" /\ todo = 0
    /\ pc' = [pc EXCEPT !["worker"] = "dead"]
    /\ UNCHANGED <<decoder, origin, originOutbox, originBusy, originHand, hydration,
                   hydrationOutbox, hydrationBusy, hydrationHand, call, arg,
                   delivered, stop, evidence, overtaken>>

Stopped ==
    /\ finalized /\ ~stopped /\ stopped' = TRUE
    /\ UNCHANGED <<decoder, origin, originOutbox, originBusy, originHand, hydration,
                   hydrationOutbox, hydrationBusy, hydrationHand, threads, delivered,
                   toClose, finalized, failures, evidence, overtaken>>

(* What thread t is bound to do next.                                      *)
Step(t) ==
    \/ Register(t) \/ OriginDrain(t) \/ Observer(t) \/ AfterOriginCall(t)
    \/ HydrationHalf(t) \/ HydrationDrain(t) \/ Deliver(t)

Next ==
    \/ Tick \/ WorkerEnds \/ FlushStale \/ FlushSkipped
    \/ Finalize \/ Stopped
    \/ \E t \in Threads : Step(t) \/ Decode(t) \/ Observe(t) \/ CloseFlow(t)

Spec == Init /\ [][Next]_vars

-----------------------------------------------------------------------------
EventSet(types) == [message : Messages, record : 0..MaxRecords, type : types]
StorageTypes == {"storage_delta", "storage_record"}
OriginEvents == EventSet(StorageTypes \cup {"observation"})
HydrationEvents == EventSet(StorageTypes \cup {"storage_snapshot", "inventory_snapshot"})

HandsOf(hand, holders) == UNION {ToSet(hand[t]) : t \in holders}
RunsOrigin(t) == pc[t] \in {"originTake", "originCall"} \/ originHand[t] # <<>>
RunsHydration(t) == pc[t] \in {"hydrationTake", "hydrationCall"}

(* Every variable has the shape the code gives it, and no flow has more     *)
(* deposits pending than the limit.                                        *)
TypeOK ==
    /\ clock \in 0..MaxTime /\ generation \in [Flows -> 0..MaxCloses]
    /\ DOMAIN messages \subseteq Messages /\ todo \in 0..MaxRecords
    /\ staged \in [Messages -> SUBSET (1..MaxRecords)]
    /\ ToSet(originOutbox) \subseteq OriginEvents
    /\ ToSet(hydrationOutbox) \subseteq HydrationEvents
    /\ DOMAIN originHand = Threads /\ HandsOf(originHand, Threads) \subseteq OriginEvents
    /\ DOMAIN hydrationHand = Threads
    /\ HandsOf(hydrationHand, Threads) \subseteq HydrationEvents
    /\ anchor \in [Keys -> Nat \cup {None}]
    /\ delivered \subseteq HydrationEvents
    /\ \A f \in Flows : Cardinality(PendingOf(f)) <= PendingLimit

(* Every record handed to the collector is in one place at every moment:   *)
(* staged, pending, queued or in hand in either tracker, in a burst, or    *)
(* delivered; none is lost or doubled by an eviction, a stale or closed    *)
(* flow, a raising observer or two threads draining at once.               *)
Accepted ==
    UNION {{<<m, i>> : i \in 1..messages[m].registered} : m \in 1..Len(messages)}
Bursts == {bursts[k] : k \in {j \in Keys : bursts[j] # None}}
Calling == {t \in Threads : pc[t] = "originCall"}
RecordsIn(events) ==
    {<<e.message, e.record>> : e \in {x \in events : x.type # "observation"}}
Places ==
    <<{x \in Messages \X (1..MaxRecords) : x[2] \in staged[x[1]]},
      UNION {{p.message} \X (1..messages[p.message].count) : p \in ToSet(pending)},
      RecordsIn(ToSet(originOutbox)), RecordsIn(HandsOf(originHand, Calling)),
      UNION {RecordsIn(ToSet(b.events)) : b \in Bursts},
      RecordsIn(ToSet(hydrationOutbox)), RecordsIn(HandsOf(hydrationHand, Threads)),
      RecordsIn(delivered)>>

Conserved ==
    /\ UNION ToSet(Places) = Accepted
    /\ \A i \in DOMAIN Places : \A j \in 1..(i - 1) : Places[i] \cap Places[j] = {}
    /\ IsInjective(originOutbox) /\ IsInjective(hydrationOutbox)
    /\ Cardinality(RecordsIn(delivered)) = Cardinality(delivered)

(* Both: no record is lost or doubled, and the state has its types          *)
(* (_close_pending, _drain_outbox, close_flow).                            *)
RecordsKept == TypeOK /\ Conserved

(* Callbacks of either tracker run in the order of its mutations, one at a *)
(* time and once each, from whatever threads it is mutated and drained.    *)
OriginDispatch ==
    INSTANCE OrderedDispatch WITH
        outbox <- originOutbox, running <- HandsOf(originHand, Threads)
HydrationDispatch ==
    INSTANCE OrderedDispatch WITH
        outbox <- hydrationOutbox, running <- HandsOf(hydrationHand, Threads)
MutationOrder == OriginDispatch!Spec /\ HydrationDispatch!Spec

(* A record leaves as part of a snapshot only if the neutral wrappers of   *)
(* its own connection and moment span enough destinations: after inventory *)
(* hydration of that connection, or with a wrapper of enough records.      *)
Leaving == delivered \cup ToSet(hydrationOutbox)
Cohort(e) ==
    {m \in 1..Len(messages) :
        /\ messages[m].kind = "storage_record" /\ messages[m].registered > 0
        /\ <<messages[m].flow, messages[m].generation>> = Key(e)
        /\ messages[m].time - Time(e) \in (-BurstLength)..BurstLength}
Spans(cohort, n) ==
    Cardinality({messages[m].destination : m \in cohort} \ {None}) >= n
SnapshotsProven ==
    \A e \in Leaving : e.type = "storage_snapshot" =>
        \/ /\ Spans(Cohort(e), MinAnchored)
           /\ \E m \in 1..Len(messages) :
                /\ messages[m].kind = "inventory_snapshot"
                /\ <<messages[m].flow, messages[m].generation>> = Key(e)
                /\ Time(e) - messages[m].time \in 0..Epoch
        \/ /\ Spans(Cohort(e), MinUnanchored)
           /\ \E m \in Cohort(e) : messages[m].count >= MinRecordCount

(* One thread at a time runs the callbacks of a tracker, and the tracker is *)
(* claimed exactly as long; a thread that leaves the outbox to another, or  *)
(* leaves it empty, leaves nothing behind: a queued callback has a thread   *)
(* that will dispatch it, unless an observer raised (the handoff of         *)
(* _drain_outbox).                                                          *)
OneDispatcher ==
    /\ originBusy <=> \E t \in Threads : RunsOrigin(t)
    /\ hydrationBusy <=> \E t \in Threads : RunsHydration(t)
    /\ \A t, u \in Threads : RunsOrigin(t) /\ RunsOrigin(u) => t = u
    /\ \A t, u \in Threads : RunsHydration(t) /\ RunsHydration(u) => t = u
NothingStuck ==
    /\ originOutbox # <<>> =>
         failures > 0 \/ \E t \in Threads : RunsOrigin(t) \/ pc[t] = "origin"
    /\ hydrationOutbox # <<>> =>
         \E t \in Threads : RunsHydration(t) \/ pc[t] = "hydration"
Handover == OneDispatcher /\ NothingStuck

(* "Finalize every pending decision and dispatch it in tracker order": once *)
(* the session is stopped and poll() has returned, every record was handed *)
(* on, if no callback raised.                                              *)
Delivered(m, i) == \E e \in delivered : e.message = m /\ e.record = i
AllDelivered == \A r \in Accepted : Delivered(r[1], r[2])
Settles == stopped /\ failures = 0 /\ pc["consumer"] = "ready"
FinalizeComplete == Settles => AllDelivered

(* ... which holds unless poll() was dispatching for the origin tracker    *)
(* when the flows were closed or finalized.                                *)
FinalizeCompleteAlone == (Settles /\ ~overtaken) => AllDelivered
=============================================================================
