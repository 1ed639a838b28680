------------------------- MODULE LiveCaptureSession -------------------------
(***************************************************************************)
(* LiveCaptureSession of capture.py: five threads around one live capture. *)
(*   sniffer   the native callback, _enqueue_packet                        *)
(*   worker    _run_packet_worker, the only thread that decodes            *)
(*   monitor   _monitor_stop_request                                       *)
(*   control   the application's start() and stop()                        *)
(*   consumer  the application's iteration over events()                   *)
(* request_stop() may come from any thread.  Packets are numbered in the   *)
(* order of the wire and packet p decodes to event p; an event may be held *)
(* for an origin decision (`held`) until a packet, the clock, the          *)
(* consumer's poll or the end of the session releases it.                  *)
(***************************************************************************)
EXTENDS PacketCapture, Integers, Sequences, SequencesExt

CONSTANTS
    PacketQueueSize,   \* packet_queue_size
    EventQueueSize,    \* event_queue_size
    MaxPackets,        \* bound: packets on the wire
    MaxFailures,       \* bound: failures and expired deadlines
    MaxStarts,         \* bound: calls of start()
    None

Packets == 1..MaxPackets
Sentinel == 0                     \* _PACKET_WORKER_STOP
Threads == {"sniffer", "worker", "monitor", "control", "consumer"}
Stoppers == {"monitor", "control", "consumer"}

ASSUME SessionConstants ==
    /\ PacketQueueSize \in Nat \ {0} /\ EventQueueSize \in Nat \ {0}
    /\ MaxPackets \in Nat /\ MaxFailures \in Nat /\ MaxStarts \in Nat
    /\ None \notin Nat /\ None \notin Threads
    /\ None \notin {"overflow", "decoder", "capture", "cleanup", "finish", "flush", "start"}

VARIABLES
    started, stopRequested, finalizing, stopped,
    error,            \* error: the first exception retained
    incomplete,       \* _cleanup_incomplete of the session
    packetQueue,      \* _packet_queue
    queue,            \* _queue
    tail,             \* _tail_events
    held,             \* events the collector keeps for an origin decision
    sentinelSent,     \* _packet_worker_stop_signaled
    decodeEnabled,    \* the worker's decode_enabled
    cleanup,          \* owner of _cleanup_lock
    delivery,         \* owner of _delivery_lock
    decoder,          \* owner of _decoder_lock
    pc,               \* where each thread is
    at,               \* the packet or event each thread has in hand
    expired,          \* the consumer's poll deadline has passed
    sent,             \* packets the wire has produced
    failures, starts, \* bounds
    accepted,         \* history: packets the callback queued
    decoded,          \* history: packets the worker decoded
    emitted,          \* history: events given to _enqueue
    delivered         \* history: events poll returned

lifecycle == <<started, stopRequested, finalizing, stopped, error, incomplete>>
queues == <<packetQueue, queue, tail, held, sentinelSent>>
locks == <<cleanup, delivery, decoder>>
bounds == <<sent, failures, starts>>
history == <<accepted, decoded, emitted, delivered>>
vars == <<captureVars, lifecycle, queues, locks, decodeEnabled, pc, at, expired,
          bounds, history>>

-----------------------------------------------------------------------------
(***************************************************************************)
(* Beside a definition stands a plausible bug of it, named for its fault   *)
(* and used by no action: it shows that a property tells the two apart.    *)
(***************************************************************************)
Init ==
    /\ CaptureInit
    /\ started = FALSE /\ stopRequested = FALSE /\ finalizing = FALSE
    /\ stopped = FALSE /\ error = None /\ incomplete = FALSE
    /\ packetQueue = <<>> /\ queue = <<>> /\ tail = <<>> /\ held = <<>>
    /\ sentinelSent = FALSE /\ decodeEnabled = TRUE
    /\ cleanup = None /\ delivery = None /\ decoder = None
    /\ pc = [t \in Threads |-> IF t \in {"worker", "monitor"} THEN "absent" ELSE "idle"]
    /\ at = [t \in Threads |-> None]
    /\ expired = FALSE
    /\ sent = 0 /\ failures = 0 /\ starts = 0
    /\ accepted = <<>> /\ decoded = <<>> /\ emitted = <<>> /\ delivered = <<>>

Goto(t, label) == pc' = [pc EXCEPT ![t] = label]

(* _record_error keeps the first error.                                     *)
RecordError(e) == error' = IF error = None THEN e ELSE error

MayFail == failures < MaxFailures /\ failures' = failures + 1

WorkerDead == pc["worker"] \in {"dead", "absent"}

-----------------------------------------------------------------------------
(* The native callback _enqueue_packet: the check, then the handoff.        *)
PacketArrives ==
    /\ pc["sniffer"] = "idle" /\ sniffer = "alive" /\ started
    /\ sent < MaxPackets
    /\ sent' = sent + 1
    /\ IF stopRequested
       THEN UNCHANGED <<pc, at>>
       ELSE Goto("sniffer", "put") /\ at' = [at EXCEPT !["sniffer"] = sent + 1]
    /\ UNCHANGED <<captureVars, lifecycle, queues, locks, decodeEnabled, expired,
                   failures, starts, history>>

PutPacket ==
    /\ pc["sniffer"] = "put"
    /\ \/ /\ Len(packetQueue) < PacketQueueSize
          /\ packetQueue' = Append(packetQueue, at["sniffer"])
          /\ accepted' = Append(accepted, at["sniffer"])
          /\ UNCHANGED <<error, stopRequested>>
       \/ /\ Len(packetQueue) >= PacketQueueSize
          /\ RecordError("overflow")
          /\ stopRequested' = TRUE
          /\ UNCHANGED <<packetQueue, accepted>>
    /\ Goto("sniffer", "idle")
    /\ at' = [at EXCEPT !["sniffer"] = None]
    /\ UNCHANGED <<captureVars, started, finalizing, stopped, incomplete, queue,
                   tail, held, sentinelSent, locks, decodeEnabled, expired,
                   bounds, decoded, emitted, delivered>>

SourceEnds ==
    /\ pc["sniffer"] = "idle" /\ started
    /\ CaptureEnds
    /\ UNCHANGED <<lifecycle, queues, locks, decodeEnabled, pc, at, expired,
                   bounds, history>>

-----------------------------------------------------------------------------
(***************************************************************************)
(* _enqueue(event) by the worker or by the consumer's flush: take the      *)
(* delivery lock, look at `finalizing`, then retry the bounded put until   *)
(* it succeeds or a stop is requested.                                     *)
(***************************************************************************)
Emitters == {"worker", "consumer"}

AfterEmit(t) == IF t = "worker" THEN "release" ELSE "flush"

EmitEnter(t) ==
    /\ pc[t] = "emit"
    /\ delivery \in {None, t}
    /\ delivery' = t
    /\ emitted' = Append(emitted, at[t])
    /\ IF finalizing
       THEN tail' = Append(tail, at[t]) /\ Goto(t, AfterEmit(t))
       ELSE Goto(t, "emitCheck") /\ UNCHANGED tail
    /\ UNCHANGED <<captureVars, lifecycle, packetQueue, queue, held, sentinelSent,
                   cleanup, decoder, decodeEnabled, at, expired, bounds,
                   accepted, decoded, delivered>>

EmitCheck(t) ==
    /\ pc[t] = "emitCheck"
    /\ Goto(t, IF stopRequested THEN AfterEmit(t) ELSE "emitPut")
    /\ UNCHANGED <<captureVars, lifecycle, queues, locks, decodeEnabled, at,
                   expired, bounds, history>>

GiveUpWhenFull(t) == Goto(t, AfterEmit(t))

(* queue.Full: look at the stop request again, then retry.                  *)
WhenFull(t) == Goto(t, "emitCheck")

EmitPut(t) ==
    /\ pc[t] = "emitPut"
    /\ \/ /\ Len(queue) < EventQueueSize
          /\ queue' = Append(queue, at[t])
          /\ Goto(t, AfterEmit(t))
          /\ UNCHANGED tail
       \/ /\ Len(queue) >= EventQueueSize /\ finalizing
          /\ tail' = Append(tail, at[t])
          /\ Goto(t, AfterEmit(t))
          /\ UNCHANGED queue
       \/ /\ Len(queue) >= EventQueueSize /\ ~finalizing
          /\ WhenFull(t)
          /\ UNCHANGED <<queue, tail>>
    /\ UNCHANGED <<captureVars, lifecycle, packetQueue, held, sentinelSent, locks,
                   decodeEnabled, at, expired, bounds, history>>

-----------------------------------------------------------------------------
WorkerGetStopsAtOnce ==
    /\ pc["worker"] = "get" /\ packetQueue # <<>>
    /\ packetQueue' = Tail(packetQueue)
    /\ IF stopRequested
       THEN Goto("worker", "dead") /\ UNCHANGED at
       ELSE Goto("worker", "decode") /\ at' = [at EXCEPT !["worker"] = Head(packetQueue)]
    /\ UNCHANGED <<captureVars, lifecycle, queue, tail, held, sentinelSent, locks,
                   decodeEnabled, expired, bounds, history>>

(* The worker takes the next entry of the packet queue.                     *)
WorkerGet ==
    /\ pc["worker"] = "get" /\ packetQueue # <<>>
    /\ packetQueue' = Tail(packetQueue)
    /\ IF Head(packetQueue) = Sentinel
       THEN Goto("worker", "dead") /\ UNCHANGED at
       ELSE IF decodeEnabled
            THEN /\ Goto("worker", "decode")
                 /\ at' = [at EXCEPT !["worker"] = Head(packetQueue)]
            ELSE UNCHANGED <<pc, at>>
    /\ UNCHANGED <<captureVars, lifecycle, queue, tail, held, sentinelSent, locks,
                   decodeEnabled, expired, bounds, history>>

(* handler(packet) under the decoder lock: the event is given out, is held, *)
(* or decoding raises, after which nothing is decoded any more.             *)
WorkerDecode ==
    /\ pc["worker"] = "decode" /\ decoder = None
    /\ LET p == at["worker"]
       IN  \/ /\ decoded' = Append(decoded, p)
              /\ decoder' = "worker"
              /\ Goto("worker", "emit")
              /\ UNCHANGED <<held, at, failures, error, stopRequested, decodeEnabled>>
           \/ /\ decoded' = Append(decoded, p)
              /\ held' = Append(held, p)
              /\ Goto("worker", "get")
              /\ at' = [at EXCEPT !["worker"] = None]
              /\ UNCHANGED <<decoder, failures, error, stopRequested, decodeEnabled>>
           \/ /\ MayFail
              /\ RecordError("decoder")
              /\ stopRequested' = TRUE
              /\ decodeEnabled' = FALSE
              /\ Goto("worker", "get")
              /\ at' = [at EXCEPT !["worker"] = None]
              /\ UNCHANGED <<decoded, decoder, held>>
    /\ UNCHANGED <<captureVars, started, finalizing, stopped, incomplete,
                   packetQueue, queue, tail, sentinelSent, cleanup, delivery,
                   expired, sent, starts, accepted, emitted, delivered>>

(* The collector gives up an event it held.                                 *)
TakeHeld == held' = Tail(held)

(* _service_engine_clock, when no packet waits: an expired gap may release  *)
(* an event, or the collector raises.                                       *)
WorkerService ==
    /\ pc["worker"] = "get" /\ decodeEnabled
    /\ packetQueue = <<>> /\ decoder = None
    /\ \/ /\ held # <<>>
          /\ TakeHeld
          /\ at' = [at EXCEPT !["worker"] = Head(held)]
          /\ decoder' = "worker"
          /\ Goto("worker", "emit")
          /\ UNCHANGED <<failures, error, stopRequested>>
       \/ /\ MayFail
          /\ RecordError("decoder")
          /\ stopRequested' = TRUE
          /\ UNCHANGED <<held, at, decoder, pc>>
    /\ UNCHANGED <<captureVars, started, finalizing, stopped, incomplete,
                   packetQueue, queue, tail, sentinelSent, cleanup, delivery,
                   decodeEnabled, expired, sent, starts, history>>

WorkerRelease ==
    /\ pc["worker"] = "release"
    /\ delivery' = None /\ decoder' = None
    /\ at' = [at EXCEPT !["worker"] = None]
    /\ Goto("worker", "get")
    /\ UNCHANGED <<captureVars, lifecycle, queues, cleanup, decodeEnabled, expired,
                   bounds, history>>

Worker == WorkerGet \/ WorkerDecode \/ WorkerService \/ WorkerRelease
          \/ EmitEnter("worker") \/ EmitCheck("worker") \/ EmitPut("worker")

-----------------------------------------------------------------------------
(***************************************************************************)
(* _finish_stop, by whichever thread gets the cleanup lock.                *)
(***************************************************************************)
AfterStop == [monitor |-> "dead", control |-> "idle", consumer |-> "get"]
AfterRaise == [monitor |-> "dead", control |-> "idle", consumer |-> "idle"]

StopEnter(t) ==
    /\ pc[t] = "finish" /\ cleanup = None
    /\ \/ /\ stopped
          /\ Goto(t, AfterStop[t])
          /\ UNCHANGED <<cleanup, finalizing, stopRequested, error>>
       \/ /\ ~stopped
          /\ cleanup' = t
          /\ finalizing' = TRUE /\ stopRequested' = TRUE
          /\ IF captureError THEN RecordError("capture") ELSE UNCHANGED error
          /\ Goto(t, "stopCapture")
    /\ UNCHANGED <<captureVars, started, stopped, incomplete, queues, delivery,
                   decoder, decodeEnabled, at, expired, bounds, history>>

(* capture.stop(): the decoder is left alone until the native callback is   *)
(* known to be over; otherwise the stop raises and can be retried.          *)
StopCapture(t) ==
    /\ pc[t] = "stopCapture"
    /\ \/ /\ captureStopped
          /\ Goto(t, "signal")
          /\ UNCHANGED <<captureVars, error, incomplete, cleanup, failures>>
       \/ /\ CaptureStop(pc["sniffer"] = "put")
          /\ IF captureIncomplete' \/ (captureError' /\ ~captureError)
             THEN MayFail ELSE UNCHANGED failures
          /\ IF captureError' THEN RecordError("capture") ELSE UNCHANGED error
          /\ IF captureStopped'
             THEN Goto(t, "signal") /\ UNCHANGED <<incomplete, cleanup>>
             ELSE Goto(t, AfterRaise[t]) /\ incomplete' = TRUE /\ cleanup' = None
       \/ /\ ~captureStopped /\ ~captureStarted /\ ~captureIncomplete
          /\ RecordError("capture")
          /\ Goto(t, AfterRaise[t]) /\ incomplete' = TRUE /\ cleanup' = None
          /\ UNCHANGED <<captureVars, failures>>
    /\ UNCHANGED <<started, stopRequested, finalizing, stopped, queues, delivery,
                   decoder, decodeEnabled, at, expired, sent, starts, history>>

(* _signal_packet_worker_stop, before its deadline or not.                  *)
SignalWorker(t, here, there) ==
    /\ pc[t] = here
    /\ \/ /\ sentinelSent \/ WorkerDead
          /\ UNCHANGED <<packetQueue, sentinelSent, failures>>
       \/ /\ ~sentinelSent /\ ~WorkerDead
          /\ Len(packetQueue) < PacketQueueSize
          /\ packetQueue' = Append(packetQueue, Sentinel)
          /\ sentinelSent' = TRUE
          /\ UNCHANGED failures
       \/ /\ ~sentinelSent /\ ~WorkerDead
          /\ Len(packetQueue) >= PacketQueueSize
          /\ MayFail
          /\ UNCHANGED <<packetQueue, sentinelSent>>
    /\ Goto(t, there)
    /\ UNCHANGED <<captureVars, lifecycle, queue, tail, held, locks, decodeEnabled,
                   at, expired, sent, starts, history>>

(* The join shares the deadline of the signal: without a sentinel it has    *)
(* already passed.                                                          *)
DeadlinePasses == IF sentinelSent THEN MayFail ELSE UNCHANGED failures

JoinWorkerGivesUp(t) ==
    /\ pc[t] = "join"
    /\ IF WorkerDead THEN UNCHANGED failures ELSE DeadlinePasses
    /\ Goto(t, "finalize")
    /\ UNCHANGED <<captureVars, lifecycle, queues, locks, decodeEnabled, at, expired,
                   sent, starts, history>>

(* The join of the worker.                                                  *)
JoinWorker(t) ==
    /\ pc[t] = "join"
    /\ \/ /\ WorkerDead
          /\ Goto(t, "finalize")
          /\ UNCHANGED <<error, incomplete, cleanup, failures>>
       \/ /\ ~WorkerDead /\ DeadlinePasses
          /\ RecordError("cleanup")
          /\ incomplete' = TRUE /\ cleanup' = None
          /\ Goto(t, AfterRaise[t])
    /\ UNCHANGED <<captureVars, started, stopRequested, finalizing, stopped, queues,
                   delivery, decoder, decodeEnabled, at, expired, sent, starts, history>>

(* engine.finish() and collector.finalize(): what is held becomes events in *)
(* the tail, unless one of them raises.                                     *)
FinalizeCollector(t) ==
    /\ pc[t] = "finalize"
    /\ decoder = None /\ delivery = None
    /\ \E n \in 0..Len(held) :
          /\ tail' = tail \o SubSeq(held, 1, n)
          /\ emitted' = emitted \o SubSeq(held, 1, n)
          /\ IF n < Len(held)
             THEN MayFail /\ RecordError("finish")
             ELSE UNCHANGED <<failures, error>>
    /\ held' = <<>>
    /\ incomplete' = FALSE
    /\ stopped' = TRUE
    /\ cleanup' = None
    /\ Goto(t, AfterStop[t])
    /\ UNCHANGED <<captureVars, started, stopRequested, finalizing, packetQueue,
                   queue, sentinelSent, delivery, decoder, decodeEnabled, at,
                   expired, sent, starts, accepted, decoded, delivered>>

FinishStop(t) == StopEnter(t) \/ StopCapture(t) \/ SignalWorker(t, "signal", "join")
                 \/ JoinWorker(t) \/ FinalizeCollector(t)

-----------------------------------------------------------------------------
(* _monitor_stop_request                                                    *)
MonitorWakesOnError == stopRequested \/ captureError

MonitorWakes == stopRequested \/ captureError \/ ~CaptureRunning

MonitorWatch ==
    /\ pc["monitor"] = "watch" /\ MonitorWakes
    /\ IF ~stopRequested /\ captureError THEN RecordError("capture") ELSE UNCHANGED error
    /\ stopRequested' = TRUE
    /\ Goto("monitor", "leave")
    /\ UNCHANGED <<captureVars, started, finalizing, stopped, incomplete, queues,
                   locks, decodeEnabled, at, expired, bounds, history>>

MonitorLeave ==
    /\ pc["monitor"] = "leave"
    /\ IF ~stopped /\ captureError THEN RecordError("capture") ELSE UNCHANGED error
    /\ Goto("monitor", IF stopped THEN "dead" ELSE "finish")
    /\ UNCHANGED <<captureVars, started, stopRequested, finalizing, stopped,
                   incomplete, queues, locks, decodeEnabled, at, expired, bounds, history>>

Monitor == MonitorWatch \/ MonitorLeave \/ FinishStop("monitor")

-----------------------------------------------------------------------------
(* start(), under the cleanup lock from here to StartMonitor or the end of  *)
(* the rollback.                                                            *)
StartBegin ==
    /\ pc["control"] = "idle" /\ ~started /\ cleanup = None
    /\ starts < MaxStarts /\ starts' = starts + 1
    /\ started' = TRUE /\ stopped' = FALSE
    /\ stopRequested' = FALSE /\ finalizing' = FALSE
    /\ decodeEnabled' = TRUE
    /\ cleanup' = "control"
    /\ \/ /\ pc' = [pc EXCEPT !["control"] = "startCapture", !["worker"] = "get"]
          /\ UNCHANGED failures
       \/ /\ MayFail
          /\ Goto("control", "rollback")
    /\ UNCHANGED <<captureVars, error, incomplete, queues, delivery, decoder, at,
                   expired, sent, history>>

StartCapture ==
    /\ pc["control"] = "startCapture"
    /\ \/ /\ CaptureStartOK
          /\ Goto("control", "startMonitor")
          /\ UNCHANGED failures
       \/ /\ CaptureStartRefused \/ CaptureStartFailed
          /\ MayFail
          /\ Goto("control", "rollback")
    /\ UNCHANGED <<lifecycle, queues, locks, decodeEnabled, at, expired, sent,
                   starts, history>>

(* preflight() and the monitor thread                                       *)
StartMonitor ==
    /\ pc["control"] = "startMonitor"
    /\ \/ /\ pc' = [pc EXCEPT !["control"] = "idle", !["monitor"] = "watch"]
          /\ cleanup' = None
          /\ UNCHANGED failures
       \/ /\ MayFail
          /\ Goto("control", "rollback")
          /\ UNCHANGED cleanup
    /\ UNCHANGED <<captureVars, lifecycle, queues, delivery, decoder, decodeEnabled,
                   at, expired, sent, starts, history>>

(* _rollback_failed_start: stop the capture, and only if that is verified   *)
(* the worker.                                                              *)
KeepForRetry ==
    /\ RecordError("start")
    /\ incomplete' = TRUE
    /\ cleanup' = None
    /\ Goto("control", "idle")

RollbackCapture ==
    /\ pc["control"] = "rollback"
    /\ finalizing' = TRUE /\ stopRequested' = TRUE
    /\ IF captureStarted /\ ~captureStopped
       THEN /\ CaptureStop(pc["sniffer"] = "put")
            /\ IF captureIncomplete' THEN MayFail ELSE UNCHANGED failures
       ELSE UNCHANGED <<captureVars, failures>>
    /\ IF captureIncomplete' \/ (captureStarted' /\ ~captureStopped')
       THEN KeepForRetry
       ELSE Goto("control", "rollbackSignal") /\ UNCHANGED <<error, incomplete, cleanup>>
    /\ UNCHANGED <<started, stopped, queues, delivery, decoder, decodeEnabled, at,
                   expired, sent, starts, history>>

RollbackTimeout ==
    /\ pc["control"] = "rollbackJoin" /\ ~WorkerDead
    /\ DeadlinePasses
    /\ KeepForRetry
    /\ UNCHANGED <<captureVars, started, stopRequested, finalizing, stopped, queues,
                   delivery, decoder, decodeEnabled, at, expired, sent, starts, history>>

ClearAllButSentinel ==
    /\ packetQueue' = <<>> /\ queue' = <<>> /\ tail' = <<>> /\ held' = <<>>
    /\ UNCHANGED sentinelSent

ClearQueues ==
    /\ packetQueue' = <<>> /\ queue' = <<>> /\ tail' = <<>> /\ held' = <<>>
    /\ sentinelSent' = FALSE

(* _reset_after_failed_start                                                *)
RollbackReset ==
    /\ pc["control"] = "rollbackJoin" /\ WorkerDead
    /\ CaptureForget
    /\ started' = FALSE /\ stopped' = FALSE
    /\ stopRequested' = FALSE /\ finalizing' = FALSE
    /\ error' = None /\ incomplete' = FALSE
    /\ ClearQueues
    /\ cleanup' = None
    /\ pc' = [pc EXCEPT !["control"] = "idle", !["worker"] = "absent"]
    /\ accepted' = <<>> /\ decoded' = <<>> /\ emitted' = <<>>
    /\ UNCHANGED <<delivery, decoder, decodeEnabled, at, expired, bounds, delivered>>

Start == StartCapture \/ StartMonitor \/ RollbackCapture
         \/ SignalWorker("control", "rollbackSignal", "rollbackJoin")
         \/ RollbackTimeout \/ RollbackReset

(* stop() waits for the cleanup lock in _require_started.                   *)
Stop ==
    /\ pc["control"] = "idle" /\ started /\ ~stopped /\ cleanup = None
    /\ Goto("control", "finish")
    /\ UNCHANGED <<captureVars, lifecycle, queues, locks, decodeEnabled, at, expired,
                   bounds, history>>

RequestStop ==
    /\ started /\ ~stopped /\ ~(finalizing /\ stopRequested)
    /\ finalizing' = TRUE /\ stopRequested' = TRUE
    /\ UNCHANGED <<captureVars, started, stopped, error, incomplete, queues, locks,
                   decodeEnabled, pc, at, expired, bounds, history>>

Control == Start \/ FinishStop("control")

-----------------------------------------------------------------------------
(***************************************************************************)
(* The consumer: `for event in session.events()`, each step one poll with  *)
(* a timeout.                                                              *)
(***************************************************************************)
consumerOnly == <<captureVars, started, finalizing, stopped, incomplete, packetQueue,
                  sentinelSent, cleanup, decoder, decodeEnabled, sent, starts,
                  accepted, decoded, emitted>>

PollEnter ==
    /\ pc["consumer"] = "idle" /\ started /\ cleanup = None
    /\ expired' = FALSE
    /\ Goto("consumer", "serviceState")
    /\ UNCHANGED <<consumerOnly, stopRequested, error, queue, tail, held, delivery,
                   at, failures, delivered>>

(* _service_capture_state                                                   *)
ServiceCaptureState ==
    /\ pc["consumer"] = "serviceState"
    /\ IF stopped \/ (~stopRequested /\ ~captureError /\ CaptureRunning)
       THEN Goto("consumer", "get") /\ UNCHANGED error
       ELSE /\ Goto("consumer", "finish")
            /\ IF ~stopRequested /\ captureError
               THEN RecordError("capture") ELSE UNCHANGED error
    /\ UNCHANGED <<consumerOnly, stopRequested, queue, tail, held, delivery, at,
                   expired, failures, delivered>>

(* get_nowait of the event queue: return the event, or go on.               *)
TryGet(here, there, unlock) ==
    /\ pc["consumer"] = here
    /\ \/ /\ queue # <<>>
          /\ queue' = Tail(queue)
          /\ delivered' = Append(delivered, Head(queue))
          /\ Goto("consumer", "idle")
          /\ delivery' = IF delivery = "consumer" THEN None ELSE delivery
       \/ /\ queue = <<>>
          /\ Goto("consumer", there)
          /\ delivery' = IF unlock THEN None ELSE delivery
          /\ UNCHANGED <<queue, delivered>>
    /\ UNCHANGED <<consumerOnly, stopRequested, error, tail, held, at, expired, failures>>

LockDelivery ==
    /\ pc["consumer"] = "lockDelivery" /\ delivery = None
    /\ delivery' = "consumer"
    /\ Goto("consumer", "getLocked")
    /\ UNCHANGED <<consumerOnly, stopRequested, error, queue, tail, held, at, expired,
                   failures, delivered>>

(* _flush_stale: any number of held events are stale by now.                *)
FlushEnter ==
    /\ pc["consumer"] = "flushEnter"
    /\ Goto("consumer", IF stopped THEN "getFlushed" ELSE "flush")
    /\ UNCHANGED <<consumerOnly, stopRequested, error, queue, tail, held, delivery, at,
                   expired, failures, delivered>>

Flush ==
    /\ pc["consumer"] = "flush"
    /\ \/ /\ held # <<>>
          /\ at' = [at EXCEPT !["consumer"] = Head(held)]
          /\ TakeHeld
          /\ Goto("consumer", "emit")
          /\ UNCHANGED <<error, stopRequested, failures>>
       \/ /\ at' = [at EXCEPT !["consumer"] = None]
          /\ Goto("consumer", "getFlushed")
          /\ UNCHANGED <<held, error, stopRequested, failures>>
       \/ /\ MayFail
          /\ RecordError("flush")
          /\ stopRequested' = TRUE
          /\ at' = [at EXCEPT !["consumer"] = None]
          /\ Goto("consumer", "getFlushed")
          /\ UNCHANGED held
    /\ UNCHANGED <<consumerOnly, queue, tail, delivery, expired, delivered>>

(* The end of the poll loop: the tail, the retained error, None, or a wait. *)
PollFinal ==
    /\ pc["consumer"] = "final"
    /\ \/ /\ stopped /\ tail # <<>>
          /\ tail' = Tail(tail)
          /\ delivered' = Append(delivered, Head(tail))
          /\ Goto("consumer", "idle")
       \/ /\ stopped /\ tail = <<>>
          /\ Goto("consumer", IF error # None THEN "raised" ELSE "none")
          /\ UNCHANGED <<tail, delivered>>
       \/ /\ ~stopped
          /\ Goto("consumer", IF expired THEN "none" ELSE "wait")
          /\ UNCHANGED <<tail, delivered>>
    /\ UNCHANGED <<consumerOnly, stopRequested, error, queue, held, delivery, at,
                   expired, failures>>

PollTimeout ==
    /\ pc["consumer"] = "wait" /\ queue = <<>>
    /\ expired' = TRUE
    /\ Goto("consumer", "serviceState")
    /\ UNCHANGED <<consumerOnly, stopRequested, error, queue, tail, held, delivery, at,
                   failures, delivered>>

(* _iterate_events: after a poll that returned None.                        *)
IterateEvents ==
    /\ pc["consumer"] = "none"
    /\ Goto("consumer", IF stopped THEN "ended" ELSE "idle")
    /\ UNCHANGED <<consumerOnly, stopRequested, error, queue, tail, held, delivery, at,
                   expired, failures, delivered>>

Poll ==
    \/ ServiceCaptureState
    \/ TryGet("get", "lockDelivery", FALSE)
    \/ LockDelivery
    \/ TryGet("getLocked", "flushEnter", FALSE)
    \/ FlushEnter
    \/ Flush
    \/ EmitEnter("consumer") \/ EmitCheck("consumer") \/ EmitPut("consumer")
    \/ TryGet("getFlushed", "final", TRUE)
    \/ PollFinal
    \/ (queue # <<>> /\ TryGet("wait", "wait", FALSE))
    \/ PollTimeout
    \/ IterateEvents
    \/ FinishStop("consumer")

-----------------------------------------------------------------------------
Terminated ==
    /\ \/ pc["consumer"] \in {"ended", "raised"}
       \/ ~started /\ starts = MaxStarts
    /\ \A t \in {"sniffer", "worker", "monitor", "control"} :
          pc[t] \in {"idle", "dead", "absent"}
    /\ UNCHANGED vars

Next ==
    \/ PacketArrives \/ PutPacket \/ SourceEnds
    \/ Worker \/ Monitor \/ Control \/ Poll
    \/ StartBegin \/ Stop \/ RequestStop \/ PollEnter
    \/ Terminated

Spec == Init /\ [][Next]_vars

(* Every running thread goes on; nobody has to call start, stop or poll.    *)
Fairness ==
    /\ WF_vars(PutPacket) /\ WF_vars(Worker) /\ WF_vars(Monitor)
    /\ WF_vars(Control) /\ WF_vars(Poll)

LiveSpec == Spec /\ Fairness

-----------------------------------------------------------------------------
(***************************************************************************)
(* Properties.                                                             *)
(***************************************************************************)
Errors == {None, "overflow", "decoder", "capture", "cleanup", "finish", "flush", "start"}

StopLabels == {"finish", "stopCapture", "signal", "join", "finalize"}
EmitLabels == {"emit", "emitCheck", "emitPut"}

SnifferLabels == {"idle", "put"}
WorkerLabels == {"absent", "get", "decode", "release", "dead"} \cup EmitLabels
MonitorLabels == {"absent", "watch", "leave", "dead"} \cup StopLabels
ControlLabels == {"idle", "startCapture", "startMonitor", "rollback",
                  "rollbackSignal", "rollbackJoin"} \cup StopLabels
ConsumerLabels == {"idle", "serviceState", "get", "lockDelivery", "getLocked",
                   "flushEnter", "flush", "getFlushed", "final", "wait", "none",
                   "ended", "raised"} \cup StopLabels \cup EmitLabels
Labels == SnifferLabels \cup WorkerLabels \cup MonitorLabels \cup ControlLabels
          \cup ConsumerLabels

LifecycleOK ==
    /\ CaptureTypeOK
    /\ started \in BOOLEAN /\ stopRequested \in BOOLEAN
    /\ finalizing \in BOOLEAN /\ stopped \in BOOLEAN
    /\ error \in Errors /\ incomplete \in BOOLEAN
    /\ sentinelSent \in BOOLEAN /\ decodeEnabled \in BOOLEAN /\ expired \in BOOLEAN
    /\ sent \in 0..MaxPackets /\ failures \in Nat /\ starts \in Nat

QueuesOK ==
    /\ packetQueue \in Seq(Packets \cup {Sentinel})
    /\ queue \in Seq(Packets) /\ tail \in Seq(Packets) /\ held \in Seq(Packets)
    /\ accepted \in Seq(Packets) /\ decoded \in Seq(Packets)
    /\ emitted \in Seq(Packets) /\ delivered \in Seq(Packets)

ThreadsOK ==
    /\ pc \in [Threads -> Labels]
    /\ pc["sniffer"] \in SnifferLabels /\ pc["worker"] \in WorkerLabels
    /\ pc["monitor"] \in MonitorLabels /\ pc["control"] \in ControlLabels
    /\ pc["consumer"] \in ConsumerLabels
    /\ at \in [Threads -> Packets \cup {None}]
    /\ cleanup \in Stoppers \cup {None}
    /\ delivery \in Emitters \cup {None}
    /\ decoder \in {"worker", None}

(* The state has its types, and each thread is at a label of its own code.  *)
TypeOK == LifecycleOK /\ QueuesOK /\ ThreadsOK

(* Decoder state is finished only when nobody else can touch it: the native *)
(* callback is over and the worker is dead, although either may have        *)
(* outlived the deadline of an earlier stop (_finish_stop's order).         *)
FinishedAlone ==
    (stopped \/ \E t \in Stoppers : pc[t] = "finalize") =>
        /\ captureStopped /\ pc["sniffer"] = "idle"
        /\ WorkerDead

(* A session that ends without an error decoded every packet it accepted,   *)
(* in the order of the wire: the sentinel cannot overtake a packet.         *)
CleanStopDecodesAll ==
    stopped /\ error = None => decoded = accepted /\ packetQueue = <<>>

(* A rolled-back start leaves nothing behind that the next start would      *)
(* inherit: no thread, no backend, no queued packet, sentinel or event      *)
(* (_rollback_failed_start, _reset_after_failed_start).                     *)
RolledBackIsFresh ==
    ~started =>
        /\ packetQueue = <<>> /\ queue = <<>> /\ tail = <<>>
        /\ WorkerDead /\ pc["monitor"] \in {"absent", "dead"}
        /\ pc["sniffer"] = "idle" /\ sniffer # "alive" /\ ~socket
        /\ ~stopRequested /\ ~finalizing /\ ~sentinelSent /\ error = None

(* An event is in one place only: nothing is delivered twice, whichever of  *)
(* the queue, the tail and the collector it went through.                   *)
DeliveredOnce == IsInjective(delivered \o queue \o tail \o held)

(* Until a stop is requested no event is lost, however long the consumer    *)
(* leaves the queue full (_enqueue's backpressure).                         *)
NoLossBeforeStop ==
    ~stopRequested =>
        ToSet(emitted) \subseteq
            ToSet(delivered) \cup ToSet(queue) \cup ToSet(tail)
            \cup {at[t] : t \in {e \in Emitters : pc[e] \in EmitLabels}}

(* What must not last, with no consumer polling and in whatever state the   *)
(* queues are: a stop that is requested and has neither ended nor reported  *)
(* that cleanup is incomplete, and a session whose capture ended by itself  *)
(* (_monitor_stop_request, _finish_stop).                                   *)
StopOwed ==
    /\ started /\ (stopRequested \/ sniffer = "dead")
    /\ ~stopped /\ ~incomplete

(* What request_stop()'s comment says: events of packets accepted before    *)
(* the request remain deliverable.                                          *)
AcceptedEventsDeliverable ==
    stopped /\ error = None =>
        ToSet(accepted) \subseteq ToSet(delivered) \cup ToSet(queue) \cup ToSet(tail)

(* What events() says: the iterator ends after stop() and draining.         *)
IteratorDrains ==
    pc["consumer"] = "ended" => queue = <<>> /\ tail = <<>>

(* What poll() says: one event, or None on timeout.                         *)
PollReturns ==
    pc["consumer"] # "idle" ~> pc["consumer"] \in {"idle", "ended", "raised"}
=============================================================================
