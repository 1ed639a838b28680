----------------------------- MODULE SolareSession -----------------------------
(***************************************************************************)
(* LiveSolareSession of solare/session.py with its SolareFrameCollector    *)
(* and LiveSolareDiscoveryTracker.  Threads:                               *)
(*   sniffer   the native callback, _enqueue_packet                        *)
(*   worker    _run_worker: writes, decodes, and finishes the session      *)
(*   main      the application's start(), then stop()                      *)
(*   stopper   another stop()                                              *)
(*   consumer  updates()                                                   *)
(* Whether a packet, a quiet moment or the end completes the structural    *)
(* evidence, and whether TCP reassembly had to skip bytes before it, is    *)
(* the environment's choice (SolareEvidence has the rules).                *)
(***************************************************************************)
EXTENDS PacketCapture, Integers, FiniteSets, Sequences, SequencesExt

CONSTANTS
    PacketQueueSize,  \* LIVE_PACKET_QUEUE_MAX
    UpdateQueueSize,  \* LIVE_UPDATE_QUEUE_MAX
    SavePcap,         \* save_pcap is given
    MaxPackets,       \* bound: packets on the wire
    MaxFailures,      \* bound: failures and expired deadlines
    None

SolareConstants ==
    /\ PacketQueueSize \in Nat \ {0} /\ UpdateQueueSize \in Nat \ {0}
    /\ SavePcap \in BOOLEAN /\ Windows \in BOOLEAN
    /\ MaxPackets \in Nat /\ MaxFailures \in Nat
    /\ None \notin {"main", "stopper", "worker", "complete", "incomplete", "requested",
                    "resource-limit", "error", "ended", "clean", "lossy"}

Callers == {"main", "stopper"}
Finishers == Callers \cup {"worker"}      \* threads that may run _finish_worker

VARIABLES
    stopOnComplete,   \* the option of that name
    session,          \* the flags and Events of the session
    pipe,             \* queues, raw file, and the losses counted so far
    snapshot,         \* the tracker's verdict, the latched health, the result
    lock,             \* owner of _finish_lock
    pc, back,         \* where each thread is, and where its callback returns to
    hand,             \* the packet that is decoded
    sent, failures,   \* bounded environment
    accepted, written,   \* history
    finals, finalSeen,   \* history: FINISHED updates published, and taken
    announced,        \* history: health when SNAPSHOT_CONFIRMED was published
    rawFailed         \* history: the raw file is not complete

environment == <<sent, failures>>
history == <<accepted, written, finals, finalSeen, announced, rawFailed>>
vars == <<captureVars, stopOnComplete, session, pipe, snapshot, lock, pc, back,
          hand, environment, history>>

Init ==
    /\ CaptureInit
    /\ stopOnComplete \in BOOLEAN
    /\ session = [attempted |-> FALSE, started |-> FALSE, requested |-> FALSE,
                  stopped |-> FALSE, ready |-> FALSE, incomplete |-> FALSE,
                  failed |-> FALSE, reason |-> None]
    /\ pipe = [packets |-> <<>>, updates |-> <<>>, writer |-> FALSE,
               broken |-> FALSE, overflow |-> FALSE, gaps |-> FALSE,
               warned |-> FALSE, traffic |-> FALSE]
    /\ snapshot = [confirmed |-> FALSE, latched |-> None, result |-> None]
    /\ lock = None
    /\ pc = [t \in Finishers \cup {"sniffer", "consumer"} |->
                IF t = "worker" THEN "absent" ELSE "idle"]
    /\ back = [t \in Finishers |-> None] /\ hand = 0
    /\ sent = 0 /\ failures = 0
    /\ accepted = <<>> /\ written = <<>> /\ finals = 0 /\ finalSeen = FALSE
    /\ announced = None /\ rawFailed = FALSE

Goto(t, label) == pc' = [pc EXCEPT ![t] = label]
Leave(t) == Goto(t, IF t = "worker" THEN "dead" ELSE "idle")

MayFail == failures < MaxFailures /\ failures' = failures + 1

(* _record_error, and _set_requested_reason with _stop_requested.set().     *)
Failing(s) == [s EXCEPT !.failed = TRUE]
Requesting(s, why) ==
    [s EXCEPT !.requested = TRUE, !.reason = IF @ = None THEN why ELSE @]

WorkerGone == pc["worker"] \in {"absent", "dead"}

-----------------------------------------------------------------------------

(* _queue_update: the oldest updates make room for a new one.               *)
Queued(updates, kind) ==
    LET all == Append(updates, kind)
    IN  SubSeq(all, Max({1, Len(all) - UpdateQueueSize + 1}), Len(all))

(* capture_is_clean of the health counted so far.                           *)
Health(p) == IF p.gaps \/ p.overflow THEN "lossy" ELSE "clean"

RelatchedConfirmation(s, p) == [s EXCEPT !.confirmed = TRUE, !.latched = Health(p)]

(* _latch_confirmation: the health of the first confirmed window, for ever. *)
LatchedConfirmation(s, p) ==
    [s EXCEPT !.confirmed = TRUE, !.latched = IF @ = None THEN Health(p) ELSE @]

(* _emit, before the callback: a confirmation is latched first.             *)
Emit(t, kind, next, p) ==
    /\ pipe' = [p EXCEPT !.updates = Queued(@, kind)]
    /\ finals' = IF kind = "finished" THEN finals + 1 ELSE finals
    /\ Goto(t, "notify") /\ back' = [back EXCEPT ![t] = next]
    /\ IF kind = "confirmed"
       THEN snapshot' = LatchedConfirmation(snapshot, p) /\ announced' = Health(p)
       ELSE UNCHANGED <<snapshot, announced>>

(* _notify_update: the callback returns, or raises and ends the session.    *)
Notify(t) ==
    /\ pc[t] = "notify"
    /\ \/ UNCHANGED failures /\ session' = [session EXCEPT !.ready = @ \/ t = "main"]
       \/ MayFail /\ session' = [Requesting(Failing(session), "error") EXCEPT
                                    !.ready = @ \/ t = "main"]
    /\ Goto(t, back[t])
    /\ UNCHANGED <<captureVars, stopOnComplete, pipe, snapshot, lock, back, hand,
                   sent, history>>

-----------------------------------------------------------------------------
(* _enqueue_packet: looks at the request, then puts the packet or ends the  *)
(* session because there is no room.                                        *)
PacketArrives ==
    /\ pc["sniffer"] = "idle" /\ sniffer = "alive" /\ ~session.requested
    /\ sent < MaxPackets /\ sent' = sent + 1
    /\ Goto("sniffer", "put")
    /\ UNCHANGED <<captureVars, stopOnComplete, session, pipe, snapshot, lock, back,
                   hand, failures, history>>

PutPacket ==
    /\ pc["sniffer"] = "put"
    /\ IF Len(pipe.packets) < PacketQueueSize
       THEN /\ pipe' = [pipe EXCEPT !.packets = Append(@, sent)]
            /\ accepted' = Append(accepted, sent)
            /\ UNCHANGED session
       ELSE /\ pipe' = [pipe EXCEPT !.overflow = TRUE]
            /\ session' = Requesting(session, "resource-limit")
            /\ UNCHANGED accepted
    /\ Goto("sniffer", "idle")
    /\ UNCHANGED <<captureVars, stopOnComplete, snapshot, lock, back, hand,
                   environment, written, finals, finalSeen, announced, rawFailed>>

SourceEnds ==
    /\ CaptureEnds /\ pc["sniffer"] = "idle"
    /\ UNCHANGED <<stopOnComplete, session, pipe, snapshot, lock, pc, back, hand,
                   environment, history>>

-----------------------------------------------------------------------------
(* start, up to the capture: a bad save path ends the session at once.      *)
Start ==
    /\ pc["main"] = "idle" /\ ~session.attempted /\ lock = None
    /\ \/ /\ session' = [session EXCEPT !.attempted = TRUE]
          /\ Goto("main", "open") /\ lock' = "main" /\ UNCHANGED failures
       \/ /\ MayFail
          /\ session' = [Failing(session) EXCEPT !.attempted = TRUE, !.ready = TRUE,
                             !.reason = "error", !.stopped = TRUE]
          /\ UNCHANGED <<pc, lock>>
    /\ UNCHANGED <<captureVars, stopOnComplete, pipe, snapshot, back, hand, sent,
                   history>>

OpenCapture ==
    /\ pc["main"] = "open"
    /\ \/ CaptureStartOK /\ Goto("main", "launch") /\ UNCHANGED failures
       \/ MayFail /\ (CaptureStartRefused \/ CaptureStartFailed) /\ Goto("main", "undo")
    /\ UNCHANGED <<stopOnComplete, session, pipe, snapshot, lock, back, hand, sent,
                   history>>

(* The raw file and the worker; the ready update is queued under the lock   *)
(* and its callback runs outside it, before the worker may begin.           *)
Launch ==
    /\ pc["main"] = "launch"
    /\ \/ /\ pipe' = [pipe EXCEPT !.writer = SavePcap, !.updates = Queued(@, "ready")]
          /\ session' = [session EXCEPT !.started = TRUE]
          /\ pc' = [pc EXCEPT !["main"] = "notify", !["worker"] = "wait"]
          /\ back' = [back EXCEPT !["main"] = "idle"]
          /\ lock' = None
          /\ UNCHANGED failures
       \/ /\ MayFail /\ Goto("main", "undo")
          /\ UNCHANGED <<pipe, session, back, lock>>
    /\ UNCHANGED <<captureVars, stopOnComplete, snapshot, hand, sent, history>>

(* capture.stop(), which raises when there never was a backend.             *)
StopAttempt ==
    \/ /\ CaptureStop(pc["sniffer"] = "put")
       /\ \/ (captureStopped' \/ pc["sniffer"] = "put") /\ UNCHANGED failures
          \/ ~captureStopped' /\ MayFail
    \/ /\ captureStopped \/ (~captureStarted /\ ~captureIncomplete)
       /\ UNCHANGED <<captureVars, failures>>

(* start's rollback: a capture that is not stopped keeps its owners for a   *)
(* later stop().                                                            *)
Undo ==
    /\ pc["main"] = "undo"
    /\ StopAttempt
    /\ Goto("main", "idle") /\ lock' = None
    /\ IF captureStopped'
       THEN /\ session' = [Failing(session) EXCEPT !.ready = TRUE, !.reason = "error",
                               !.stopped = TRUE]
            /\ pipe' = [pipe EXCEPT !.packets = <<>>]
       ELSE /\ session' = [Failing(session) EXCEPT !.ready = TRUE, !.reason = "error",
                               !.incomplete = TRUE, !.started = TRUE, !.requested = TRUE]
            /\ UNCHANGED pipe
    /\ rawFailed' = TRUE
    /\ UNCHANGED <<stopOnComplete, snapshot, back, hand, sent, accepted, written,
                   finals, finalSeen, announced>>

-----------------------------------------------------------------------------
(* _run_worker: one turn looks at the request and at the capture, then      *)
(* takes a packet or finds none.                                            *)
Loop ==
    /\ pc["worker"] = "loop" \/ (pc["worker"] = "wait" /\ session.ready)
    /\ \/ /\ session.requested
          /\ Goto("worker", "lock") /\ UNCHANGED <<session, pipe, hand>>
       \/ /\ ~session.requested /\ captureError
          /\ session' = Failing(session)
          /\ Goto("worker", "lock") /\ UNCHANGED <<pipe, hand>>
       \/ /\ ~session.requested /\ ~captureError /\ pipe.packets # <<>>
          /\ hand' = Head(pipe.packets) /\ pipe' = [pipe EXCEPT !.packets = Tail(@)]
          /\ Goto("worker", "write") /\ UNCHANGED session
       \/ /\ ~session.requested /\ ~captureError /\ pipe.packets = <<>>
          /\ Goto("worker", "empty") /\ UNCHANGED <<session, pipe, hand>>
    /\ UNCHANGED <<captureVars, stopOnComplete, snapshot, lock, back, environment,
                   history>>

FoundEmpty ==
    /\ pc["worker"] = "empty"
    /\ Goto("worker", IF CaptureRunning THEN "service" ELSE "lock")
    /\ UNCHANGED <<captureVars, stopOnComplete, session, pipe, snapshot, lock, back,
                   hand, environment, history>>

(* _service_drained_clocks: with nothing queued, candidates that have been  *)
(* quiet for a while are finalized, which may confirm them.                 *)
Service ==
    /\ pc["worker"] = "service"
    /\ \/ /\ Goto("worker", "check")
          /\ UNCHANGED <<session, pipe, snapshot, back, failures, finals, announced>>
       \/ /\ pipe.packets = <<>> /\ pipe.traffic /\ ~snapshot.confirmed
          /\ Emit("worker", "confirmed", "check", pipe)
          /\ UNCHANGED <<session, failures>>
       \/ /\ pipe.packets = <<>> /\ pipe.traffic /\ ~snapshot.confirmed /\ MayFail
          /\ session' = Failing(session) /\ Goto("worker", "lock")
          /\ UNCHANGED <<pipe, snapshot, back, finals, announced>>
    /\ UNCHANGED <<captureVars, stopOnComplete, lock, hand, sent, accepted, written,
                   finalSeen, rawFailed>>

CheckComplete ==
    /\ pc["worker"] = "check"
    /\ Goto("worker", IF stopOnComplete /\ snapshot.confirmed THEN "lock" ELSE "loop")
    /\ UNCHANGED <<captureVars, stopOnComplete, session, pipe, snapshot, lock, back,
                   hand, environment, history>>

-----------------------------------------------------------------------------
(* _process_packet of the worker's loop, or of the thread that drains.      *)
After(t) == IF lock = t THEN "drain" ELSE "service"

(* The packet is written before anything can fail; a raw file that fails is *)
(* given up and ends the session.                                           *)
WritePacket(t) ==
    /\ pc[t] = "write"
    /\ \/ /\ written' = IF pipe.writer THEN Append(written, hand) ELSE written
          /\ UNCHANGED <<session, pipe, failures, rawFailed>>
       \/ /\ pipe.writer /\ MayFail
          /\ session' = Requesting(Failing(session), "error")
          /\ pipe' = [pipe EXCEPT !.writer = FALSE] /\ rawFailed' = TRUE
          /\ UNCHANGED written
    /\ Goto(t, IF pipe.broken THEN "drain" ELSE "decode")
    /\ UNCHANGED <<captureVars, stopOnComplete, snapshot, lock, back, hand, sent,
                   accepted, finals, finalSeen, announced>>

(* The handler: traffic is announced once; bytes may be skipped, frames may *)
(* complete the evidence; or it raises.                                     *)
Decode(t) ==
    /\ pc[t] = "decode"
    /\ \/ /\ ~pipe.traffic
          /\ Emit(t, "traffic", "decode", [pipe EXCEPT !.traffic = TRUE])
          /\ UNCHANGED <<session, failures>>
       \/ /\ pipe.traffic
          /\ \E gap \in {pipe.gaps, TRUE} :
                LET p == [pipe EXCEPT !.gaps = gap]
                IN  \/ /\ pipe' = p /\ Goto(t, "decoded")
                       /\ UNCHANGED <<snapshot, back, finals, announced>>
                    \/ ~snapshot.confirmed /\ Emit(t, "confirmed", "decoded", p)
          /\ UNCHANGED <<session, failures>>
       \/ /\ pipe.traffic /\ MayFail
          /\ session' = Failing(session) /\ pipe' = [pipe EXCEPT !.broken = TRUE]
          /\ Goto(t, IF lock = t THEN "drain" ELSE "lock")
          /\ UNCHANGED <<snapshot, back, finals, announced>>
    /\ UNCHANGED <<captureVars, stopOnComplete, lock, hand, sent, accepted, written,
                   finalSeen, rawFailed>>

(* _announce_tcp_gap_loss, once and only before the confirmation.           *)
Decoded(t) ==
    /\ pc[t] = "decoded"
    /\ IF pipe.gaps /\ ~pipe.warned /\ snapshot.latched = None
       THEN Emit(t, "warning", After(t), [pipe EXCEPT !.warned = TRUE])
       ELSE /\ Goto(t, After(t))
            /\ snapshot' = IF snapshot.confirmed THEN LatchedConfirmation(snapshot, pipe)
                                                 ELSE snapshot
            /\ UNCHANGED <<pipe, back, finals, announced>>
    /\ UNCHANGED <<captureVars, stopOnComplete, session, lock, hand, environment,
                   accepted, written, finalSeen, rawFailed>>

Process(t) == WritePacket(t) \/ Decode(t) \/ Decoded(t)

-----------------------------------------------------------------------------
(* _finish_worker under _finish_lock.                                       *)
FinishEnter(t) ==
    /\ pc[t] = "lock" /\ lock = None
    /\ IF session.stopped
       THEN Leave(t) /\ UNCHANGED <<session, lock>>
       ELSE /\ session' = [session EXCEPT !.requested = TRUE]
            /\ lock' = t /\ Goto(t, "release")
    /\ UNCHANGED <<captureVars, stopOnComplete, pipe, snapshot, back, hand,
                   environment, history>>

KeptIncomplete(s) == [Failing(s) EXCEPT !.incomplete = TRUE]

(* The capture is stopped, or everything stays for a later stop().          *)
FinishCapture(t) ==
    /\ pc[t] = "release"
    /\ StopAttempt
    /\ IF captureStopped'
       THEN /\ session' \in {Failing(session)} \cup
                            (IF captureError' THEN {} ELSE {session})
            /\ Goto(t, "drain") /\ UNCHANGED lock
       ELSE /\ session' = KeptIncomplete(session)
            /\ lock' = None /\ Leave(t)
    /\ UNCHANGED <<stopOnComplete, pipe, snapshot, back, hand, sent, history>>

DrainSkipsBroken(t) ==
    /\ pc[t] = "drain"
    /\ IF pipe.packets = <<>> \/ pipe.broken
       THEN Goto(t, "final") /\ pipe' = [pipe EXCEPT !.packets = <<>>] /\ UNCHANGED hand
       ELSE /\ hand' = Head(pipe.packets) /\ pipe' = [pipe EXCEPT !.packets = Tail(@)]
            /\ Goto(t, "write")
    /\ UNCHANGED <<captureVars, stopOnComplete, session, snapshot, lock, back,
                   environment, history>>

(* The queue is drained; behind a broken decoder only the raw file is fed.  *)
Drain(t) ==
    /\ pc[t] = "drain"
    /\ IF pipe.packets = <<>>
       THEN Goto(t, "final") /\ UNCHANGED <<pipe, hand>>
       ELSE /\ hand' = Head(pipe.packets) /\ pipe' = [pipe EXCEPT !.packets = Tail(@)]
            /\ Goto(t, "write")
    /\ UNCHANGED <<captureVars, stopOnComplete, session, snapshot, lock, back,
                   environment, history>>

(* collector.finish() and tracker.refresh(): the end of the flows may skip  *)
(* bytes, and the last look may confirm.                                    *)
FinishDecoder(t) ==
    /\ pc[t] = "final"
    /\ \/ /\ \E gap \in {pipe.gaps, pipe.gaps \/ pipe.traffic} :
                LET p == [pipe EXCEPT !.gaps = gap]
                IN  \/ /\ pipe' = p /\ Goto(t, "build")
                       /\ UNCHANGED <<snapshot, back, finals, announced>>
                    \/ /\ pipe.traffic /\ ~snapshot.confirmed
                       /\ Emit(t, "confirmed", "build", p)
          /\ UNCHANGED <<session, failures>>
       \/ /\ MayFail
          /\ session' = Failing(session) /\ pipe' = [pipe EXCEPT !.broken = TRUE]
          /\ Goto(t, "build")
          /\ UNCHANGED <<snapshot, back, finals, announced>>
    /\ UNCHANGED <<captureVars, stopOnComplete, lock, hand, sent, accepted, written,
                   finalSeen, rawFailed>>

(* build_solare_result: complete only for evidence whose health, latched or *)
(* else final, is clean.                                                    *)
Verdict ==
    LET health == IF snapshot.latched # None THEN snapshot.latched ELSE Health(pipe)
    IN  IF snapshot.confirmed /\ health = "clean" THEN "complete" ELSE "incomplete"

(* The raw file is closed and the result stored; it is announced as         *)
(* finished after a warning about packets or flows the session gave up.     *)
Build(t) ==
    /\ pc[t] = "build"
    /\ \/ UNCHANGED <<session, failures>>
       \/ MayFail /\ session' = Failing(session)
    /\ \/ /\ ~pipe.broken
          /\ snapshot' = [snapshot EXCEPT !.result = Verdict]
          /\ Goto(t, IF pipe.overflow THEN "warn" ELSE "finished")
       \/ /\ pipe.broken \/ failures' # failures
          /\ Goto(t, "settle") /\ UNCHANGED snapshot
    /\ pipe' = [pipe EXCEPT !.writer = FALSE]
    /\ UNCHANGED <<captureVars, stopOnComplete, lock, back, hand, sent, history>>

Announce(t) ==
    /\ \/ pc[t] = "warn" /\ Emit(t, "warning", "finished", pipe)
       \/ pc[t] = "finished" /\ Emit(t, "finished", "settle", pipe)
    /\ UNCHANGED <<captureVars, stopOnComplete, session, lock, hand, environment,
                   accepted, written, finalSeen, rawFailed>>

Settle(t) ==
    /\ pc[t] = "settle"
    /\ session' = [session EXCEPT !.stopped = TRUE, !.incomplete = FALSE,
                       !.reason = IF session.failed THEN "error"
                                  ELSE IF @ = None THEN "ended" ELSE @]
    /\ lock' = None /\ Leave(t)
    /\ UNCHANGED <<captureVars, stopOnComplete, pipe, snapshot, back, hand,
                   environment, history>>

Finish(t) == FinishEnter(t) \/ FinishCapture(t) \/ Drain(t) \/ FinishDecoder(t)
             \/ Build(t) \/ Announce(t) \/ Settle(t)

-----------------------------------------------------------------------------
(* request_stop, from a callback or another thread; it asks for nothing     *)
(* once there is a result.                                                  *)
Asked == IF session.stopped \/ snapshot.result # None THEN session
         ELSE Requesting(session, "requested")

RequestStop ==
    /\ session.started /\ session' = Asked
    /\ UNCHANGED <<captureVars, stopOnComplete, pipe, snapshot, lock, pc, back, hand,
                   environment, history>>

(* stop: the request, the join with a deadline, and, when the worker is     *)
(* gone without having finished, the finish.                                *)
StopCall(t) ==
    /\ pc[t] = "idle" /\ session.started /\ ~session.stopped
    /\ session' = [Asked EXCEPT !.ready = TRUE]
    /\ Goto(t, "join")
    /\ UNCHANGED <<captureVars, stopOnComplete, pipe, snapshot, lock, back, hand,
                   environment, history>>

WorkerJoined == WorkerGone \/ session.stopped

JoinWorker(t) ==
    /\ pc[t] = "join"
    /\ \/ /\ WorkerJoined
          /\ Goto(t, IF session.stopped THEN "idle" ELSE "lock") /\ UNCHANGED failures
       \/ ~WorkerGone /\ MayFail /\ Goto(t, "late")
    /\ UNCHANGED <<captureVars, stopOnComplete, session, pipe, snapshot, lock, back,
                   hand, sent, history>>

(* The deadline is over: the capture is stopped, the worker keeps the rest. *)
JoinExpired(t) ==
    /\ pc[t] = "late"
    /\ session' = [Failing(session) EXCEPT !.incomplete = TRUE]
    /\ StopAttempt
    /\ Goto(t, "idle")
    /\ UNCHANGED <<stopOnComplete, pipe, snapshot, lock, back, hand, sent, history>>

-----------------------------------------------------------------------------
(* updates(): an update, or the end when there is none and the session has  *)
(* stopped; an incomplete cleanup raises its error.                         *)
PollUpdate ==
    /\ pc["consumer"] = "idle" /\ session.started
    /\ IF pipe.updates # <<>>
       THEN /\ finalSeen' = (finalSeen \/ Head(pipe.updates) = "finished")
            /\ pipe' = [pipe EXCEPT !.updates = Tail(@)]
            /\ UNCHANGED pc
       ELSE Goto("consumer", "look") /\ UNCHANGED <<finalSeen, pipe>>
    /\ UNCHANGED <<captureVars, stopOnComplete, session, snapshot, lock, back, hand,
                   environment, accepted, written, finals, announced, rawFailed>>

PollLook ==
    /\ pc["consumer"] = "look"
    /\ Goto("consumer", IF session.stopped \/ (session.incomplete /\ session.failed)
                        THEN "done" ELSE "idle")
    /\ UNCHANGED <<captureVars, stopOnComplete, session, pipe, snapshot, lock, back,
                   hand, environment, history>>

-----------------------------------------------------------------------------
Worker == Loop \/ FoundEmpty \/ Service \/ CheckComplete
          \/ Process("worker") \/ Finish("worker") \/ Notify("worker")
Caller(t) == JoinWorker(t) \/ JoinExpired(t) \/ Process(t) \/ Finish(t) \/ Notify(t)
Main == Start \/ OpenCapture \/ Launch \/ Undo \/ Caller("main")

(* Nothing more is asked of a session that has stopped.                     *)
Rest == session.stopped /\ UNCHANGED vars

Next ==
    \/ PacketArrives \/ PutPacket \/ SourceEnds
    \/ Worker \/ Main \/ Caller("stopper")
    \/ RequestStop \/ \E t \in Callers : StopCall(t)
    \/ PollUpdate \/ PollLook
    \/ Rest

Spec == Init /\ [][Next]_vars

(* The threads run, callbacks return, and the application calls stop()      *)
(* again when it was told that the cleanup is incomplete.                   *)
Retry == session.incomplete /\ \E t \in Callers : StopCall(t)

FairSpec ==
    /\ Spec
    /\ WF_vars(PutPacket) /\ WF_vars(Worker) /\ WF_vars(Main)
    /\ WF_vars(Caller("stopper")) /\ WF_vars(Retry)

-----------------------------------------------------------------------------
(***************************************************************************)
(* Properties.                                                             *)
(***************************************************************************)
Labels == {"absent", "dead", "idle", "put", "open", "launch", "undo", "notify",
           "wait", "loop", "empty", "service", "check", "write", "decode", "decoded",
           "lock", "release", "drain", "final", "build", "warn", "finished", "settle",
           "join", "late", "look", "done"}

SolareTypeOK ==
    /\ CaptureTypeOK
    /\ session \in [attempted : BOOLEAN, started : BOOLEAN, requested : BOOLEAN,
                    stopped : BOOLEAN, ready : BOOLEAN, incomplete : BOOLEAN,
                    failed : BOOLEAN, reason : {None, "requested", "resource-limit",
                                                "error", "ended"}]
    /\ snapshot \in [confirmed : BOOLEAN, latched : {None, "clean", "lossy"},
                     result : {None, "complete", "incomplete"}]
    /\ lock \in Finishers \cup {None} /\ Len(pipe.updates) <= UpdateQueueSize
    /\ \A t \in DOMAIN pc : pc[t] \in Labels

(* What user code was told at the confirmation is what the result says:     *)
(* complete exactly when nothing was lost up to then, whatever later        *)
(* packets, gaps or overflows bring (_emit, build_solare_result).           *)
ConfirmedKept ==
    snapshot.result # None => (snapshot.result = "complete" <=> announced = "clean")

(* The raw file holds every accepted packet in order, also those the        *)
(* decoder never saw (_process_packet, _finish_worker).                     *)
RawKept ==
    session.stopped /\ SavePcap /\ ~rawFailed => written = accepted

(* A stopped session with a result has announced it exactly once, last, and *)
(* the bounded queue still holds that update until it is taken.             *)
FinalUpdateKept ==
    session.stopped /\ snapshot.result # None =>
        finals = 1 /\ (finalSeen \/ "finished" \in Range(pipe.updates))

(* The worker's decoder is never finished by another thread while the       *)
(* worker may still use it, and a stopped session has released everything   *)
(* (stop, "Never finalize or release those dependencies in parallel").      *)
FinishedAlone ==
    /\ \A t \in Callers :
          pc[t] \in {"write", "decode", "decoded", "release", "drain", "final", "build",
                     "warn", "finished", "settle"}
             => WorkerGone
    /\ session.stopped =>
          /\ sniffer # "alive" /\ ~socket /\ ~pipe.writer
          /\ pc["main"] # "undo" => pipe.packets = <<>>

(* "Whether capture cleanup remains owned and retryable": there is then     *)
(* something a later stop() can release.                                    *)
CleanupOwned ==
    session.incomplete => ~WorkerGone \/ captureStarted \/ captureIncomplete
=============================================================================
