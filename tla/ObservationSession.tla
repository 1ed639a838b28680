-------------------------- MODULE ObservationSession --------------------------
(***************************************************************************)
(* ObservationSession of _observation_session.py, the live session of      *)
(* Agris, XP, grind and raw messages, and the asyncio facade of Agris on   *)
(* top of it (agris/async_session.py).  Threads:                           *)
(*   sniffer   the native callback, _accept                                *)
(*   worker    _run: owns the capture, decodes, and shuts down             *)
(*   main      the application's start(), then stop()                      *)
(*   stopper   another stop(), or the facade's executor thread for it      *)
(*   consumer  poll(): of a plain iteration, or the facade's executor      *)
(* and `task`, the facade's coroutine poll().  Packets are numbered in the *)
(* order of the wire and packet p yields observation p, which the decoder  *)
(* may hold (`held`) until a later packet, the clock or the end.           *)
(***************************************************************************)
EXTENDS PacketCapture, Integers, Sequences, SequencesExt

CONSTANTS
    PacketQueueSize, EventQueueSize,
    SaveRaw,          \* save_pcap is given
    Duration,         \* capture_seconds is given
    MaxPackets,       \* bound: packets on the wire
    MaxFailures,      \* bound: failures and expired deadlines
    MaxCancels,       \* bound: cancelled coroutines
    None

ASSUME ObservationConstants ==
    /\ PacketQueueSize \in Nat \ {0} /\ EventQueueSize \in Nat \ {0}
    /\ SaveRaw \in BOOLEAN /\ Duration \in BOOLEAN
    /\ MaxPackets \in Nat /\ MaxFailures \in Nat /\ MaxCancels \in Nat
    /\ None \notin Nat \cup BOOLEAN \cup {"main", "stopper", "ok", "raised", "drained"}

Callers == {"main", "stopper"}
Deciders == Callers \cup {"worker"}      \* threads that may run _shutdown
Threads == Deciders \cup {"sniffer", "consumer"}
Packets == 1..MaxPackets

VARIABLES
    attempted,        \* _start_attempted
    stopRequested, ready, stopped,
    failed,           \* _error is not None
    incomplete,       \* _cleanup_incomplete
    packetQueue,      \* _packets
    queue,            \* _events
    held,             \* observations the decoder has not released
    writerOpen,       \* _writer is not None
    lifecycle,        \* owner of _lifecycle_lock
    pc, at,           \* where each thread is, and what it has in hand
    back,             \* where the decoder code of a thread returns to
    task,             \* the facade's poll(), or "none": a plain iteration
    pending,          \* _pending_balance
    sent, failures, cancels,
    accepted, written, published, delivered,   \* history
    finished,         \* history: calls of manager.finish()
    writeFailed,      \* history: the raw file is not complete
    started,          \* history: how start() ended
    ending            \* history: how the iteration ended

flags == <<attempted, stopRequested, ready, stopped, failed, incomplete>>
queues == <<packetQueue, queue, held, writerOpen>>
threads == <<lifecycle, pc, at, back>>
facade == <<task, pending>>
bounds == <<sent, failures, cancels>>
history == <<accepted, written, published, delivered, finished, writeFailed,
             started, ending>>
vars == <<captureVars, flags, queues, threads, facade, bounds, history>>

Init ==
    /\ CaptureInit
    /\ attempted = FALSE /\ stopRequested = FALSE /\ ready = FALSE
    /\ stopped = FALSE /\ failed = FALSE /\ incomplete = FALSE
    /\ packetQueue = <<>> /\ queue = <<>> /\ held = <<>> /\ writerOpen = FALSE
    /\ lifecycle = None
    /\ pc = [t \in Threads |-> IF t = "worker" THEN "absent" ELSE "idle"]
    /\ at = [t \in Threads |-> None] /\ back = [t \in Deciders |-> "loop"]
    /\ task \in {"none", "idle"} /\ pending = None
    /\ sent = 0 /\ failures = 0 /\ cancels = 0
    /\ accepted = <<>> /\ written = <<>> /\ published = <<>> /\ delivered = <<>>
    /\ finished = 0 /\ writeFailed = FALSE /\ started = None /\ ending = None

Goto(t, label) == pc' = [pc EXCEPT ![t] = label]

(* _record_error                                                            *)
Fails == failed' = TRUE /\ stopRequested' = TRUE

MayFail == failures < MaxFailures /\ failures' = failures + 1

WorkerDead == pc["worker"] \in {"absent", "dead"}

-----------------------------------------------------------------------------
(* _accept: a packet after a stop request is ignored, one for which there   *)
(* is no room ends the session.                                             *)
PacketArrives ==
    /\ pc["sniffer"] = "idle" /\ sniffer = "alive" /\ ~stopRequested
    /\ sent < MaxPackets /\ sent' = sent + 1
    /\ Goto("sniffer", "put") /\ at' = [at EXCEPT !["sniffer"] = sent + 1]
    /\ UNCHANGED <<captureVars, flags, queues, lifecycle, back, facade,
                   failures, cancels, history>>

PutPacket ==
    /\ pc["sniffer"] = "put"
    /\ IF Len(packetQueue) < PacketQueueSize
       THEN /\ packetQueue' = Append(packetQueue, at["sniffer"])
            /\ accepted' = Append(accepted, at["sniffer"])
            /\ UNCHANGED <<failed, stopRequested>>
       ELSE Fails /\ UNCHANGED <<packetQueue, accepted>>
    /\ Goto("sniffer", "idle") /\ at' = [at EXCEPT !["sniffer"] = None]
    /\ UNCHANGED <<captureVars, attempted, ready, stopped, incomplete, queue,
                   held, writerOpen, lifecycle, back, facade, bounds, written,
                   published, delivered, finished, writeFailed, started, ending>>

SourceEnds ==
    /\ CaptureEnds /\ pc["sniffer"] = "idle"
    /\ UNCHANGED <<flags, queues, threads, facade, bounds, history>>

-----------------------------------------------------------------------------
(* start: the worker thread, then the wait for it to be ready.              *)
StartCall ==
    /\ pc["main"] = "idle" /\ ~attempted /\ lifecycle = None
    /\ attempted' = TRUE
    /\ \/ /\ pc' = [pc EXCEPT !["main"] = "waitReady", !["worker"] = "boot"]
          /\ UNCHANGED <<failed, stopRequested, stopped, failures, started>>
       \/ /\ MayFail /\ Fails
          /\ stopped' = TRUE /\ started' = "raised"
          /\ UNCHANGED pc
    /\ UNCHANGED <<captureVars, ready, incomplete, queues, lifecycle, at, back,
                   facade, sent, cancels, accepted, written, published,
                   delivered, finished, writeFailed, ending>>

(* Ready in time and without an error, or the session is stopped again.     *)
WaitReady ==
    /\ pc["main"] = "waitReady"
    /\ \/ /\ ready /\ ~failed
          /\ Goto("main", "idle") /\ started' = "ok"
          /\ UNCHANGED <<failed, stopRequested, failures>>
       \/ /\ \/ ready /\ failed /\ UNCHANGED failures
             \/ ~ready /\ MayFail
          /\ Fails
          /\ Goto("main", "lock") /\ started' = "raised"
    /\ UNCHANGED <<captureVars, attempted, ready, stopped, incomplete, queues,
                   lifecycle, at, back, facade, sent, cancels, accepted, written,
                   published, delivered, finished, writeFailed, ending>>

-----------------------------------------------------------------------------
(* _run, up to the loop: the raw file and the handler, then the capture.    *)
Boot ==
    /\ pc["worker"] = "boot"
    /\ \/ /\ writerOpen' = SaveRaw
          /\ Goto("worker", "open")
          /\ UNCHANGED <<failed, stopRequested, failures>>
       \/ /\ MayFail /\ Fails
          /\ writerOpen' \in {FALSE, SaveRaw}
          /\ Goto("worker", "shutdown")
    /\ UNCHANGED <<captureVars, attempted, ready, stopped, incomplete, packetQueue,
                   queue, held, lifecycle, at, back, facade, sent, cancels, history>>

OpenCapture ==
    /\ pc["worker"] = "open"
    /\ \/ /\ CaptureStartOK
          /\ Goto("worker", "opened")
          /\ UNCHANGED <<failed, stopRequested, failures>>
       \/ /\ MayFail /\ Fails
          /\ CaptureStartRefused \/ CaptureStartFailed
          /\ Goto("worker", "shutdown")
    /\ UNCHANGED <<attempted, ready, stopped, incomplete, queues, lifecycle, at,
                   back, facade, sent, cancels, history>>

Opened ==
    /\ pc["worker"] = "opened"
    /\ IF captureError
       THEN Fails /\ Goto("worker", "shutdown") /\ UNCHANGED ready
       ELSE ready' = TRUE /\ Goto("worker", "loop") /\ UNCHANGED <<failed, stopRequested>>
    /\ UNCHANGED <<captureVars, attempted, stopped, incomplete, queues, lifecycle,
                   at, back, facade, bounds, history>>

(* One turn of the loop: it ends by a request, by a dead backend, by the    *)
(* deadline or by reported drops; or it takes a packet, or finds none.      *)
Loop ==
    /\ pc["worker"] = "loop"
    /\ \/ /\ stopRequested \/ (Duration /\ ~captureError /\ CaptureRunning)
          /\ Goto("worker", "shutdown") /\ stopRequested' = TRUE
          /\ UNCHANGED <<failed, packetQueue, at, back, failures>>
       \/ /\ ~stopRequested
          /\ \/ (captureError \/ ~CaptureRunning) /\ UNCHANGED failures
             \/ ~captureError /\ CaptureRunning /\ MayFail
          /\ Goto("worker", "shutdown") /\ Fails
          /\ UNCHANGED <<packetQueue, at, back>>
       \/ /\ ~stopRequested /\ ~captureError /\ CaptureRunning
          /\ IF packetQueue # <<>>
             THEN /\ at' = [at EXCEPT !["worker"] = Head(packetQueue)]
                  /\ packetQueue' = Tail(packetQueue)
                  /\ Goto("worker", "process")
             ELSE Goto("worker", "clock") /\ UNCHANGED <<at, packetQueue>>
          /\ back' = [back EXCEPT !["worker"] = "loop"]
          /\ UNCHANGED <<failed, stopRequested, failures>>
    /\ UNCHANGED <<captureVars, attempted, ready, stopped, incomplete, queue, held,
                   writerOpen, lifecycle, facade, sent, cancels, history>>

(* Nothing is in hand and nothing was queued: the flows' timers.            *)
ServiceClock ==
    /\ pc["worker"] = "clock"
    /\ \/ /\ Goto("worker", IF held = <<>> THEN "loop" ELSE "publish")
          /\ UNCHANGED <<failed, stopRequested, failures>>
       \/ /\ Goto("worker", "loop")
          /\ UNCHANGED <<failed, stopRequested, failures>>
       \/ MayFail /\ Fails /\ Goto("worker", "shutdown")
    /\ UNCHANGED <<captureVars, attempted, ready, stopped, incomplete, queues,
                   lifecycle, at, back, facade, sent, cancels, history>>

(* Where an exception leads: out of the loop, or on with the shutdown.      *)
Handler(t) == IF back[t] = "loop" THEN "shutdown" ELSE back[t]

DecodesAfterLoss == TRUE
MayDecode == ~failed

Writes(p) == writerOpen

(* _process: the raw packet is kept even when an error has ended decoding.  *)
Process(t) ==
    /\ pc[t] = "process"
    /\ LET p == at[t] IN
       \/ /\ Writes(p) /\ MayFail /\ Fails
          /\ writeFailed' = TRUE
          /\ Goto(t, Handler(t))
          /\ UNCHANGED <<held, written>>
       \/ /\ written' = IF Writes(p) THEN Append(written, p) ELSE written
          /\ \/ /\ ~MayDecode
                /\ Goto(t, back[t])
                /\ UNCHANGED <<failed, stopRequested, failures, held>>
             \/ /\ MayDecode
                /\ held' = Append(held, p)
                /\ pc' \in {[pc EXCEPT ![t] = "publish"], [pc EXCEPT ![t] = back[t]]}
                /\ UNCHANGED <<failed, stopRequested, failures>>
             \/ /\ MayDecode /\ MayFail /\ Fails
                /\ Goto(t, Handler(t))
                /\ UNCHANGED held
          /\ UNCHANGED writeFailed
    /\ at' = [at EXCEPT ![t] = None]
    /\ UNCHANGED <<captureVars, attempted, ready, stopped, incomplete, packetQueue,
                   queue, writerOpen, lifecycle, back, facade, sent, cancels,
                   accepted, published, delivered, finished, started, ending>>

(* _publish, for each observation the decoder releases; an overflow raises. *)
Publish(t) ==
    /\ pc[t] = "publish"
    /\ IF Len(queue) < EventQueueSize
       THEN /\ queue' = Append(queue, Head(held))
            /\ published' = Append(published, Head(held))
            /\ held' = Tail(held)
            /\ Goto(t, IF Len(held) = 1 THEN back[t] ELSE "publish")
            /\ UNCHANGED <<failed, stopRequested>>
       ELSE /\ Fails
            /\ held' = Tail(held)
            /\ Goto(t, Handler(t))
            /\ UNCHANGED <<queue, published>>
    /\ UNCHANGED <<captureVars, attempted, ready, stopped, incomplete, packetQueue,
                   writerOpen, lifecycle, at, back, facade, bounds, accepted,
                   written, delivered, finished, writeFailed, started, ending>>

-----------------------------------------------------------------------------
(* _shutdown returns: the worker ends, a stop() gives its answer.           *)
Leave(t) == Goto(t, IF t = "worker" THEN "dead" ELSE "answer")

NativeIncomplete == captureIncomplete' \/ (captureStarted' /\ ~captureStopped')

(* _shutdown: the capture is stopped; what cannot be released is kept for a *)
(* later stop().  The final statistics may report drops.                    *)
ShutdownCapture(t) ==
    /\ pc[t] = "shutdown"
    /\ \/ /\ (captureStarted \/ captureIncomplete) /\ ~captureStopped
          /\ CaptureStop(pc["sniffer"] = "put")
          /\ IF captureIncomplete' \/ captureError' # captureError THEN MayFail
             ELSE UNCHANGED failures
       \/ /\ (~captureStarted /\ ~captureIncomplete) \/ captureStopped
          /\ UNCHANGED <<captureVars, failures>>
    /\ IF NativeIncomplete
       THEN /\ Fails /\ incomplete' = TRUE
            /\ Leave(t)
            /\ ready' = (ready \/ t = "worker")
       ELSE /\ IF captureError' THEN Fails ELSE UNCHANGED <<failed, stopRequested>>
            /\ Goto(t, "stats")
            /\ UNCHANGED <<incomplete, ready>>
    /\ UNCHANGED <<attempted, stopped, queues, lifecycle, at, back, facade, sent,
                   cancels, history>>

FinalStats(t) ==
    /\ pc[t] = "stats"
    /\ Goto(t, "drain")
    /\ \/ UNCHANGED <<failed, stopRequested, failures>>
       \/ MayFail /\ Fails
    /\ back' = [back EXCEPT ![t] = "drain"]
    /\ UNCHANGED <<captureVars, attempted, ready, stopped, incomplete, queues,
                   lifecycle, at, facade, sent, cancels, history>>

Drained == packetQueue = <<>>

(* The packets that were accepted before the capture stopped.               *)
Drain(t) ==
    /\ pc[t] = "drain"
    /\ IF Drained
       THEN Goto(t, "finish") /\ UNCHANGED <<packetQueue, at>>
       ELSE /\ at' = [at EXCEPT ![t] = Head(packetQueue)]
            /\ packetQueue' = Tail(packetQueue)
            /\ Goto(t, "process")
    /\ UNCHANGED <<captureVars, flags, queue, held, writerOpen, lifecycle, back,
                   facade, bounds, history>>

MayFinish == ~failed

(* manager.finish(), of a decoder that lost nothing, releases what is held. *)
FinishDecoder(t) ==
    /\ pc[t] = "finish"
    /\ back' = [back EXCEPT ![t] = "close"]
    /\ \/ /\ ~MayFinish
          /\ Goto(t, "close")
          /\ UNCHANGED <<failed, stopRequested, failures, finished>>
       \/ /\ MayFinish
          /\ finished' = finished + 1
          /\ \/ /\ Goto(t, IF held = <<>> THEN "close" ELSE "publish")
                /\ UNCHANGED <<failed, stopRequested, failures>>
             \/ MayFail /\ Fails /\ Goto(t, "close")
    /\ UNCHANGED <<captureVars, attempted, ready, stopped, incomplete, queues,
                   lifecycle, at, facade, sent, cancels, accepted, written,
                   published, delivered, writeFailed, started, ending>>

(* The raw file is closed, or kept for a later stop().                      *)
CloseWriter(t) ==
    /\ pc[t] = "close"
    /\ \/ /\ writerOpen' = FALSE /\ incomplete' = FALSE
          /\ Goto(t, "settle")
          /\ UNCHANGED <<failed, stopRequested, failures, ready>>
       \/ /\ writerOpen /\ MayFail /\ Fails
          /\ incomplete' = TRUE
          /\ Leave(t)
          /\ ready' = (ready \/ t = "worker")
          /\ UNCHANGED writerOpen
    /\ UNCHANGED <<captureVars, attempted, stopped, packetQueue, queue, held,
                   lifecycle, at, back, facade, sent, cancels, history>>

(* _on_clean_stop, then stopped; the worker ends.                           *)
Settle(t) ==
    /\ pc[t] = "settle"
    /\ stopped' = TRUE
    /\ ready' = (ready \/ t = "worker")
    /\ Leave(t)
    /\ UNCHANGED <<captureVars, attempted, stopRequested, failed, incomplete,
                   queues, lifecycle, at, back, facade, bounds, history>>

Shutdown(t) == ShutdownCapture(t) \/ FinalStats(t) \/ Drain(t) \/ FinishDecoder(t)
               \/ CloseWriter(t) \/ Settle(t)

Worker == Boot \/ OpenCapture \/ Opened \/ Loop \/ ServiceClock

-----------------------------------------------------------------------------
(* The facade's _start_complete: a start that failed but could not release  *)
(* its capture leaves a session to be stopped.                              *)
StartComplete ==
    started = "ok" \/ (started = "raised" /\ pc["main"] = "idle" /\ incomplete)

(* stop: the request comes before the lock.                                 *)
StopCall(t) ==
    /\ pc[t] = "idle" /\ attempted
    /\ task # "none" => t = "stopper" /\ ~stopped /\ StartComplete
    /\ stopRequested' = TRUE
    /\ Goto(t, "lock")
    /\ UNCHANGED <<captureVars, attempted, ready, stopped, failed, incomplete,
                   queues, lifecycle, at, back, facade, bounds, history>>

StopLock(t) ==
    /\ pc[t] = "lock" /\ lifecycle = None
    /\ lifecycle' = t
    /\ Goto(t, "join")
    /\ UNCHANGED <<captureVars, flags, queues, at, back, facade, bounds, history>>

JoinSkipped == TRUE
Joined == WorkerDead

(* The worker is joined, or still lives when the time is over.              *)
JoinWorker(t) ==
    /\ pc[t] = "join"
    /\ \/ Joined /\ Goto(t, "joined") /\ UNCHANGED failures
       \/ ~WorkerDead /\ MayFail /\ Goto(t, "giveUp")
    /\ UNCHANGED <<captureVars, flags, queues, lifecycle, at, back, facade, sent,
                   cancels, history>>

GiveUp(t) ==
    /\ pc[t] = "giveUp"
    /\ incomplete' = TRUE /\ Fails
    /\ Goto(t, "answer")
    /\ UNCHANGED <<captureVars, attempted, ready, stopped, queues, lifecycle, at,
                   back, facade, bounds, history>>

NeverRetry == FALSE
MustRetry == incomplete

(* What an earlier shutdown could not release is tried again here.          *)
RetryShutdown(t) ==
    /\ pc[t] = "joined"
    /\ Goto(t, IF MustRetry THEN "shutdown" ELSE "answer")
    /\ UNCHANGED <<captureVars, flags, queues, lifecycle, at, back, facade, bounds,
                   history>>

StopReturns(t) ==
    /\ pc[t] = "answer"
    /\ lifecycle' = None
    /\ Goto(t, "idle")
    /\ UNCHANGED <<captureVars, flags, queues, at, back, facade, bounds, history>>

Stop(t) == StopLock(t) \/ JoinWorker(t) \/ GiveUp(t) \/ RetryShutdown(t)
           \/ Shutdown(t) \/ Process(t) \/ Publish(t) \/ StopReturns(t)

-----------------------------------------------------------------------------
(***************************************************************************)
(* poll.  Without the facade it has no timeout and belongs to the          *)
(* iteration events(); the facade calls it for a slice of time, and once   *)
(* for no time ("last") when the session is stopped.                       *)
(***************************************************************************)
PollCall ==
    /\ pc["consumer"] = "idle" /\ task = "none" /\ attempted
    /\ Goto("consumer", "check")
    /\ UNCHANGED <<captureVars, flags, queues, lifecycle, at, back, facade, bounds,
                   history>>

PollCheck ==
    /\ pc["consumer"] = "check"
    /\ Goto("consumer", IF failed THEN "raised" ELSE "get")
    /\ UNCHANGED <<captureVars, flags, queues, lifecycle, at, back, facade, bounds,
                   history>>

TakeEvent ==
    /\ queue # <<>>
    /\ at' = [at EXCEPT !["consumer"] = Head(queue)]
    /\ queue' = Tail(queue)
    /\ Goto("consumer", "have")

(* get_nowait, and get for a twentieth of a second.                         *)
PollGet ==
    /\ pc["consumer"] \in {"get", "wait"}
    /\ \/ TakeEvent
       \/ /\ queue = <<>>
          /\ Goto("consumer", IF pc["consumer"] = "get" THEN "look" ELSE "check")
          /\ UNCHANGED <<at, queue>>
    /\ UNCHANGED <<captureVars, flags, packetQueue, held, writerOpen, lifecycle,
                   back, facade, bounds, history>>

SeesStop == stopped

PollLook ==
    /\ pc["consumer"] = "look"
    /\ Goto("consumer", IF SeesStop \/ task = "last" THEN "returned" ELSE "wait")
    /\ UNCHANGED <<captureVars, flags, queues, lifecycle, at, back, facade, bounds,
                   history>>

(* The slice is over.                                                       *)
PollTimeout ==
    /\ pc["consumer"] = "look" /\ ~stopped /\ task \notin {"none", "last"}
    /\ Goto("consumer", "returned")
    /\ UNCHANGED <<captureVars, flags, queues, lifecycle, at, back, facade, bounds,
                   history>>

(* A failure that arrives during the dequeue takes priority.                *)
PollHave ==
    /\ pc["consumer"] = "have"
    /\ Goto("consumer", IF failed THEN "raised" ELSE "returned")
    /\ UNCHANGED <<captureVars, flags, queues, lifecycle, at, back, facade, bounds,
                   history>>

Poll == PollCall \/ PollCheck \/ PollGet \/ PollLook \/ PollTimeout \/ PollHave

(* The caller of poll has its answer, and yields what it is.                *)
Answered(label) ==
    /\ pc' = [pc EXCEPT !["consumer"] = label]
    /\ at' = [at EXCEPT !["consumer"] = None]
    /\ delivered' = IF pc["consumer"] = "returned" /\ at["consumer"] # None
                    THEN Append(delivered, at["consumer"]) ELSE delivered

Ends(how) == Goto("consumer", "ended") /\ ending' = how

(* events(): the next poll, or the end.                                     *)
Iterate ==
    /\ task = "none"
    /\ \/ /\ pc["consumer"] = "raised"
          /\ Ends("raised") /\ UNCHANGED <<at, delivered>>
       \/ /\ pc["consumer"] = "returned" /\ at["consumer"] = None /\ stopped
          /\ Ends("drained") /\ UNCHANGED <<at, delivered>>
       \/ /\ pc["consumer"] = "returned" /\ ~(at["consumer"] = None /\ stopped)
          /\ Answered("check") /\ UNCHANGED ending
    /\ UNCHANGED <<captureVars, flags, queues, lifecycle, back, facade, bounds,
                   accepted, written, published, finished, writeFailed, started>>

-----------------------------------------------------------------------------
(***************************************************************************)
(* AsyncLiveAgrisSession, iterated by one coroutine that may be cancelled. *)
(***************************************************************************)
AsyncPoll ==
    /\ task = "idle" /\ (StartComplete \/ stopped)
    /\ \/ /\ failed
          /\ task' = "ended" /\ Ends("raised")
          /\ UNCHANGED <<pending, delivered>>
       \/ /\ ~failed /\ pending # None
          /\ delivered' = Append(delivered, pending)
          /\ pending' = None
          /\ UNCHANGED <<task, pc, ending>>
       \/ /\ ~failed /\ pending = None
          /\ task' = IF stopped THEN "last" ELSE "slice"
          /\ Goto("consumer", "check")
          /\ UNCHANGED <<pending, delivered, ending>>
    /\ UNCHANGED <<captureVars, flags, queues, lifecycle, at, back, bounds,
                   accepted, written, published, finished, writeFailed, started>>

SliceEndsWithoutLook ==
    /\ task = "slice" /\ pc["consumer"] = "returned" /\ ~failed
    /\ at["consumer"] = None /\ stopped
    /\ task' = "ended" /\ Ends("drained")
    /\ UNCHANGED <<at, delivered>>

(* A slice without an observation that finds the session stopped looks once *)
(* more: the stop may have released the last ones in between.               *)
SliceLooksAgain ==
    /\ task = "slice" /\ pc["consumer"] = "returned" /\ ~failed
    /\ at["consumer"] = None
    /\ task' = IF stopped THEN "last" ELSE "slice"
    /\ Goto("consumer", "check")
    /\ UNCHANGED <<at, delivered, ending>>

AsyncSlice ==
    /\ task = "slice"
    /\ \/ /\ pc["consumer"] = "raised" \/ (pc["consumer"] = "returned" /\ failed)
          /\ task' = "ended" /\ Ends("raised") /\ UNCHANGED <<at, delivered>>
       \/ /\ pc["consumer"] = "returned" /\ ~failed /\ at["consumer"] # None
          /\ task' = "idle" /\ Answered("idle") /\ UNCHANGED ending
       \/ SliceLooksAgain
    /\ UNCHANGED <<captureVars, flags, queues, lifecycle, back, pending, bounds,
                   accepted, written, published, finished, writeFailed, started>>

AsyncLast ==
    /\ task = "last"
    /\ \/ /\ pc["consumer"] = "raised"
          /\ task' = "ended" /\ Ends("raised") /\ UNCHANGED <<at, delivered>>
       \/ /\ pc["consumer"] = "returned" /\ at["consumer"] # None
          /\ task' = "idle" /\ Answered("idle") /\ UNCHANGED ending
       \/ /\ pc["consumer"] = "returned" /\ at["consumer"] = None
          /\ task' = "ended" /\ Ends("drained") /\ UNCHANGED <<at, delivered>>
    /\ UNCHANGED <<captureVars, flags, queues, lifecycle, back, pending, bounds,
                   accepted, written, published, finished, writeFailed, started>>

(* The coroutine is cancelled in a slice: it stops the session, and keeps   *)
(* what the slice has already taken from the queue for the next poll.       *)
AsyncCancel ==
    /\ task = "slice" /\ cancels < MaxCancels
    /\ cancels' = cancels + 1
    /\ task' = "settleStop"
    /\ IF pc["stopper"] = "idle" /\ ~stopped
       THEN Goto("stopper", "lock") /\ stopRequested' = TRUE
       ELSE UNCHANGED <<pc, stopRequested>>
    /\ UNCHANGED <<captureVars, attempted, ready, stopped, failed, incomplete,
                   queues, lifecycle, at, back, pending, sent, failures, history>>

StopSettled ==
    /\ task = "settleStop" /\ pc["stopper"] = "idle"
    /\ task' = "settlePoll"
    /\ UNCHANGED <<captureVars, flags, queues, threads, pending, bounds, history>>

DropTaken == None
Taken == at["consumer"]

PollSettled ==
    /\ task = "settlePoll" /\ pc["consumer"] \in {"returned", "raised"}
    /\ pending' = IF pc["consumer"] = "returned" THEN Taken ELSE pending
    /\ task' = "idle"
    /\ Goto("consumer", "idle") /\ at' = [at EXCEPT !["consumer"] = None]
    /\ UNCHANGED <<captureVars, flags, queues, lifecycle, back, bounds, history>>

Consume == Poll \/ Iterate \/ AsyncPoll \/ AsyncSlice \/ AsyncLast \/ StopSettled
           \/ PollSettled

Work == Worker \/ Process("worker") \/ Publish("worker") \/ Shutdown("worker")

Main == StartCall \/ WaitReady \/ Stop("main")

(* The application has its answers and asks for nothing more.               *)
Rest == ending # None /\ (stopped \/ WorkerDead) /\ UNCHANGED vars

Next ==
    \/ PacketArrives \/ PutPacket \/ SourceEnds
    \/ Work
    \/ Main \/ Stop("stopper") \/ \E t \in Callers : StopCall(t)
    \/ Consume \/ AsyncCancel
    \/ Rest

Spec == Init /\ [][Next]_vars

(* Threads run; an application that was told that the cleanup is incomplete *)
(* calls stop() again.                                                      *)
Retry == incomplete /\ \E t \in Callers : StopCall(t)

FairSpec ==
    /\ Spec
    /\ WF_vars(PutPacket) /\ WF_vars(Work) /\ WF_vars(Main)
    /\ WF_vars(Stop("stopper")) /\ WF_vars(Retry) /\ WF_vars(Consume)

-----------------------------------------------------------------------------
(***************************************************************************)
(* Properties.                                                             *)
(***************************************************************************)
Labels == {"absent", "idle", "put", "boot", "open", "opened", "loop", "clock",
           "process", "publish", "shutdown", "stats", "drain", "finish", "close",
           "settle", "dead", "waitReady", "lock", "join", "giveUp", "joined",
           "answer", "check", "get", "look", "wait", "have", "returned",
           "raised", "ended"}

(* The state has its types; the decoder is finished at most once, although  *)
(* several threads may run the shutdown, one after the other.               *)
TypeOK ==
    /\ CaptureTypeOK
    /\ attempted \in BOOLEAN /\ stopRequested \in BOOLEAN /\ ready \in BOOLEAN
    /\ stopped \in BOOLEAN /\ failed \in BOOLEAN /\ incomplete \in BOOLEAN
    /\ packetQueue \in Seq(Packets) /\ Len(packetQueue) <= PacketQueueSize
    /\ queue \in Seq(Packets) /\ Len(queue) <= EventQueueSize
    /\ held \in Seq(Packets) /\ writerOpen \in BOOLEAN
    /\ lifecycle \in Callers \cup {None}
    /\ pc \in [Threads -> Labels] /\ at \in [Threads -> Packets \cup {None}]
    /\ back \in [Deciders -> {"loop", "drain", "close"}]
    /\ task \in {"none", "idle", "slice", "last", "settleStop", "settlePoll", "ended"}
    /\ pending \in Packets \cup {None}
    /\ finished \in {0, 1}

(* Whatever is left of the native capture has an owner that will release    *)
(* it: the worker, or a later stop(); a stopped session owns nothing.       *)
NativeOwned ==
    sniffer = "alive" \/ socket \/ writerOpen =>
        ~stopped /\ (~WorkerDead \/ incomplete)

Inside == {"process", "publish", "shutdown", "stats", "drain", "finish", "close",
           "settle"}

(* Decoder, raw file and capture belong to one thread at a time, also when  *)
(* stops time out and are repeated while the worker shuts down.             *)
DecidesAlone ==
    \A t, u \in Deciders :
        pc[t] \in Inside /\ t # u => pc[u] \notin Inside \cup {"boot", "open", "opened", "loop", "clock"}

(* A session fails closed: nothing is published beyond a lost packet or a   *)
(* lost observation, whatever was queued behind it.                         *)
FailsClosed == \A i \in 1..Len(published) : published[i] = i

(* A stop without an error has decoded and published everything accepted.   *)
CleanStopComplete ==
    stopped /\ ~failed /\ started = "ok" =>
        /\ published = accepted /\ finished = 1
        /\ packetQueue = <<>> /\ held = <<>>

(* The raw file holds every accepted packet, decoded or not.                *)
RawKept ==
    stopped /\ SaveRaw /\ ~writeFailed /\ started = "ok" => written = accepted

(* No interleaving of polls, stops and cancellations loses an observation   *)
(* or changes the order.                                                    *)
InHand == IF pc["consumer"] \in {"have", "returned"} /\ at["consumer"] # None
          THEN <<at["consumer"]>> ELSE <<>>
Kept == IF pending = None THEN <<>> ELSE <<pending>>
NothingLost == ~failed => delivered \o Kept \o InHand \o queue = published

(* The facade's iteration ends without an error only when all is delivered. *)
AsyncDrains == task = "ended" /\ ending = "drained" => delivered = published

(* A stop that was asked for happens, if what fails does not fail for ever. *)
StopCompletes == stopRequested ~> stopped

(* The iteration over a stopped session ends.                               *)
IterationEnds == stopped ~> ending # None
=============================================================================
