---------------------- MODULE LiveCaptureSessionProofs ----------------------
(***************************************************************************)
(* Proofs about LiveCaptureSession, for every queue size, number of        *)
(* packets, failures and starts.                                           *)
(***************************************************************************)
EXTENDS MCLiveCaptureSession, TLAPS

-----------------------------------------------------------------------------
(***************************************************************************)
(* The inductive invariant of the ownership properties.  The cleanup lock  *)
(* makes one thread at a time the owner of the capture: the one that runs  *)
(* start(), its rollback, or _finish_stop.                                 *)
(***************************************************************************)
StartLabels == {"startCapture", "startMonitor", "rollback", "rollbackSignal",
                "rollbackJoin"}
OwnerLabels == {"stopCapture", "signal", "join", "finalize"} \cup StartLabels

(* What the steps need to know of the types.                                *)
PcTyped ==
    /\ pc \in [Threads -> Labels]
    /\ pc["sniffer"] \in SnifferLabels /\ pc["monitor"] \in MonitorLabels
Typed == CaptureTypeOK /\ PcTyped /\ stopped \in BOOLEAN /\ started \in BOOLEAN

(* A capture that was never started owns nothing and is not stopped.        *)
UnattemptedIsFresh ==
    ~startAttempted =>
        ~captureStarted /\ ~captureStopped /\ ~captureIncomplete
        /\ sniffer = "none" /\ ~socket

(* Whoever works on the capture holds the cleanup lock.                     *)
OwnerHoldsLock == \A t \in Stoppers : pc[t] \in OwnerLabels => cleanup = t

(* A callback runs on a live backend thread.                                *)
CallbackOnLiveThread == pc["sniffer"] = "put" => sniffer = "alive"

(* Past capture.stop() the capture is known to be stopped; past the join    *)
(* the worker is known to be dead.                                          *)
StopsInOrder ==
    \A t \in Stoppers :
        /\ pc[t] \in {"signal", "join", "finalize"} => captureStopped
        /\ pc[t] = "finalize" => WorkerDead

StoppedForGood == stopped => captureStopped /\ WorkerDead

(* During start() and before it the session is not stopped, nobody polls it *)
(* and no monitor runs.                                                     *)
StartUndisturbed ==
    ~started \/ pc["control"] \in StartLabels =>
        /\ pc["consumer"] = "idle" /\ pc["monitor"] = "absent"
        /\ ~stopped
ControlIsStarted == pc["control"] # "idle" => started

(* The rollback goes past capture.stop() only when nothing is left of it.   *)
RollbackOwnsNothing ==
    pc["control"] \in {"rollbackSignal", "rollbackJoin"} =>
        sniffer # "alive" /\ ~socket

IInv ==
    /\ Typed /\ BackendOwned /\ UnattemptedIsFresh
    /\ OwnerHoldsLock /\ CallbackOnLiveThread
    /\ StopsInOrder /\ StoppedForGood
    /\ StartUndisturbed /\ ControlIsStarted
    /\ RollbackOwnsNothing /\ RolledBackIsFresh

-----------------------------------------------------------------------------
(***************************************************************************)
(* The capture alone.                                                      *)
(***************************************************************************)
(* stop() leaves an owned backend or none, and cannot verify the end of a   *)
(* thread whose callback is running.                                        *)
LEMMA CaptureStopOwned ==
    ASSUME NEW inCallback \in BOOLEAN, CaptureTypeOK, BackendOwned, UnattemptedIsFresh,
           CaptureStop(inCallback)
    PROVE  /\ CaptureTypeOK' /\ BackendOwned' /\ UnattemptedIsFresh'
           /\ captureStopped' => ~inCallback /\ sniffer' # "alive" /\ ~socket'
           /\ inCallback => sniffer' = sniffer
           /\ ~captureStopped
BY DEF CaptureStop, ShutdownOutcome, ShutdownBackend, CaptureTypeOK, BackendOwned,
   UnattemptedIsFresh

(* start() hands over, or rolls back, what it opened.                       *)
LEMMA CaptureStartOwned ==
    ASSUME CaptureTypeOK, BackendOwned, UnattemptedIsFresh,
           CaptureStartOK \/ CaptureStartRefused \/ CaptureStartFailed
    PROVE  CaptureTypeOK' /\ BackendOwned' /\ UnattemptedIsFresh'
<1>1. CASE CaptureStartOK
  BY <1>1, WindowsIsBoolean
     DEF CaptureStartOK, CaptureTypeOK, BackendOwned, UnattemptedIsFresh
<1>2. CASE CaptureStartRefused
  BY <1>2 DEF CaptureStartRefused, CaptureTypeOK, BackendOwned, UnattemptedIsFresh
<1>3. CASE CaptureStartFailed
  BY <1>3 DEF CaptureStartFailed, CaptureTypeOK, BackendOwned, UnattemptedIsFresh
<1>q. QED BY <1>1, <1>2, <1>3

-----------------------------------------------------------------------------
(***************************************************************************)
(* Steps that leave the capture, the lock and the lifecycle alone.         *)
(***************************************************************************)
(* No thread becomes an owner or advances as one, a dead worker stays dead, *)
(* and nothing disturbs start().                                            *)
Quiet ==
    /\ UNCHANGED <<captureVars, started, stopped, cleanup>>
    /\ PcTyped'
    /\ \A t \in Stoppers : pc'[t] \in OwnerLabels => pc'[t] = pc[t]
    /\ pc'["sniffer"] = "put" => sniffer = "alive"
    /\ WorkerDead => WorkerDead'
    /\ pc["control"] \in StartLabels =>
           pc'["consumer"] = pc["consumer"] /\ pc'["monitor"] = pc["monitor"]

(* A quiet step keeps the invariant.                                        *)
LEMMA QuietStep == ASSUME IInv, started, Quiet PROVE IInv'
<1>1. CaptureTypeOK' /\ BackendOwned' /\ UnattemptedIsFresh' /\ Typed'
  BY DEF IInv, Quiet, Typed, CaptureTypeOK, BackendOwned, UnattemptedIsFresh, captureVars
<1>2. started' /\ RolledBackIsFresh'
  BY DEF Quiet, RolledBackIsFresh
<1>3. OwnerHoldsLock' /\ CallbackOnLiveThread'
  BY DEF IInv, Quiet, OwnerHoldsLock, CallbackOnLiveThread, captureVars
<1>4. StopsInOrder'
  BY DEF IInv, Quiet, StopsInOrder, OwnerLabels, captureVars
<1>5. StoppedForGood'
  BY DEF IInv, Quiet, StoppedForGood, captureVars
<1>6. pc'["control"] \in StartLabels => pc'["control"] = pc["control"]
  BY DEF Quiet, OwnerLabels, Stoppers
<1>7. StartUndisturbed' /\ ControlIsStarted'
  BY <1>2, <1>6 DEF IInv, Quiet, StartUndisturbed, ControlIsStarted
<1>8. RollbackOwnsNothing'
  BY <1>6 DEF IInv, Quiet, RollbackOwnsNothing, StartLabels, captureVars
<1>q. QED BY <1>1, <1>2, <1>3, <1>4, <1>5, <1>7, <1>8 DEF IInv

(* Before start() and after its rollback no thread runs.                    *)
LEMMA RunningIsStarted ==
    ASSUME IInv,
           \/ pc["sniffer"] = "put" \/ ~WorkerDead
           \/ pc["monitor"] \notin {"absent", "dead"}
           \/ pc["control"] # "idle" \/ pc["consumer"] # "idle"
    PROVE  started
BY DEF IInv, RolledBackIsFresh, StartUndisturbed, ControlIsStarted

(* A step that moves thread t only, and not the capture or the lifecycle.   *)
Only(t) ==
    /\ UNCHANGED <<captureVars, started, stopped, cleanup>>
    /\ pc' \in [Threads -> Labels]
    /\ \A u \in Threads \ {t} : pc'[u] = pc[u]

(* The native callback moves itself only.                                   *)
LEMMA SnifferQuiet ==
    ASSUME IInv, PacketArrives \/ PutPacket PROVE started /\ Quiet
<1>0. pc \in [Threads -> Labels] /\ pc["sniffer"] \in SnifferLabels
  BY DEF IInv, Typed, PcTyped
<1>1. started /\ Only("sniffer") /\ pc'["sniffer"] \in SnifferLabels
      /\ (pc'["sniffer"] = "put" => sniffer = "alive")
  <2> USE DEF Only, Threads, Goto, captureVars, lifecycle, queues, locks, Labels,
              SnifferLabels
  <2>1. CASE PacketArrives
    BY <1>0, <2>1 DEF PacketArrives
  <2>2. CASE PutPacket
    <3>1. started BY <2>2, RunningIsStarted DEF PutPacket
    <3>q. QED BY <1>0, <2>2, <3>1 DEF PutPacket
  <2>q. QED BY <2>1, <2>2
<1>2. WorkerDead => WorkerDead'
  BY <1>1 DEF Only, WorkerDead, Threads
<1>q. QED
  BY <1>1, <1>2 DEF Only, IInv, Typed, Quiet, PcTyped, Stoppers, Threads

(* Every step of the worker moves the worker only.                          *)
LEMMA WorkerQuiet ==
    ASSUME IInv, Worker PROVE started /\ Quiet
<1>0. pc \in [Threads -> Labels]
  BY DEF IInv, Typed, PcTyped
<1>1. Only("worker") /\ ~WorkerDead
  <2> USE DEF Only, Threads, Goto, captureVars, lifecycle, queues, locks, bounds,
              history, Labels, WorkerLabels, EmitLabels, WorkerDead
  <2>1. CASE WorkerGet
    BY <1>0, <2>1 DEF WorkerGet
  <2>2. CASE WorkerDecode
    BY <1>0, <2>2 DEF WorkerDecode
  <2>3. CASE WorkerService
    BY <1>0, <2>3 DEF WorkerService
  <2>4. CASE WorkerRelease
    BY <1>0, <2>4 DEF WorkerRelease
  <2>5. CASE EmitEnter("worker")
    BY <1>0, <2>5 DEF EmitEnter, AfterEmit
  <2>6. CASE EmitCheck("worker")
    BY <1>0, <2>6 DEF EmitCheck, AfterEmit
  <2>7. CASE EmitPut("worker")
    BY <1>0, <2>7 DEF EmitPut, WhenFull, AfterEmit
  <2>q. QED BY <2>1, <2>2, <2>3, <2>4, <2>5, <2>6, <2>7 DEF Worker
<1>2. started
  BY <1>1, RunningIsStarted
<1>q. QED
  BY <1>1, <1>2 DEF Only, IInv, Typed, Quiet, PcTyped, CallbackOnLiveThread, Stoppers,
                    Threads

(* Every step of poll() but _finish_stop moves the consumer only.           *)
PollStep == (Poll /\ ~FinishStop("consumer")) \/ PollEnter

(* poll() moves the consumer only, and not while a start() runs.            *)
LEMMA ConsumerQuiet ==
    ASSUME IInv, PollStep PROVE started /\ Quiet
<1>0. pc \in [Threads -> Labels]
  BY DEF IInv, Typed, PcTyped
<1>1. /\ Only("consumer") /\ pc'["consumer"] \notin OwnerLabels
      /\ pc["consumer"] # "idle" \/ (started /\ cleanup = None)
  <2> USE DEF Only, Threads, Goto, captureVars, lifecycle, queues, locks, bounds,
              history, consumerOnly, Labels, ConsumerLabels, OwnerLabels, StartLabels,
              EmitLabels
  <2>1. CASE PollEnter
    BY <1>0, <2>1 DEF PollEnter, StopLabels
  <2>2. CASE ServiceCaptureState
    BY <1>0, <2>2 DEF ServiceCaptureState, StopLabels
  <2>3. CASE \/ TryGet("get", "lockDelivery", FALSE)
             \/ TryGet("getLocked", "flushEnter", FALSE)
             \/ TryGet("getFlushed", "final", TRUE)
             \/ TryGet("wait", "wait", FALSE)
    BY <1>0, <2>3 DEF TryGet
  <2>4. CASE LockDelivery
    BY <1>0, <2>4 DEF LockDelivery
  <2>5. CASE FlushEnter
    BY <1>0, <2>5 DEF FlushEnter
  <2>6. CASE Flush
    BY <1>0, <2>6 DEF Flush
  <2>7. CASE EmitEnter("consumer")
    BY <1>0, <2>7 DEF EmitEnter, AfterEmit
  <2>8. CASE EmitCheck("consumer")
    BY <1>0, <2>8 DEF EmitCheck, AfterEmit
  <2>9. CASE EmitPut("consumer")
    BY <1>0, <2>9 DEF EmitPut, WhenFull, AfterEmit
  <2>10. CASE PollFinal
    BY <1>0, <2>10 DEF PollFinal
  <2>11. CASE PollTimeout
    BY <1>0, <2>11 DEF PollTimeout
  <2>12. CASE IterateEvents
    BY <1>0, <2>12 DEF IterateEvents
  <2>q. QED
    BY <2>1, <2>2, <2>3, <2>4, <2>5, <2>6, <2>7, <2>8, <2>9, <2>10, <2>11, <2>12
       DEF PollStep, Poll
<1>2. started
  BY <1>1, RunningIsStarted
<1>3. pc["control"] \notin StartLabels
  <2>1. CASE pc["consumer"] # "idle"
    BY <2>1 DEF IInv, StartUndisturbed
  <2>2. CASE cleanup = None
    BY <2>2, SessionConstants
       DEF IInv, OwnerHoldsLock, OwnerLabels, Stoppers, Threads
  <2>q. QED BY <1>1, <2>1, <2>2
<1>q. QED
  BY <1>1, <1>2, <1>3 DEF Only, IInv, Typed, Quiet, PcTyped, CallbackOnLiveThread,
                          Stoppers, Threads, WorkerDead

(* stop(), request_stop() and the monitor before it joins _finish_stop, and *)
(* a stop that finds the session stopped.                                   *)
LEMMA StopperQuiet ==
    ASSUME IInv,
           \/ Stop \/ RequestStop \/ MonitorWatch \/ MonitorLeave
           \/ \E t \in Stoppers : StopEnter(t) /\ stopped
    PROVE  started /\ Quiet
<1>0. pc \in [Threads -> Labels]
  BY DEF IInv, Typed, PcTyped
<1> USE DEF Only, Threads, Goto, captureVars, lifecycle, queues, locks, bounds,
            history, Labels, OwnerLabels, StartLabels
<1>1. CASE Stop
  <2>1. Only("control") /\ pc'["control"] \notin OwnerLabels
    BY <1>0, <1>1 DEF Stop, ControlLabels, StopLabels
  <2>q. QED
    BY <1>1, <2>1 DEF Stop, IInv, Typed, Quiet, PcTyped, CallbackOnLiveThread,
                      Stoppers, WorkerDead
<1>2. CASE RequestStop
  BY <1>2 DEF RequestStop, IInv, Typed, Quiet, PcTyped, CallbackOnLiveThread,
              Stoppers, WorkerDead
<1>3. CASE MonitorWatch \/ MonitorLeave
  <2>1. Only("monitor") /\ pc'["monitor"] \notin OwnerLabels
        /\ pc'["monitor"] \in MonitorLabels
    BY <1>0, <1>3 DEF MonitorWatch, MonitorLeave, MonitorLabels, StopLabels
  <2>2. started /\ pc["control"] \notin StartLabels
    BY <1>3 DEF MonitorWatch, MonitorLeave, IInv, StartUndisturbed
  <2>q. QED
    BY <2>1, <2>2 DEF IInv, Typed, Quiet, PcTyped, CallbackOnLiveThread, Stoppers,
                      WorkerDead
<1>4. ASSUME NEW t \in Stoppers, StopEnter(t), stopped PROVE started /\ Quiet
  <2>1. Only(t) /\ pc'[t] = AfterStop[t] /\ pc[t] = "finish"
    BY <1>0, <1>4 DEF StopEnter, AfterStop, Stoppers, MonitorLabels, ControlLabels,
                      ConsumerLabels
  <2>2. pc'[t] \notin OwnerLabels /\ (t = "monitor" => pc'[t] \in MonitorLabels)
    BY <2>1 DEF AfterStop, Stoppers, MonitorLabels
  <2>3. started /\ pc["control"] \notin StartLabels
    BY <1>4, <2>1 DEF Stoppers, IInv, StartUndisturbed, ControlIsStarted
  <2>q. QED
    BY <2>1, <2>2, <2>3 DEF IInv, Typed, Quiet, PcTyped, CallbackOnLiveThread,
                            Stoppers, WorkerDead
<1>q. QED BY <1>1, <1>2, <1>3, <1>4

-----------------------------------------------------------------------------
(***************************************************************************)
(* Steps of the thread that owns the capture.                              *)
(***************************************************************************)
(* While t holds the cleanup lock, or nobody does, no other thread owns.    *)
LEMMA OwnerAlone ==
    ASSUME IInv, NEW t \in Stoppers, cleanup \in {None, t}
    PROVE  \A u \in Stoppers \ {t} : pc[u] \notin OwnerLabels
BY SessionConstants DEF IInv, OwnerHoldsLock, Stoppers, Threads

(* What a step of t may do to the rest.                                     *)
OwnerMove(t) ==
    /\ cleanup \in {None, t} /\ cleanup' \in {None, t}
    /\ pc'[t] \in OwnerLabels => cleanup' = t
    /\ started /\ started' /\ stopped' \in BOOLEAN
    /\ CaptureTypeOK' /\ BackendOwned' /\ UnattemptedIsFresh'
    /\ PcTyped'
    /\ \A u \in Threads \ {t} : pc'[u] = pc[u]
    /\ pc["sniffer"] = "put" => sniffer' = "alive"
    /\ stopped' => captureStopped' /\ WorkerDead' /\ pc'[t] \notin StartLabels
    /\ pc'[t] \in {"signal", "join", "finalize"} => captureStopped'
    /\ pc'[t] = "finalize" => WorkerDead'
    /\ pc'[t] \in StartLabels => t = "control" /\ pc[t] \in StartLabels
    /\ pc'[t] \in {"rollbackSignal", "rollbackJoin"} =>
           sniffer' # "alive" /\ ~socket'

(* A step of the owner keeps the invariant.                                 *)
LEMMA OwnerStep == ASSUME IInv, NEW t \in Stoppers, OwnerMove(t) PROVE IInv'
<1>1. \A u \in Stoppers \ {t} : pc[u] \notin OwnerLabels /\ pc'[u] = pc[u]
  BY OwnerAlone DEF OwnerMove, Stoppers, Threads
<1>2. Typed' /\ BackendOwned' /\ UnattemptedIsFresh' /\ RolledBackIsFresh'
  BY DEF OwnerMove, Typed, RolledBackIsFresh
<1>3. OwnerHoldsLock' /\ StopsInOrder'
  BY <1>1 DEF OwnerMove, OwnerHoldsLock, StopsInOrder, OwnerLabels
<1>4. CallbackOnLiveThread' /\ StoppedForGood'
  BY DEF OwnerMove, CallbackOnLiveThread, StoppedForGood, Threads, Stoppers
<1>5. pc'["control"] \in StartLabels => t = "control" /\ pc["control"] \in StartLabels
  BY <1>1 DEF OwnerMove, OwnerLabels, Stoppers
<1>6. StartUndisturbed' /\ ControlIsStarted'
  BY <1>5 DEF OwnerMove, IInv, StartUndisturbed, ControlIsStarted, Threads
<1>7. RollbackOwnsNothing'
  BY <1>5 DEF OwnerMove, RollbackOwnsNothing, StartLabels
<1>q. QED BY <1>2, <1>3, <1>4, <1>6, <1>7 DEF IInv

(* _finish_stop, step by step.                                              *)
LEMMA FinishStopOwned ==
    ASSUME IInv, NEW t \in Stoppers, FinishStop(t), ~(StopEnter(t) /\ stopped)
    PROVE  OwnerMove(t)
<1>0. /\ pc \in [Threads -> Labels] /\ pc["sniffer"] \in SnifferLabels
      /\ pc["monitor"] \in MonitorLabels
      /\ CaptureTypeOK /\ BackendOwned /\ UnattemptedIsFresh
      /\ stopped \in BOOLEAN /\ started \in BOOLEAN
  BY DEF IInv, Typed, PcTyped
<1>1. /\ pc[t] \in StopLabels
      /\ t = "monitor" \/ t = "control" \/ t = "consumer"
  BY DEF FinishStop, StopEnter, StopCapture, SignalWorker, JoinWorker,
         FinalizeCollector, StopLabels, Stoppers
<1>2. started /\ (pc["sniffer"] = "put" => sniffer = "alive")
  BY <1>1 DEF IInv, StartUndisturbed, ControlIsStarted, CallbackOnLiveThread,
              StopLabels, RolledBackIsFresh
<1>3. pc[t] # "finish" => cleanup = t
  BY <1>1 DEF IInv, OwnerHoldsLock, StopLabels, OwnerLabels, StartLabels
<1>4. AfterRaise[t] \in {"dead", "idle"} /\ AfterStop[t] \in {"dead", "idle", "get"}
      /\ (t = "monitor" => AfterRaise[t] = "dead" /\ AfterStop[t] = "dead")
  BY <1>1 DEF AfterRaise, AfterStop
<1>5. (stopped => captureStopped /\ WorkerDead)
      /\ (pc[t] \in {"signal", "join", "finalize"} => captureStopped)
      /\ (pc[t] = "finalize" => WorkerDead)
  BY DEF IInv, StoppedForGood, StopsInOrder
<1> DEFINE Moves(l) == pc' = [pc EXCEPT ![t] = l]
<1>6. ASSUME NEW l \in StopLabels \cup {AfterRaise[t], AfterStop[t]}, Moves(l)
      PROVE  /\ PcTyped' /\ pc'[t] = l /\ l \notin StartLabels
             /\ \A u \in Threads \ {t} : pc'[u] = pc[u]
             /\ WorkerDead' = WorkerDead
  BY <1>0, <1>1, <1>4, <1>6
     DEF PcTyped, Threads, Stoppers, StopLabels, StartLabels, Labels, WorkerLabels,
         MonitorLabels, ControlLabels, ConsumerLabels, WorkerDead
<1>7. CASE StopEnter(t)
  <2>1. Moves("stopCapture") /\ cleanup = None /\ cleanup' = t
        /\ UNCHANGED <<captureVars, started, stopped>>
    BY <1>7 DEF StopEnter, Goto
  <2>q. QED
    BY <1>0, <1>2, <1>5, <1>6, <2>1
       DEF OwnerMove, StopLabels, CaptureTypeOK, BackendOwned, UnattemptedIsFresh,
           captureVars
<1>8. CASE StopCapture(t)
  <2>0. cleanup = t /\ pc[t] = "stopCapture" /\ UNCHANGED <<started, stopped>>
    BY <1>3, <1>8 DEF StopCapture
  <2>1. CASE captureStopped /\ Goto(t, "signal") /\ UNCHANGED <<captureVars, cleanup>>
    BY <1>0, <1>2, <1>5, <1>6, <2>0, <2>1
       DEF OwnerMove, StopLabels, CaptureTypeOK, BackendOwned, UnattemptedIsFresh,
           captureVars, Goto
  <2>2. CASE /\ CaptureStop(pc["sniffer"] = "put")
             /\ IF captureStopped'
                THEN Goto(t, "signal") /\ UNCHANGED cleanup
                ELSE Goto(t, AfterRaise[t]) /\ cleanup' = None
    <3>1. /\ CaptureTypeOK' /\ BackendOwned' /\ UnattemptedIsFresh'
          /\ captureStopped' => pc["sniffer"] # "put"
          /\ pc["sniffer"] = "put" => sniffer' = sniffer
          /\ ~captureStopped
      BY <1>0, <2>2, CaptureStopOwned
    <3>2. ~stopped /\ ~stopped' /\ started'
      BY <1>2, <1>5, <2>0, <3>1
    <3>3. CASE captureStopped'
      <4>1. Moves("signal") /\ cleanup' = t
        BY <2>0, <2>2, <3>3 DEF Goto
      <4>q. QED
        BY <1>0, <1>2, <1>6, <2>0, <3>1, <3>2, <3>3, <4>1 DEF OwnerMove, StopLabels
    <3>4. CASE ~captureStopped'
      <4>1. Moves(AfterRaise[t]) /\ cleanup' = None
        BY <2>0, <2>2, <3>4 DEF Goto
      <4>q. QED
        BY <1>0, <1>2, <1>4, <1>6, <2>0, <3>1, <3>2, <4>1
           DEF OwnerMove, StopLabels, OwnerLabels, StartLabels
    <3>q. QED BY <3>3, <3>4
  <2>3. CASE Goto(t, AfterRaise[t]) /\ cleanup' = None /\ UNCHANGED captureVars
    BY <1>0, <1>2, <1>4, <1>5, <1>6, <2>0, <2>3
       DEF OwnerMove, StopLabels, OwnerLabels, CaptureTypeOK, BackendOwned,
           UnattemptedIsFresh, captureVars, Goto
  <2>q. QED BY <1>8, <2>1, <2>2, <2>3 DEF StopCapture
<1>9. CASE SignalWorker(t, "signal", "join")
  <2>1. Moves("join") /\ pc[t] = "signal" /\ UNCHANGED <<captureVars, started, stopped, cleanup>>
    BY <1>9 DEF SignalWorker, Goto, lifecycle, locks
  <2>q. QED
    BY <1>0, <1>2, <1>3, <1>5, <1>6, <2>1
       DEF OwnerMove, StopLabels, CaptureTypeOK, BackendOwned, UnattemptedIsFresh,
           captureVars
<1>10. CASE JoinWorker(t)
  <2>1. /\ pc[t] = "join" /\ UNCHANGED <<captureVars, started, stopped>>
        /\ \/ WorkerDead /\ Moves("finalize") /\ UNCHANGED cleanup
           \/ Moves(AfterRaise[t]) /\ cleanup' = None
    BY <1>10 DEF JoinWorker, Goto
  <2>q. QED
    BY <1>0, <1>2, <1>3, <1>4, <1>5, <1>6, <2>1
       DEF OwnerMove, StopLabels, OwnerLabels, CaptureTypeOK, BackendOwned,
           UnattemptedIsFresh, captureVars
<1>11. CASE FinalizeCollector(t)
  <2>1. /\ pc[t] = "finalize" /\ Moves(AfterStop[t]) /\ cleanup' = None /\ stopped' = TRUE
        /\ UNCHANGED <<captureVars, started>>
    BY <1>11 DEF FinalizeCollector, Goto
  <2>q. QED
    BY <1>0, <1>2, <1>3, <1>4, <1>5, <1>6, <2>1
       DEF OwnerMove, StopLabels, OwnerLabels, StartLabels, CaptureTypeOK,
           BackendOwned, UnattemptedIsFresh, captureVars
<1>q. QED BY <1>7, <1>8, <1>9, <1>10, <1>11 DEF FinishStop

(* start() and its rollback, except for the steps that begin and end it.    *)
StartStep == \/ StartCapture \/ RollbackCapture \/ RollbackTimeout
             \/ SignalWorker("control", "rollbackSignal", "rollbackJoin")
             \/ StartMonitor /\ pc'["monitor"] = pc["monitor"]

(* Those steps are an owner's.                                              *)
LEMMA StartOwned == ASSUME IInv, StartStep PROVE OwnerMove("control")
<1>0. /\ pc \in [Threads -> Labels] /\ pc["sniffer"] \in SnifferLabels
      /\ pc["monitor"] \in MonitorLabels
      /\ CaptureTypeOK /\ BackendOwned /\ UnattemptedIsFresh
      /\ stopped \in BOOLEAN /\ started \in BOOLEAN
  BY DEF IInv, Typed, PcTyped
<1>1. pc["control"] \in StartLabels
  BY DEF StartStep, StartCapture, RollbackCapture, RollbackTimeout, SignalWorker,
         StartMonitor, StartLabels
<1>2. /\ started /\ ~stopped /\ cleanup = "control"
      /\ pc["sniffer"] = "put" => sniffer = "alive"
      /\ pc["control"] \in {"rollbackSignal", "rollbackJoin"} =>
             sniffer # "alive" /\ ~socket
  BY <1>1 DEF IInv, StartUndisturbed, ControlIsStarted, CallbackOnLiveThread,
              OwnerHoldsLock, OwnerLabels, StartLabels, Stoppers, RollbackOwnsNothing
<1> DEFINE Moves(l) == pc' = [pc EXCEPT !["control"] = l]
<1>3. ASSUME NEW l \in StartLabels \cup {"idle"}, Moves(l)
      PROVE  /\ PcTyped' /\ pc'["control"] = l
             /\ l \notin {"signal", "join", "finalize"}
             /\ \A u \in Threads \ {"control"} : pc'[u] = pc[u]
  BY <1>0, <1>3
     DEF PcTyped, Threads, StartLabels, Labels, ControlLabels, SnifferLabels, MonitorLabels
<1>4. CASE StartCapture
  <2>1. /\ UNCHANGED <<started, stopped, cleanup>> /\ pc["control"] = "startCapture"
        /\ CaptureStartOK \/ CaptureStartRefused \/ CaptureStartFailed
        /\ Moves("startMonitor") \/ Moves("rollback")
        /\ ~startAttempted
    BY <1>4 DEF StartCapture, CaptureStartOK, CaptureStartRefused, CaptureStartFailed,
                Goto, lifecycle, locks
  <2>2. CaptureTypeOK' /\ BackendOwned' /\ UnattemptedIsFresh'
    BY <1>0, <2>1, CaptureStartOwned
  <2>3. pc["sniffer"] # "put"
    BY <1>0, <1>2, <2>1 DEF UnattemptedIsFresh
  <2>q. QED
    BY <1>0, <1>2, <1>3, <2>1, <2>2, <2>3 DEF OwnerMove, StartLabels, OwnerLabels
<1>5. CASE RollbackCapture
  <2>1. /\ UNCHANGED <<started, stopped>> /\ pc["control"] = "rollback"
        /\ IF captureStarted /\ ~captureStopped
           THEN CaptureStop(pc["sniffer"] = "put") ELSE UNCHANGED captureVars
    BY <1>5 DEF RollbackCapture
  <2>2. /\ CaptureTypeOK' /\ BackendOwned' /\ UnattemptedIsFresh'
        /\ pc["sniffer"] = "put" => sniffer' = "alive"
    <3>1. CASE captureStarted /\ ~captureStopped
      BY <1>0, <1>2, <2>1, <3>1, CaptureStopOwned
    <3>2. CASE ~(captureStarted /\ ~captureStopped)
      BY <1>0, <1>2, <2>1, <3>2
         DEF captureVars, CaptureTypeOK, BackendOwned, UnattemptedIsFresh
    <3>q. QED BY <3>1, <3>2
  <2>3. CASE captureIncomplete' \/ (captureStarted' /\ ~captureStopped')
    <3>1. Moves("idle") /\ cleanup' = None
      BY <1>5, <2>3 DEF RollbackCapture, KeepForRetry, Goto
    <3>q. QED
      BY <1>0, <1>2, <1>3, <2>1, <2>2, <3>1 DEF OwnerMove, StartLabels, OwnerLabels
  <2>4. CASE ~(captureIncomplete' \/ (captureStarted' /\ ~captureStopped'))
    <3>1. Moves("rollbackSignal") /\ cleanup' = cleanup
      BY <1>5, <2>4 DEF RollbackCapture, Goto
    <3>2. sniffer' # "alive" /\ ~socket'
      BY <2>2, <2>4 DEF BackendOwned
    <3>q. QED
      BY <1>0, <1>1, <1>2, <1>3, <2>1, <2>2, <3>1, <3>2
         DEF OwnerMove, StartLabels, OwnerLabels
  <2>q. QED BY <2>3, <2>4
<1>6. CASE \/ RollbackTimeout
           \/ SignalWorker("control", "rollbackSignal", "rollbackJoin")
           \/ StartMonitor /\ pc'["monitor"] = pc["monitor"]
  <2>1. /\ UNCHANGED <<captureVars, started, stopped>>
        /\ \/ Moves("idle") /\ cleanup' = None
           \/ /\ Moves("rollbackJoin") /\ cleanup' = cleanup
              /\ pc["control"] = "rollbackSignal"
           \/ Moves("rollback") /\ cleanup' = cleanup
    <3>1. CASE RollbackTimeout
      BY <3>1 DEF RollbackTimeout, KeepForRetry, Goto
    <3>2. CASE SignalWorker("control", "rollbackSignal", "rollbackJoin")
      BY <3>2 DEF SignalWorker, Goto, lifecycle, locks
    <3>3. CASE StartMonitor /\ pc'["monitor"] = pc["monitor"]
      <4>1. pc["monitor"] = "absent"
        BY <1>1 DEF IInv, StartUndisturbed
      <4>q. QED
        BY <1>0, <3>3, <4>1 DEF StartMonitor, Goto, lifecycle, Threads
    <3>q. QED BY <1>6, <3>1, <3>2, <3>3
  <2>2. CaptureTypeOK' /\ BackendOwned' /\ UnattemptedIsFresh' /\ sniffer' = sniffer
        /\ socket' = socket
    BY <1>0, <2>1 DEF captureVars, CaptureTypeOK, BackendOwned, UnattemptedIsFresh
  <2>q. QED
    BY <1>0, <1>1, <1>2, <1>3, <2>1, <2>2 DEF OwnerMove, StartLabels, OwnerLabels
<1>q. QED BY <1>4, <1>5, <1>6 DEF StartStep

(* start() takes the lock of a session in which nothing runs.               *)
LEMMA StartBeginKeeps == ASSUME IInv, StartBegin PROVE IInv'
<1>0. /\ pc \in [Threads -> Labels] /\ pc["sniffer"] \in SnifferLabels
      /\ CaptureTypeOK /\ BackendOwned /\ UnattemptedIsFresh
  BY DEF IInv, Typed, PcTyped
<1>1. /\ ~started /\ cleanup' = "control" /\ started' = TRUE /\ stopped' = FALSE
      /\ UNCHANGED captureVars
      /\ \/ pc' = [pc EXCEPT !["control"] = "startCapture", !["worker"] = "get"]
         \/ pc' = [pc EXCEPT !["control"] = "rollback"]
  BY DEF StartBegin, Goto
<1>2. pc["monitor"] = "absent" /\ pc["consumer"] = "idle" /\ pc["sniffer"] = "idle"
  BY <1>1 DEF IInv, StartUndisturbed, RolledBackIsFresh
<1>3. /\ pc' \in [Threads -> Labels]
      /\ pc'["control"] \in {"startCapture", "rollback"}
      /\ pc'["monitor"] = "absent" /\ pc'["consumer"] = "idle"
      /\ pc'["sniffer"] = "idle"
  BY <1>0, <1>1, <1>2 DEF Threads, Labels, ControlLabels, WorkerLabels
<1>4. CaptureTypeOK' /\ BackendOwned' /\ UnattemptedIsFresh'
  BY <1>0, <1>1 DEF captureVars, CaptureTypeOK, BackendOwned, UnattemptedIsFresh
<1>q. QED
  BY <1>1, <1>3, <1>4
     DEF IInv, Typed, PcTyped, SnifferLabels, MonitorLabels, OwnerHoldsLock,
         CallbackOnLiveThread, StopsInOrder, StoppedForGood, StartUndisturbed,
         ControlIsStarted, RollbackOwnsNothing, RolledBackIsFresh, Stoppers,
         OwnerLabels, StartLabels

(* start() releases the lock to a session whose monitor runs.               *)
LEMMA StartMonitorKeeps ==
    ASSUME IInv, StartMonitor, pc'["monitor"] # pc["monitor"] PROVE IInv'
<1>0. /\ pc \in [Threads -> Labels] /\ pc["sniffer"] \in SnifferLabels
      /\ CaptureTypeOK /\ BackendOwned /\ UnattemptedIsFresh
      /\ pc["control"] = "startMonitor"
  BY DEF IInv, Typed, PcTyped, StartMonitor
<1>1. started /\ ~stopped /\ pc["monitor"] = "absent" /\ pc["consumer"] = "idle"
      /\ (pc["sniffer"] = "put" => sniffer = "alive")
  BY <1>0 DEF IInv, StartUndisturbed, ControlIsStarted, StartLabels, CallbackOnLiveThread
<1>2. /\ pc' = [pc EXCEPT !["control"] = "idle", !["monitor"] = "watch"]
      /\ UNCHANGED <<captureVars, started, stopped>>
  BY <1>0 DEF StartMonitor, Goto, lifecycle, Threads
<1>3. /\ pc' \in [Threads -> Labels]
      /\ pc'["control"] = "idle" /\ pc'["monitor"] = "watch"
      /\ pc'["consumer"] = "idle" /\ pc'["sniffer"] = pc["sniffer"]
  BY <1>0, <1>1, <1>2 DEF Threads, Labels, ControlLabels, MonitorLabels
<1>4. CaptureTypeOK' /\ BackendOwned' /\ UnattemptedIsFresh' /\ sniffer' = sniffer
  BY <1>0, <1>2 DEF captureVars, CaptureTypeOK, BackendOwned, UnattemptedIsFresh
<1>q. QED
  BY <1>0, <1>1, <1>2, <1>3, <1>4
     DEF IInv, Typed, PcTyped, MonitorLabels, OwnerHoldsLock,
         CallbackOnLiveThread, StopsInOrder, StoppedForGood, StartUndisturbed,
         ControlIsStarted, RollbackOwnsNothing, RolledBackIsFresh, Stoppers,
         OwnerLabels, StartLabels

(* The end of a complete rollback: nothing is left for the next start().    *)
LEMMA RollbackResetKeeps == ASSUME IInv, RollbackReset PROVE IInv'
<1>0. /\ pc \in [Threads -> Labels] /\ pc["sniffer"] \in SnifferLabels
      /\ pc["control"] = "rollbackJoin" /\ WorkerDead
  BY DEF IInv, Typed, PcTyped, RollbackReset
<1>1. /\ pc["monitor"] = "absent" /\ pc["consumer"] = "idle"
      /\ sniffer # "alive" /\ pc["sniffer"] = "idle"
  BY <1>0 DEF IInv, StartUndisturbed, StartLabels, RollbackOwnsNothing,
              CallbackOnLiveThread, SnifferLabels
<1>2. /\ pc' = [pc EXCEPT !["control"] = "idle", !["worker"] = "absent"]
      /\ started' = FALSE /\ stopped' = FALSE
      /\ stopRequested' = FALSE /\ finalizing' = FALSE /\ error' = None
      /\ packetQueue' = <<>> /\ queue' = <<>> /\ tail' = <<>> /\ sentinelSent' = FALSE
  BY DEF RollbackReset, ClearQueues
<1>3. /\ pc' \in [Threads -> Labels]
      /\ pc'["control"] = "idle" /\ pc'["worker"] = "absent"
      /\ pc'["monitor"] = "absent" /\ pc'["consumer"] = "idle"
      /\ pc'["sniffer"] = "idle"
  BY <1>0, <1>1, <1>2 DEF Threads, Labels, ControlLabels, WorkerLabels
<1>4. /\ CaptureTypeOK' /\ BackendOwned' /\ UnattemptedIsFresh'
      /\ sniffer' = "none" /\ socket' = FALSE
  BY DEF RollbackReset, CaptureForget, CaptureTypeOK, BackendOwned, UnattemptedIsFresh
<1>q. QED
  BY <1>2, <1>3, <1>4
     DEF IInv, Typed, PcTyped, SnifferLabels, MonitorLabels, OwnerHoldsLock,
         CallbackOnLiveThread, StopsInOrder, StoppedForGood, StartUndisturbed,
         ControlIsStarted, RollbackOwnsNothing, RolledBackIsFresh, Stoppers,
         OwnerLabels, StartLabels, WorkerDead

(* The backend may end under any of this, but not inside a callback.        *)
LEMMA SourceEndsKeeps == ASSUME IInv, SourceEnds PROVE IInv'
<1>1. /\ UNCHANGED <<pc, started, stopped, cleanup, captureStopped, socket>>
      /\ started /\ sniffer' = "dead" /\ pc["sniffer"] = "idle"
  BY DEF SourceEnds, CaptureEnds, lifecycle, locks
<1>2. CaptureTypeOK' /\ BackendOwned' /\ UnattemptedIsFresh'
  BY DEF SourceEnds, CaptureEnds, IInv, Typed, CaptureTypeOK, BackendOwned,
         UnattemptedIsFresh
<1>q. QED
  BY <1>1, <1>2
     DEF IInv, Typed, PcTyped, OwnerHoldsLock, CallbackOnLiveThread, StopsInOrder,
         StoppedForGood, StartUndisturbed, ControlIsStarted, RollbackOwnsNothing,
         RolledBackIsFresh, WorkerDead

(* A stuttering step.                                                       *)
LEMMA StutterKeeps == ASSUME IInv, UNCHANGED vars PROVE IInv'
<1>1. /\ UNCHANGED <<captureVars, lifecycle, queues, pc, cleanup>>
  BY DEF vars, locks
<1>q. QED
  BY <1>1
     DEF IInv, Typed, PcTyped, CaptureTypeOK, BackendOwned, UnattemptedIsFresh,
         OwnerHoldsLock, CallbackOnLiveThread, StopsInOrder, StoppedForGood,
         StartUndisturbed, ControlIsStarted, RollbackOwnsNothing,
         RolledBackIsFresh, WorkerDead, captureVars, lifecycle, queues

-----------------------------------------------------------------------------
(***************************************************************************)
(* The theorems.                                                           *)
(***************************************************************************)
LEMMA InitIInv == Init => IInv
BY SessionConstants
   DEF Init, CaptureInit, IInv, Typed, PcTyped, CaptureTypeOK, BackendOwned,
       UnattemptedIsFresh, OwnerHoldsLock, CallbackOnLiveThread, StopsInOrder,
       StoppedForGood, StartUndisturbed, ControlIsStarted, RollbackOwnsNothing,
       RolledBackIsFresh, WorkerDead, Threads, Stoppers, OwnerLabels, StartLabels,
       Labels, SnifferLabels, WorkerLabels, MonitorLabels, ControlLabels, ConsumerLabels

(* ... and every step keeps it.                                             *)
LEMMA NextIInv == IInv /\ [Next]_vars => IInv'
<1> SUFFICES ASSUME IInv, [Next]_vars PROVE IInv'
  OBVIOUS
<1>1. CASE PacketArrives \/ PutPacket
  BY <1>1, SnifferQuiet, QuietStep
<1>2. CASE SourceEnds
  BY <1>2, SourceEndsKeeps
<1>3. CASE Worker
  BY <1>3, WorkerQuiet, QuietStep
<1>4. CASE \/ Stop \/ RequestStop \/ MonitorWatch \/ MonitorLeave
  BY <1>4, StopperQuiet, QuietStep
<1>5. ASSUME NEW t \in Stoppers, FinishStop(t) PROVE IInv'
  <2>1. CASE StopEnter(t) /\ stopped
    BY <2>1, StopperQuiet, QuietStep
  <2>2. CASE ~(StopEnter(t) /\ stopped)
    BY <1>5, <2>2, FinishStopOwned, OwnerStep
  <2>q. QED BY <2>1, <2>2
<1>6. CASE PollStep
  BY <1>6, ConsumerQuiet, QuietStep
<1>7. CASE StartBegin
  BY <1>7, StartBeginKeeps
<1>8. CASE StartStep
  BY <1>8, StartOwned, OwnerStep DEF Stoppers
<1>9. CASE StartMonitor /\ pc'["monitor"] # pc["monitor"]
  BY <1>9, StartMonitorKeeps
<1>10. CASE RollbackReset
  BY <1>10, RollbackResetKeeps
<1>11. CASE UNCHANGED vars
  BY <1>11, StutterKeeps
<1>q. QED
  BY <1>1, <1>2, <1>3, <1>4, <1>5, <1>6, <1>7, <1>8, <1>9, <1>10, <1>11
     DEF Next, Monitor, Control, Start, StartStep, PollStep, Terminated, Stoppers

(* So it always holds.                                                      *)
LEMMA InductiveInvariant == Spec => []IInv
BY InitIInv, NextIInv, PTL DEF Spec

(* Whatever fails and whoever stops, a native thread and a socket belong to *)
(* a capture whose stop() is still accepted (_shutdown_backend and the      *)
(* rollback of LivePacketCapture.start).                                    *)
THEOREM CaptureNeverLeaks == Spec => []BackendOwned
<1>1. IInv => BackendOwned
  BY DEF IInv
<1>q. QED BY <1>1, InductiveInvariant, PTL

(* _finish_stop finishes the decoder only after the native callback and the *)
(* worker are over, even when an earlier stop gave up on them.              *)
THEOREM DecoderFinishedAlone == Spec => []FinishedAlone
<1>1. IInv => FinishedAlone
  BY DEF IInv, Typed, PcTyped, SnifferLabels, BackendOwned, CallbackOnLiveThread,
         StopsInOrder, StoppedForGood, FinishedAlone
<1>q. QED BY <1>1, InductiveInvariant, PTL

(* A start() that fails and is rolled back completely leaves the session as *)
(* it was before (_rollback_failed_start, _reset_after_failed_start).       *)
THEOREM RollbackLeavesNothing == Spec => []RolledBackIsFresh
<1>1. IInv => RolledBackIsFresh
  BY DEF IInv
<1>q. QED BY <1>1, InductiveInvariant, PTL

-----------------------------------------------------------------------------
(***************************************************************************)
(* Type correctness, one group of variables at a time.  It needs the       *)
(* ownership invariant, and that a thread about to pass something on has   *)
(* it in hand.                                                             *)
(***************************************************************************)
(* A thread that is about to pass something on has it in hand.              *)
InHand ==
    /\ pc["sniffer"] = "put" => at["sniffer"] \in Packets
    /\ pc["worker"] \in {"decode"} \cup EmitLabels => at["worker"] \in Packets
    /\ pc["consumer"] \in EmitLabels => at["consumer"] \in Packets

TInv == TypeOK /\ InHand /\ IInv

-----------------------------------------------------------------------------
(* The steps of Next by the code they belong to.                            *)
SnifferStep == PacketArrives \/ PutPacket \/ SourceEnds
DecodeStep == WorkerGet \/ WorkerDecode \/ WorkerService \/ WorkerRelease
EmitStep == \E t \in Emitters : EmitEnter(t) \/ EmitCheck(t) \/ EmitPut(t)
StopStep == \E t \in Stoppers : FinishStop(t)
RequestStep == MonitorWatch \/ MonitorLeave \/ Stop \/ RequestStop
StartingStep == StartBegin \/ Start
LookStep == PollEnter \/ ServiceCaptureState \/ LockDelivery \/ FlushEnter \/ PollFinal
            \/ PollTimeout \/ IterateEvents
TakeStep == Flush \/ \E here, there \in ConsumerLabels, unlock \in BOOLEAN :
                         /\ here \notin EmitLabels
                         /\ there \notin {"idle"} \cup StopLabels \cup EmitLabels
                         /\ TryGet(here, there, unlock)

(* Every step is one of these.                                              *)
LEMMA NextSteps ==
    ASSUME [Next]_vars
    PROVE  \/ SnifferStep \/ DecodeStep \/ EmitStep \/ StopStep \/ RequestStep
           \/ StartingStep \/ LookStep \/ TakeStep \/ UNCHANGED vars
<1>1. ASSUME Poll PROVE EmitStep \/ StopStep \/ LookStep \/ TakeStep
  BY <1>1 DEF Poll, EmitStep, StopStep, LookStep, TakeStep, Emitters, Stoppers,
              ConsumerLabels, StopLabels, EmitLabels
<1>q. QED
  BY <1>1 DEF Next, Worker, Monitor, Control, Terminated, SnifferStep, DecodeStep,
              EmitStep, StopStep, RequestStep, StartingStep, LookStep, Emitters, Stoppers

-----------------------------------------------------------------------------
(* The steps of sequences and of packet numbers.                            *)
LEMMA SeqSteps ==
    ASSUME NEW S, NEW s \in Seq(S)
    PROVE  /\ \A x \in S : Append(s, x) \in Seq(S)
           /\ s # <<>> => Head(s) \in S /\ Tail(s) \in Seq(S)
           /\ \A n \in 0..Len(s) : SubSeq(s, 1, n) \in Seq(S)
           /\ \A u \in Seq(S) : u \o s \in Seq(S)
OBVIOUS

(* What can be taken from a queue.                                          *)
LEMMA Heads ==
    ASSUME TInv
    PROVE  /\ packetQueue # <<>> /\ Head(packetQueue) # Sentinel =>
                  Head(packetQueue) \in Packets
           /\ held # <<>> => Head(held) \in Packets
<1>1. packetQueue # <<>> => Head(packetQueue) \in Packets \cup {Sentinel}
  BY SeqSteps DEF TInv, TypeOK, QueuesOK
<1>q. QED BY <1>1, SeqSteps DEF TInv, TypeOK, QueuesOK

(* The wire numbers its packets up to MaxPackets.                           *)
LEMMA NextPacket ==
    ASSUME sent \in 0..MaxPackets, sent < MaxPackets
    PROVE  sent + 1 \in Packets /\ sent + 1 \in 0..MaxPackets
BY SessionConstants DEF Packets

(* The retained error.                                                      *)
LEMMA ErrorTyped ==
    ASSUME TInv, [Next]_vars
    PROVE  error' \in Errors
<1> USE DEF TInv, TypeOK, LifecycleOK, ThreadsOK
<1>1. CASE SnifferStep
  <2>1. CASE PacketArrives
    BY <2>1 DEF PacketArrives, RecordError, Errors, lifecycle, consumerOnly
  <2>2. CASE PutPacket
    BY <2>2 DEF PutPacket, RecordError, Errors, lifecycle, consumerOnly
  <2>3. CASE SourceEnds
    BY <2>3 DEF SourceEnds, CaptureEnds, RecordError, Errors, lifecycle,
       consumerOnly
  <2>q. QED BY <1>1, <2>1, <2>2, <2>3 DEF SnifferStep
<1>2. CASE DecodeStep
  BY <1>2 DEF DecodeStep, WorkerGet, WorkerDecode, WorkerService, WorkerRelease,
     TakeHeld, RecordError, Errors, lifecycle, consumerOnly
<1>3. CASE EmitStep
  BY <1>3 DEF EmitStep, EmitEnter, EmitCheck, EmitPut, AfterEmit, WhenFull,
     RecordError, Errors, lifecycle, consumerOnly
<1>4. CASE StopStep
  BY <1>4 DEF StopStep, FinishStop, StopEnter, StopCapture, SignalWorker, JoinWorker,
     DeadlinePasses, FinalizeCollector, RecordError, Errors, lifecycle, consumerOnly
<1>5. CASE RequestStep
  BY <1>5 DEF RequestStep, MonitorWatch, MonitorLeave, Stop, RequestStop, RecordError,
     Errors, lifecycle, consumerOnly
<1>6. CASE StartingStep
  BY <1>6 DEF StartingStep, StartBegin, Start, StartCapture, StartMonitor,
     RollbackCapture, SignalWorker, RollbackTimeout, RollbackReset, KeepForRetry,
     DeadlinePasses, ClearQueues, RecordError, Errors, lifecycle, consumerOnly
<1>7. CASE LookStep
  BY <1>7 DEF LookStep, PollEnter, ServiceCaptureState, LockDelivery, FlushEnter,
     PollFinal, PollTimeout, IterateEvents, RecordError, Errors, lifecycle,
     consumerOnly
<1>8. CASE TakeStep
  BY <1>8 DEF TakeStep, TryGet, Flush, TakeHeld, ConsumerLabels, RecordError, Errors,
     lifecycle, consumerOnly
<1>9. CASE UNCHANGED vars
  BY <1>9 DEF vars, RecordError, Errors, lifecycle, consumerOnly, queues, locks,
     bounds, history
<1>q. QED BY <1>1, <1>2, <1>3, <1>4, <1>5, <1>6, <1>7, <1>8, <1>9, NextSteps

(* The flags.                                                               *)
LEMMA FlagsTyped ==
    ASSUME TInv, [Next]_vars
    PROVE  /\ stopRequested' \in BOOLEAN /\ finalizing' \in BOOLEAN
           /\ incomplete' \in BOOLEAN /\ sentinelSent' \in BOOLEAN
           /\ decodeEnabled' \in BOOLEAN /\ expired' \in BOOLEAN
<1> USE DEF TInv, TypeOK, LifecycleOK, ThreadsOK
<1>1. CASE SnifferStep
  <2>1. CASE PacketArrives
    BY <2>1 DEF PacketArrives, lifecycle, queues, consumerOnly
  <2>2. CASE PutPacket
    BY <2>2 DEF PutPacket, lifecycle, queues, consumerOnly
  <2>3. CASE SourceEnds
    BY <2>3 DEF SourceEnds, CaptureEnds, lifecycle, queues, consumerOnly
  <2>q. QED BY <1>1, <2>1, <2>2, <2>3 DEF SnifferStep
<1>2. CASE DecodeStep
  BY <1>2 DEF DecodeStep, WorkerGet, WorkerDecode, WorkerService, WorkerRelease,
     TakeHeld, lifecycle, queues, consumerOnly
<1>3. CASE EmitStep
  BY <1>3 DEF EmitStep, EmitEnter, EmitCheck, EmitPut, AfterEmit, WhenFull, lifecycle,
     queues, consumerOnly
<1>4. CASE StopStep
  BY <1>4 DEF StopStep, FinishStop, StopEnter, StopCapture, SignalWorker, JoinWorker,
     DeadlinePasses, FinalizeCollector, lifecycle, queues, consumerOnly
<1>5. CASE RequestStep
  BY <1>5 DEF RequestStep, MonitorWatch, MonitorLeave, Stop, RequestStop, lifecycle,
     queues, consumerOnly
<1>6. CASE StartingStep
  BY <1>6 DEF StartingStep, StartBegin, Start, StartCapture, StartMonitor,
     RollbackCapture, SignalWorker, RollbackTimeout, RollbackReset, KeepForRetry,
     DeadlinePasses, ClearQueues, lifecycle, queues, consumerOnly
<1>7. CASE LookStep
  BY <1>7 DEF LookStep, PollEnter, ServiceCaptureState, LockDelivery, FlushEnter,
     PollFinal, PollTimeout, IterateEvents, lifecycle, queues, consumerOnly
<1>8. CASE TakeStep
  BY ZenonT(60), <1>8 DEF TakeStep, TryGet, Flush, TakeHeld, ConsumerLabels, lifecycle, queues,
     consumerOnly
<1>9. CASE UNCHANGED vars
  BY <1>9 DEF vars, lifecycle, queues, consumerOnly, locks, bounds, history
<1>q. QED BY <1>1, <1>2, <1>3, <1>4, <1>5, <1>6, <1>7, <1>8, <1>9, NextSteps

(* The counters.                                                            *)
LEMMA CountersTyped ==
    ASSUME TInv, [Next]_vars
    PROVE  sent' \in 0..MaxPackets /\ failures' \in Nat /\ starts' \in Nat
<1> USE DEF TInv, TypeOK, LifecycleOK, ThreadsOK
<1>1. CASE SnifferStep
  <2>1. CASE PacketArrives
    BY <2>1, NextPacket DEF PacketArrives, MayFail, bounds, consumerOnly
  <2>2. CASE PutPacket
    BY <2>2 DEF PutPacket, MayFail, bounds, consumerOnly
  <2>3. CASE SourceEnds
    BY <2>3 DEF SourceEnds, CaptureEnds, MayFail, bounds, consumerOnly
  <2>q. QED BY <1>1, <2>1, <2>2, <2>3 DEF SnifferStep
<1>2. CASE DecodeStep
  BY <1>2 DEF DecodeStep, WorkerGet, WorkerDecode, WorkerService, WorkerRelease,
     TakeHeld, MayFail, bounds, consumerOnly
<1>3. CASE EmitStep
  BY <1>3 DEF EmitStep, EmitEnter, EmitCheck, EmitPut, AfterEmit, WhenFull, MayFail,
     bounds, consumerOnly
<1>4. CASE StopStep
  BY <1>4 DEF StopStep, FinishStop, StopEnter, StopCapture, SignalWorker, JoinWorker,
     DeadlinePasses, FinalizeCollector, MayFail, bounds, consumerOnly
<1>5. CASE RequestStep
  BY <1>5 DEF RequestStep, MonitorWatch, MonitorLeave, Stop, RequestStop, MayFail,
     bounds, consumerOnly
<1>6. CASE StartingStep
  BY <1>6 DEF StartingStep, StartBegin, Start, StartCapture, StartMonitor,
     RollbackCapture, SignalWorker, RollbackTimeout, RollbackReset, KeepForRetry,
     DeadlinePasses, ClearQueues, MayFail, bounds, consumerOnly
<1>7. CASE LookStep
  BY <1>7 DEF LookStep, PollEnter, ServiceCaptureState, LockDelivery, FlushEnter,
     PollFinal, PollTimeout, IterateEvents, MayFail, bounds, consumerOnly
<1>8. CASE TakeStep
  BY <1>8 DEF TakeStep, TryGet, Flush, TakeHeld, ConsumerLabels, MayFail, bounds,
     consumerOnly
<1>9. CASE UNCHANGED vars
  BY <1>9 DEF vars, MayFail, bounds, consumerOnly, lifecycle, queues, locks, history
<1>q. QED BY <1>1, <1>2, <1>3, <1>4, <1>5, <1>6, <1>7, <1>8, <1>9, NextSteps

(* The owners of the locks.                                                 *)
LEMMA LocksTyped ==
    ASSUME TInv, [Next]_vars
    PROVE  /\ cleanup' \in Stoppers \cup {None}
           /\ delivery' \in Emitters \cup {None} /\ decoder' \in {"worker", None}
<1> USE DEF TInv, TypeOK, LifecycleOK, ThreadsOK
<1>1. CASE SnifferStep
  <2>1. CASE PacketArrives
    BY <2>1 DEF PacketArrives, locks, consumerOnly, Stoppers, Emitters
  <2>2. CASE PutPacket
    BY <2>2 DEF PutPacket, locks, consumerOnly, Stoppers, Emitters
  <2>3. CASE SourceEnds
    BY <2>3 DEF SourceEnds, CaptureEnds, locks, consumerOnly, Stoppers, Emitters
  <2>q. QED BY <1>1, <2>1, <2>2, <2>3 DEF SnifferStep
<1>2. CASE DecodeStep
  BY <1>2 DEF DecodeStep, WorkerGet, WorkerDecode, WorkerService, WorkerRelease,
     TakeHeld, locks, consumerOnly, Stoppers, Emitters
<1>3. CASE EmitStep
  BY <1>3 DEF EmitStep, EmitEnter, EmitCheck, EmitPut, AfterEmit, WhenFull, locks,
     consumerOnly, Stoppers, Emitters
<1>4. CASE StopStep
  BY <1>4 DEF StopStep, FinishStop, StopEnter, StopCapture, SignalWorker, JoinWorker,
     DeadlinePasses, FinalizeCollector, locks, consumerOnly, Stoppers, Emitters
<1>5. CASE RequestStep
  BY <1>5 DEF RequestStep, MonitorWatch, MonitorLeave, Stop, RequestStop, locks,
     consumerOnly, Stoppers, Emitters
<1>6. CASE StartingStep
  BY <1>6 DEF StartingStep, StartBegin, Start, StartCapture, StartMonitor,
     RollbackCapture, SignalWorker, RollbackTimeout, RollbackReset, KeepForRetry,
     DeadlinePasses, ClearQueues, locks, consumerOnly, Stoppers, Emitters
<1>7. CASE LookStep
  BY <1>7 DEF LookStep, PollEnter, ServiceCaptureState, LockDelivery, FlushEnter,
     PollFinal, PollTimeout, IterateEvents, locks, consumerOnly, Stoppers, Emitters
<1>8. CASE TakeStep
  BY <1>8 DEF TakeStep, TryGet, Flush, TakeHeld, ConsumerLabels, locks, consumerOnly,
     Stoppers, Emitters
<1>9. CASE UNCHANGED vars
  BY <1>9 DEF vars, locks, consumerOnly, Stoppers, Emitters, lifecycle, queues,
     bounds, history
<1>q. QED BY <1>1, <1>2, <1>3, <1>4, <1>5, <1>6, <1>7, <1>8, <1>9, NextSteps

(* Where the threads are.                                                   *)
LEMMA LabelsTyped ==
    ASSUME TInv, [Next]_vars
    PROVE  /\ pc'["worker"] \in WorkerLabels /\ pc'["control"] \in ControlLabels
           /\ pc'["consumer"] \in ConsumerLabels
<1> USE DEF TInv, TypeOK, LifecycleOK, ThreadsOK
<1>1. CASE SnifferStep
  <2>1. CASE PacketArrives
    BY <2>1 DEF PacketArrives, Labels, WorkerLabels, ControlLabels, ConsumerLabels,
       EmitLabels, StopLabels, Threads, Goto, AfterStop, AfterRaise, Stoppers,
       Emitters
  <2>2. CASE PutPacket
    BY <2>2 DEF PutPacket, Labels, WorkerLabels, ControlLabels, ConsumerLabels,
       EmitLabels, StopLabels, Threads, Goto, AfterStop, AfterRaise, Stoppers,
       Emitters
  <2>3. CASE SourceEnds
    BY <2>3 DEF SourceEnds, CaptureEnds, Labels, WorkerLabels, ControlLabels,
       ConsumerLabels, EmitLabels, StopLabels, Threads, Goto, AfterStop, AfterRaise,
       Stoppers, Emitters
  <2>q. QED BY <1>1, <2>1, <2>2, <2>3 DEF SnifferStep
<1>2. CASE DecodeStep
  BY <1>2 DEF DecodeStep, WorkerGet, WorkerDecode, WorkerService, WorkerRelease,
     TakeHeld, Labels, WorkerLabels, ControlLabels, ConsumerLabels, EmitLabels,
     StopLabels, Threads, Goto, AfterStop, AfterRaise, Stoppers, Emitters
<1>3. CASE EmitStep
  BY <1>3 DEF EmitStep, EmitEnter, EmitCheck, EmitPut, AfterEmit, WhenFull, Labels,
     WorkerLabels, ControlLabels, ConsumerLabels, EmitLabels, StopLabels, Threads,
     Goto, AfterStop, AfterRaise, Stoppers, Emitters
<1>4. CASE StopStep
  BY <1>4 DEF StopStep, FinishStop, StopEnter, StopCapture, SignalWorker, JoinWorker,
     DeadlinePasses, FinalizeCollector, Labels, WorkerLabels, ControlLabels,
     ConsumerLabels, EmitLabels, StopLabels, Threads, Goto, AfterStop, AfterRaise,
     Stoppers, Emitters
<1>5. CASE RequestStep
  BY <1>5 DEF RequestStep, MonitorWatch, MonitorLeave, Stop, RequestStop, Labels,
     WorkerLabels, ControlLabels, ConsumerLabels, EmitLabels, StopLabels, Threads,
     Goto, AfterStop, AfterRaise, Stoppers, Emitters
<1>6. CASE StartingStep
  BY <1>6 DEF StartingStep, StartBegin, Start, StartCapture, StartMonitor,
     RollbackCapture, SignalWorker, RollbackTimeout, RollbackReset, KeepForRetry,
     DeadlinePasses, ClearQueues, Labels, WorkerLabels, ControlLabels, ConsumerLabels,
     EmitLabels, StopLabels, Threads, Goto, AfterStop, AfterRaise, Stoppers, Emitters
<1>7. CASE LookStep
  BY <1>7 DEF LookStep, PollEnter, ServiceCaptureState, LockDelivery, FlushEnter,
     PollFinal, PollTimeout, IterateEvents, Labels, WorkerLabels, ControlLabels,
     ConsumerLabels, EmitLabels, StopLabels, Threads, Goto, AfterStop, AfterRaise,
     Stoppers, Emitters
<1>8. CASE TakeStep
  <2>1. CASE Flush
    BY <2>1 DEF Flush, TakeHeld, Labels, WorkerLabels, ControlLabels,
       ConsumerLabels, EmitLabels, StopLabels, Threads, Goto, AfterStop, AfterRaise,
       Stoppers, Emitters
  <2>2. ASSUME NEW here \in ConsumerLabels, NEW there \in ConsumerLabels,
               NEW unlock \in BOOLEAN, TryGet(here, there, unlock),
               there \notin {"idle"} \cup StopLabels \cup EmitLabels
        PROVE  /\ pc'["worker"] \in WorkerLabels /\ pc'["control"] \in ControlLabels
               /\ pc'["consumer"] \in ConsumerLabels
    BY <2>2 DEF TryGet, Labels, WorkerLabels, ControlLabels, ConsumerLabels,
       EmitLabels, StopLabels, Threads, Goto, AfterStop, AfterRaise, Stoppers,
       Emitters
  <2>q. QED BY <1>8, <2>1, <2>2 DEF TakeStep
<1>9. CASE UNCHANGED vars
  BY <1>9 DEF vars, Labels, WorkerLabels, ControlLabels, ConsumerLabels, EmitLabels,
     StopLabels, Threads, Goto, AfterStop, AfterRaise, Stoppers, Emitters, lifecycle,
     queues, locks, bounds, history
<1>q. QED BY <1>1, <1>2, <1>3, <1>4, <1>5, <1>6, <1>7, <1>8, <1>9, NextSteps

(* What the threads have in hand ...                                        *)
LEMMA AtTyped ==
    ASSUME TInv, [Next]_vars
    PROVE  at' \in [Threads -> Packets \cup {None}]
<1> USE DEF TInv, TypeOK, LifecycleOK, ThreadsOK
<1>1. CASE SnifferStep
  <2>1. CASE PacketArrives
    BY <2>1, NextPacket, Heads DEF PacketArrives, InHand, Threads, EmitLabels,
       consumerOnly
  <2>2. CASE PutPacket
    BY <2>2 DEF PutPacket, InHand, Threads, EmitLabels, consumerOnly
  <2>3. CASE SourceEnds
    BY <2>3 DEF SourceEnds, CaptureEnds, InHand, Threads, EmitLabels, consumerOnly
  <2>q. QED BY <1>1, <2>1, <2>2, <2>3 DEF SnifferStep
<1>2. CASE DecodeStep
  BY <1>2, Heads DEF DecodeStep, WorkerGet, WorkerDecode, WorkerService,
     WorkerRelease, TakeHeld, InHand, Threads, EmitLabels, consumerOnly
<1>3. CASE EmitStep
  BY <1>3 DEF EmitStep, EmitEnter, EmitCheck, EmitPut, AfterEmit, WhenFull, InHand,
     Threads, EmitLabels, consumerOnly
<1>4. CASE StopStep
  BY <1>4 DEF StopStep, FinishStop, StopEnter, StopCapture, SignalWorker, JoinWorker,
     DeadlinePasses, FinalizeCollector, InHand, Threads, EmitLabels, consumerOnly
<1>5. CASE RequestStep
  BY <1>5 DEF RequestStep, MonitorWatch, MonitorLeave, Stop, RequestStop, InHand,
     Threads, EmitLabels, consumerOnly
<1>6. CASE StartingStep
  BY <1>6 DEF StartingStep, StartBegin, Start, StartCapture, StartMonitor,
     RollbackCapture, SignalWorker, RollbackTimeout, RollbackReset, KeepForRetry,
     DeadlinePasses, ClearQueues, InHand, Threads, EmitLabels, consumerOnly
<1>7. CASE LookStep
  BY <1>7 DEF LookStep, PollEnter, ServiceCaptureState, LockDelivery, FlushEnter,
     PollFinal, PollTimeout, IterateEvents, InHand, Threads, EmitLabels, consumerOnly
<1>8. CASE TakeStep
  <2>1. CASE Flush
    BY <2>1, Heads DEF Flush, TakeHeld, InHand, Threads, EmitLabels, consumerOnly
  <2>2. ASSUME NEW here \in ConsumerLabels, NEW there \in ConsumerLabels,
               NEW unlock \in BOOLEAN, TryGet(here, there, unlock),
               there \notin {"idle"} \cup StopLabels \cup EmitLabels
        PROVE  at' \in [Threads -> Packets \cup {None}]
    BY <2>2 DEF TryGet, InHand, Threads, EmitLabels, consumerOnly
  <2>q. QED BY <1>8, <2>1, <2>2 DEF TakeStep
<1>9. CASE UNCHANGED vars
  BY <1>9 DEF vars, InHand, Threads, EmitLabels, consumerOnly, lifecycle, queues,
     locks, bounds, history
<1>q. QED BY <1>1, <1>2, <1>3, <1>4, <1>5, <1>6, <1>7, <1>8, <1>9, NextSteps

(* ... and must have.                                                       *)
LEMMA InHandTyped ==
    ASSUME TInv, [Next]_vars
    PROVE  InHand'
<1> USE DEF TInv, TypeOK, LifecycleOK, ThreadsOK
<1>1. CASE SnifferStep
  <2>1. CASE PacketArrives
    BY <2>1, NextPacket, Heads DEF PacketArrives, InHand, Labels, EmitLabels,
       StopLabels, Threads, Goto, AfterStop, AfterRaise, Stoppers, Emitters,
       consumerOnly
  <2>2. CASE PutPacket
    BY <2>2 DEF PutPacket, InHand, Labels, EmitLabels, StopLabels, Threads, Goto,
       AfterStop, AfterRaise, Stoppers, Emitters, consumerOnly
  <2>3. CASE SourceEnds
    BY <2>3 DEF SourceEnds, CaptureEnds, InHand, Labels, EmitLabels, StopLabels,
       Threads, Goto, AfterStop, AfterRaise, Stoppers, Emitters, consumerOnly
  <2>q. QED BY <1>1, <2>1, <2>2, <2>3 DEF SnifferStep
<1>2. CASE DecodeStep
  BY <1>2, Heads DEF DecodeStep, WorkerGet, WorkerDecode, WorkerService,
     WorkerRelease, TakeHeld, InHand, Labels, EmitLabels, StopLabels, Threads, Goto,
     AfterStop, AfterRaise, Stoppers, Emitters, consumerOnly
<1>3. CASE EmitStep
  BY <1>3 DEF EmitStep, EmitEnter, EmitCheck, EmitPut, AfterEmit, WhenFull, InHand,
     Labels, EmitLabels, StopLabels, Threads, Goto, AfterStop, AfterRaise, Stoppers,
     Emitters, consumerOnly
<1>4. CASE StopStep
  BY <1>4 DEF StopStep, FinishStop, StopEnter, StopCapture, SignalWorker, JoinWorker,
     DeadlinePasses, FinalizeCollector, InHand, Labels, EmitLabels, StopLabels,
     Threads, Goto, AfterStop, AfterRaise, Stoppers, Emitters, consumerOnly
<1>5. CASE RequestStep
  BY <1>5 DEF RequestStep, MonitorWatch, MonitorLeave, Stop, RequestStop, InHand,
     Labels, EmitLabels, StopLabels, Threads, Goto, AfterStop, AfterRaise, Stoppers,
     Emitters, consumerOnly
<1>6. CASE StartingStep
  BY <1>6 DEF StartingStep, StartBegin, Start, StartCapture, StartMonitor,
     RollbackCapture, SignalWorker, RollbackTimeout, RollbackReset, KeepForRetry,
     DeadlinePasses, ClearQueues, InHand, Labels, EmitLabels, StopLabels, Threads,
     Goto, AfterStop, AfterRaise, Stoppers, Emitters, consumerOnly
<1>7. CASE LookStep
  BY <1>7 DEF LookStep, PollEnter, ServiceCaptureState, LockDelivery, FlushEnter,
     PollFinal, PollTimeout, IterateEvents, InHand, Labels, EmitLabels, StopLabels,
     Threads, Goto, AfterStop, AfterRaise, Stoppers, Emitters, consumerOnly
<1>8. CASE TakeStep
  <2>1. CASE Flush
    BY <2>1, Heads DEF Flush, TakeHeld, InHand, Labels, EmitLabels, StopLabels,
       Threads, Goto, AfterStop, AfterRaise, Stoppers, Emitters, consumerOnly
  <2>2. ASSUME NEW here \in ConsumerLabels, NEW there \in ConsumerLabels,
               NEW unlock \in BOOLEAN, TryGet(here, there, unlock),
               there \notin {"idle"} \cup StopLabels \cup EmitLabels
        PROVE  InHand'
    BY <2>2 DEF TryGet, InHand, Labels, EmitLabels, StopLabels, Threads, Goto,
       AfterStop, AfterRaise, Stoppers, Emitters, consumerOnly
  <2>q. QED BY <1>8, <2>1, <2>2 DEF TakeStep
<1>9. CASE UNCHANGED vars
  BY <1>9 DEF vars, InHand, Labels, EmitLabels, StopLabels, Threads, Goto, AfterStop,
     AfterRaise, Stoppers, Emitters, consumerOnly, lifecycle, queues, locks, bounds,
     history
<1>q. QED BY <1>1, <1>2, <1>3, <1>4, <1>5, <1>6, <1>7, <1>8, <1>9, NextSteps

(* A packet or the sentinel goes on the packet queue.                       *)
LEMMA Queued ==
    ASSUME packetQueue \in Seq(Packets \cup {Sentinel})
    PROVE  \A p \in Packets \cup {Sentinel} :
               Append(packetQueue, p) \in Seq(Packets \cup {Sentinel})
OBVIOUS

(* What the queues and the histories hold.                                  *)
LEMMA QueuesTyped == ASSUME TInv, [Next]_vars PROVE QueuesOK'
<1>0. QueuesOK /\ InHand
  BY DEF TInv, TypeOK
<1>1. CASE SnifferStep
  <2>1. CASE PacketArrives \/ SourceEnds
    BY <1>0, <2>1 DEF PacketArrives, SourceEnds, QueuesOK, queues, history
  <2>2. CASE PutPacket
    <3>1. UNCHANGED <<queue, tail, held, decoded, emitted, delivered>>
          /\ at["sniffer"] \in Packets
      BY <1>0, <2>2 DEF PutPacket, InHand
    <3>2. \/ UNCHANGED <<packetQueue, accepted>>
          \/ /\ packetQueue' = Append(packetQueue, at["sniffer"])
             /\ accepted' = Append(accepted, at["sniffer"])
      BY <2>2 DEF PutPacket
    <3>q. QED BY <1>0, <3>1, <3>2, Queued, SeqSteps DEF QueuesOK
  <2>q. QED BY <1>1, <2>1, <2>2 DEF SnifferStep
<1>2. CASE DecodeStep
  <2>1. CASE WorkerGet
    <3>1. UNCHANGED <<queue, tail, held, accepted, decoded, emitted, delivered>>
          /\ packetQueue # <<>> /\ packetQueue' = Tail(packetQueue)
      BY <2>1 DEF WorkerGet, history
    <3>q. QED BY <1>0, <3>1, SeqSteps DEF QueuesOK
  <2>2. CASE WorkerDecode
    <3>1. UNCHANGED <<packetQueue, queue, tail, accepted, emitted, delivered>>
          /\ at["worker"] \in Packets
      BY <1>0, <2>2 DEF WorkerDecode, InHand
    <3>2. /\ decoded' = decoded \/ decoded' = Append(decoded, at["worker"])
          /\ held' = held \/ held' = Append(held, at["worker"])
      BY <2>2 DEF WorkerDecode
    <3>q. QED BY <1>0, <3>1, <3>2, SeqSteps DEF QueuesOK
  <2>3. CASE WorkerService
    <3>1. UNCHANGED <<packetQueue, queue, tail, accepted, decoded, emitted, delivered>>
          /\ (UNCHANGED held \/ (held # <<>> /\ held' = Tail(held)))
      BY <2>3 DEF WorkerService, TakeHeld, history
    <3>q. QED BY <1>0, <3>1, SeqSteps DEF QueuesOK
  <2>4. CASE WorkerRelease
    BY <1>0, <2>4 DEF WorkerRelease, QueuesOK, queues, history
  <2>q. QED BY <1>2, <2>1, <2>2, <2>3, <2>4 DEF DecodeStep
<1>3. ASSUME NEW t \in Emitters, EmitEnter(t) \/ EmitCheck(t) \/ EmitPut(t)
      PROVE  QueuesOK'
  <2>1. at[t] \in Packets
    BY <1>0, <1>3 DEF EmitEnter, EmitCheck, EmitPut, InHand, EmitLabels, Emitters
  <2>2. /\ UNCHANGED <<packetQueue, held, accepted, decoded, delivered>>
        /\ emitted' = emitted \/ emitted' = Append(emitted, at[t])
        /\ queue' = queue \/ queue' = Append(queue, at[t])
        /\ tail' = tail \/ tail' = Append(tail, at[t])
    BY <1>3 DEF EmitEnter, EmitCheck, EmitPut, queues, history
  <2>q. QED BY <1>0, <2>1, <2>2, SeqSteps DEF QueuesOK
<1>4. ASSUME NEW t \in Stoppers, FinishStop(t) PROVE QueuesOK'
  <2>1. CASE StopEnter(t) \/ StopCapture(t) \/ JoinWorker(t)
    BY <1>0, <2>1 DEF StopEnter, StopCapture, JoinWorker, QueuesOK, queues, history
  <2>2. CASE SignalWorker(t, "signal", "join")
    <3>1. UNCHANGED <<queue, tail, held, accepted, decoded, emitted, delivered>>
          /\ (UNCHANGED packetQueue \/ packetQueue' = Append(packetQueue, Sentinel))
      BY <2>2 DEF SignalWorker, history
    <3>q. QED BY <1>0, <3>1, Queued DEF QueuesOK
  <2>3. CASE FinalizeCollector(t)
    <3>1. PICK n \in 0..Len(held) : tail' = tail \o SubSeq(held, 1, n)
                                   /\ emitted' = emitted \o SubSeq(held, 1, n)
      BY <2>3 DEF FinalizeCollector
    <3>2. UNCHANGED <<packetQueue, queue, accepted, decoded, delivered>> /\ held' = <<>>
      BY <2>3 DEF FinalizeCollector
    <3>3. SubSeq(held, 1, n) \in Seq(Packets)
      BY <1>0, SeqSteps DEF QueuesOK
    <3>q. QED BY <1>0, <3>1, <3>2, <3>3, SeqSteps DEF QueuesOK
  <2>q. QED BY <1>4, <2>1, <2>2, <2>3 DEF FinishStop
<1>5. CASE RequestStep
  BY <1>0, <1>5 DEF RequestStep, MonitorWatch, MonitorLeave, Stop, RequestStop,
                    QueuesOK, queues, history
<1>6. CASE StartingStep
  <2>1. CASE StartBegin \/ StartCapture \/ StartMonitor \/ RollbackCapture \/ RollbackTimeout
    BY <1>0, <2>1 DEF StartBegin, StartCapture, StartMonitor, RollbackCapture,
                      RollbackTimeout, QueuesOK, queues, history
  <2>2. CASE SignalWorker("control", "rollbackSignal", "rollbackJoin")
    <3>1. UNCHANGED <<queue, tail, held, accepted, decoded, emitted, delivered>>
          /\ (UNCHANGED packetQueue \/ packetQueue' = Append(packetQueue, Sentinel))
      BY <2>2 DEF SignalWorker, history
    <3>q. QED BY <1>0, <3>1, Queued DEF QueuesOK
  <2>3. CASE RollbackReset
    BY <1>0, <2>3 DEF RollbackReset, ClearQueues, QueuesOK
  <2>q. QED BY <1>6, <2>1, <2>2, <2>3 DEF StartingStep, Start
<1>7. CASE LookStep
  <2>1. CASE ~PollFinal
    BY <1>0, <1>7, <2>1 DEF LookStep, PollEnter, ServiceCaptureState, LockDelivery,
                            FlushEnter, PollTimeout, IterateEvents, QueuesOK, consumerOnly
  <2>2. CASE PollFinal
    <3>1. UNCHANGED <<packetQueue, queue, held, accepted, decoded, emitted>>
          /\ \/ tail # <<>> /\ tail' = Tail(tail)
                /\ delivered' = Append(delivered, Head(tail))
             \/ UNCHANGED <<tail, delivered>>
      BY <2>2 DEF PollFinal, consumerOnly
    <3>2. tail # <<>> => Tail(tail) \in Seq(Packets)
                         /\ Append(delivered, Head(tail)) \in Seq(Packets)
      BY <1>0, SeqSteps DEF QueuesOK
    <3>q. QED BY <1>0, <3>1, <3>2 DEF QueuesOK
  <2>q. QED BY <2>1, <2>2
<1>8. CASE TakeStep
  <2>1. ASSUME NEW here, NEW there, NEW unlock, TryGet(here, there, unlock)
        PROVE  QueuesOK'
    <3>1. UNCHANGED <<packetQueue, tail, held, accepted, decoded, emitted>>
          /\ \/ queue # <<>> /\ queue' = Tail(queue)
                /\ delivered' = Append(delivered, Head(queue))
             \/ UNCHANGED <<queue, delivered>>
      BY <2>1 DEF TryGet, consumerOnly
    <3>2. queue # <<>> => Tail(queue) \in Seq(Packets)
                          /\ Append(delivered, Head(queue)) \in Seq(Packets)
      BY <1>0, SeqSteps DEF QueuesOK
    <3>q. QED BY <1>0, <3>1, <3>2 DEF QueuesOK
  <2>2. CASE Flush
    <3>1. UNCHANGED <<packetQueue, queue, tail, accepted, decoded, emitted, delivered>>
          /\ (UNCHANGED held \/ (held # <<>> /\ held' = Tail(held)))
      BY <2>2 DEF Flush, TakeHeld, consumerOnly
    <3>q. QED BY <1>0, <3>1, SeqSteps DEF QueuesOK
  <2>q. QED BY <1>8, <2>1, <2>2 DEF TakeStep
<1>9. CASE UNCHANGED vars
  BY <1>0, <1>9 DEF vars, QueuesOK, queues, history
<1>q. QED
  BY <1>1, <1>2, <1>3, <1>4, <1>5, <1>6, <1>7, <1>8, <1>9, NextSteps DEF EmitStep, StopStep

-----------------------------------------------------------------------------
(* The session starts well typed ...                                        *)
LEMMA InitTInv == Init => TInv
<1>1. ASSUME Init PROVE LifecycleOK
  <2>1. sent \in 0..MaxPackets /\ failures \in Nat /\ starts \in Nat
    BY <1>1, SessionConstants DEF Init
  <2>q. QED BY <1>1, <2>1 DEF Init, CaptureInit, LifecycleOK, CaptureTypeOK, Errors
<1>2. ASSUME Init PROVE QueuesOK /\ InHand
  BY <1>2 DEF Init, QueuesOK, InHand, Threads, EmitLabels
<1>3. ASSUME Init PROVE ThreadsOK
  BY <1>3 DEF Init, ThreadsOK, Threads, Labels, SnifferLabels, WorkerLabels,
              MonitorLabels, ControlLabels, ConsumerLabels
<1>q. QED BY <1>1, <1>2, <1>3, InitIInv DEF TInv, TypeOK

(* ... and every step keeps it so.                                          *)
LEMMA NextTInv == TInv /\ [Next]_vars => TInv'
<1> SUFFICES ASSUME TInv, [Next]_vars PROVE TInv'
  OBVIOUS
<1>1. IInv'
  BY NextIInv DEF TInv
<1>2. LifecycleOK'
  BY <1>1, ErrorTyped, FlagsTyped, CountersTyped DEF IInv, Typed, LifecycleOK
<1>3. ThreadsOK' /\ InHand'
  BY <1>1, LocksTyped, LabelsTyped, AtTyped, InHandTyped
     DEF IInv, Typed, PcTyped, ThreadsOK
<1>q. QED BY <1>1, <1>2, <1>3, QueuesTyped DEF TInv, TypeOK

(* The state keeps its types whatever the sizes of the queues, and each     *)
(* thread stays at a label of its own code.                                 *)
THEOREM SessionTypeOK == Spec => []TypeOK
<1>1. TInv => TypeOK
  BY DEF TInv
<1>q. QED BY <1>1, InitTInv, NextTInv, PTL DEF Spec

-----------------------------------------------------------------------------
(***************************************************************************)
(* What becomes of packets and events.                                     *)
(***************************************************************************)

-----------------------------------------------------------------------------
(***************************************************************************)
(* Sequences without repetitions.                                          *)
(***************************************************************************)
(* A sequence without repetitions, extended.                                *)
LEMMA OnceAppend ==
    ASSUME NEW S, NEW s \in Seq(S), NEW x \in S
    PROVE  /\ ToSet(Append(s, x)) = ToSet(s) \cup {x}
           /\ IsInjective(s) /\ x \notin ToSet(s) => IsInjective(Append(s, x))
<1>1. /\ Len(Append(s, x)) = Len(s) + 1 /\ Append(s, x)[Len(s) + 1] = x
      /\ \A i \in 1..Len(s) : Append(s, x)[i] = s[i]
      /\ DOMAIN s = 1..Len(s) /\ DOMAIN Append(s, x) = 1..Len(s) + 1
      /\ Len(s) \in Nat
  OBVIOUS
<1>2. 1..Len(s) + 1 = (1..Len(s)) \cup {Len(s) + 1}
  BY <1>1
<1> DEFINE t == Append(s, x)
<1> HIDE DEF t
<1>3. ToSet(t) = ToSet(s) \cup {x}
  BY <1>1, <1>2 DEF t, ToSet
<1>4. ASSUME IsInjective(s), x \notin ToSet(s) PROVE IsInjective(t)
  BY <1>1, <1>2, <1>4 DEF t, ToSet, IsInjective
<1>q. QED BY <1>3, <1>4 DEF t

(* ... without its head.                                                    *)
LEMMA OnceTail ==
    ASSUME NEW S, NEW s \in Seq(S), s # <<>>
    PROVE  /\ ToSet(s) = ToSet(Tail(s)) \cup {Head(s)}
           /\ IsInjective(s) => IsInjective(Tail(s)) /\ Head(s) \notin ToSet(Tail(s))
<1>1. /\ Len(s) \in Nat \ {0} /\ DOMAIN s = 1..Len(s) /\ Head(s) = s[1]
      /\ DOMAIN Tail(s) = 1..Len(s) - 1
      /\ \A i \in 1..Len(s) - 1 : Tail(s)[i] = s[i + 1]
  OBVIOUS
<1> DEFINE t == Tail(s)
<1> HIDE DEF t
<1>2. \A j \in 1..Len(s) : j = 1 \/ (j - 1 \in 1..Len(s) - 1 /\ t[j - 1] = s[j])
  BY <1>1 DEF t
<1>3. ToSet(s) = ToSet(t) \cup {Head(s)}
  <2>1. ToSet(t) \subseteq ToSet(s) /\ Head(s) \in ToSet(s)
    <3>1. \A i \in 1..Len(s) - 1 : i + 1 \in 1..Len(s) /\ t[i] = s[i + 1]
      BY <1>1 DEF t
    <3>2. 1 \in 1..Len(s)
      BY <1>1
    <3>q. QED BY <1>1, <3>1, <3>2 DEF t, ToSet
  <2>2. ASSUME NEW j \in 1..Len(s) PROVE s[j] \in ToSet(t) \cup {Head(s)}
    <3>1. CASE j = 1
      BY <1>1, <3>1
    <3>2. CASE j # 1
      <4>1. j - 1 \in 1..Len(s) - 1 /\ t[j - 1] = s[j]
        BY <1>2, <3>2
      <4>q. QED BY <1>1, <4>1 DEF t, ToSet
    <3>q. QED BY <3>1, <3>2
  <2>q. QED BY <1>1, <2>1, <2>2 DEF ToSet
<1>4. ASSUME IsInjective(s) PROVE IsInjective(t) /\ Head(s) \notin ToSet(t)
  BY <1>1, <1>4 DEF t, ToSet, IsInjective
<1>q. QED BY <1>3, <1>4 DEF t

(* ... followed by another one.                                             *)
LEMMA OnceConcat ==
    ASSUME NEW S, NEW s \in Seq(S), NEW t \in Seq(S)
    PROVE  /\ s \o t \in Seq(S) /\ ToSet(s \o t) = ToSet(s) \cup ToSet(t)
           /\ IsInjective(s) /\ IsInjective(t) /\ ToSet(s) \cap ToSet(t) = {} =>
                  IsInjective(s \o t)
<1>1. /\ Len(s) \in Nat /\ Len(t) \in Nat
      /\ DOMAIN s = 1..Len(s) /\ DOMAIN t = 1..Len(t)
      /\ s \o t \in Seq(S) /\ DOMAIN (s \o t) = 1..Len(s) + Len(t)
      /\ \A i \in 1..Len(s) : (s \o t)[i] = s[i]
      /\ \A i \in 1..Len(t) : (s \o t)[Len(s) + i] = t[i]
  OBVIOUS
<1> DEFINE u == s \o t
<1> HIDE DEF u
<1>2. \A k \in 1..Len(s) + Len(t) :
          \/ k \in 1..Len(s) /\ u[k] = s[k]
          \/ k - Len(s) \in 1..Len(t) /\ u[k] = t[k - Len(s)]
  BY <1>1 DEF u
<1>3. \A i \in 1..Len(t) : Len(s) + i \in 1..Len(s) + Len(t)
  BY <1>1
<1>4. ToSet(u) = ToSet(s) \cup ToSet(t)
  <2>1. ToSet(u) \subseteq ToSet(s) \cup ToSet(t)
    BY <1>1, <1>2 DEF u, ToSet
  <2>2. ToSet(s) \subseteq ToSet(u)
    BY <1>1 DEF u, ToSet
  <2>3. ToSet(t) \subseteq ToSet(u)
    BY <1>1, <1>3 DEF u, ToSet
  <2>q. QED BY <2>1, <2>2, <2>3
<1>5. ASSUME IsInjective(s), IsInjective(t), ToSet(s) \cap ToSet(t) = {}
      PROVE  IsInjective(u)
  <2> SUFFICES ASSUME NEW a \in 1..Len(s) + Len(t), NEW b \in 1..Len(s) + Len(t),
                      u[a] = u[b]
               PROVE  a = b
    BY <1>1 DEF u, IsInjective
  <2>1. \A i \in 1..Len(s), j \in 1..Len(t) : s[i] # t[j]
    <3>1. \A i \in 1..Len(s) : s[i] \in ToSet(s)
      BY <1>1 DEF ToSet
    <3>2. \A j \in 1..Len(t) : t[j] \in ToSet(t)
      BY <1>1 DEF ToSet
    <3>q. QED BY <1>5, <3>1, <3>2
  <2>2. \A i, j \in 1..Len(s) : s[i] = s[j] => i = j
    BY <1>1, <1>5 DEF IsInjective
  <2>3. \A i, j \in 1..Len(t) : t[i] = t[j] => i = j
    BY <1>1, <1>5 DEF IsInjective
  <2>4. CASE a \in 1..Len(s) /\ b \in 1..Len(s)
    BY <1>1, <2>2, <2>4 DEF u
  <2>5. CASE a \notin 1..Len(s) /\ b \notin 1..Len(s)
    <3>1. a - Len(s) = b - Len(s)
      BY <1>2, <2>3, <2>5
    <3>q. QED BY <1>1, <3>1
  <2>6. CASE (a \in 1..Len(s)) # (b \in 1..Len(s))
    BY <1>1, <1>2, <2>1, <2>6 DEF u
  <2>q. QED BY <2>4, <2>5, <2>6
<1>q. QED BY <1>1, <1>4, <1>5 DEF u

(* ... cut off.                                                             *)
LEMMA OncePrefix ==
    ASSUME NEW S, NEW s \in Seq(S), NEW n \in 0..Len(s)
    PROVE  /\ SubSeq(s, 1, n) \in Seq(S) /\ ToSet(SubSeq(s, 1, n)) \subseteq ToSet(s)
           /\ IsInjective(s) => IsInjective(SubSeq(s, 1, n))
<1>1. /\ Len(s) \in Nat /\ n \in Nat /\ n <= Len(s) /\ DOMAIN s = 1..Len(s)
      /\ SubSeq(s, 1, n) \in Seq(S) /\ DOMAIN SubSeq(s, 1, n) = 1..n
      /\ \A i \in 1..n : SubSeq(s, 1, n)[i] = s[i]
  OBVIOUS
<1>2. 1..n \subseteq 1..Len(s)
  BY <1>1
<1>q. QED BY <1>1, <1>2 DEF ToSet, IsInjective

-----------------------------------------------------------------------------
(***************************************************************************)
(* The packets, as long as no error is retained: what was decoded, what    *)
(* the worker has taken and what is queued are together what was accepted, *)
(* in order, with the sentinel behind it once it was sent.                 *)
(***************************************************************************)
Rolling == pc["control"] \in {"rollback", "rollbackSignal", "rollbackJoin"}

(* A session that is not started has no past.                               *)
FreshHistory == ~started => accepted = <<>> /\ decoded = <<>> /\ emitted = <<>> /\ held = <<>>

(* The sentinel is sent when no callback can run any more, ...              *)
SentinelLast ==
    sentinelSent /\ error = None => captureStopped \/ pc["control"] = "rollbackJoin"

(* ... decoding stops only for an error, and a session without a worker is  *)
(* being rolled back.                                                       *)
DecodesOn == started /\ error = None => decodeEnabled
WorkerRuns == started /\ error = None /\ pc["worker"] = "absent" => Rolling

Taken == CASE pc["worker"] = "decode" -> <<at["worker"]>>
           [] pc["worker"] = "dead"   -> <<Sentinel>>
           [] OTHER                   -> <<>>
Given == IF sentinelSent THEN Append(accepted, Sentinel) ELSE accepted
InOrder == error = None => (decoded \o Taken) \o packetQueue = Given

FInv == FreshHistory /\ SentinelLast /\ DecodesOn /\ WorkerRuns /\ InOrder

(* How the three parts of that sequence change.                             *)
LEMMA StreamSteps ==
    ASSUME NEW S, NEW d \in Seq(S), NEW q \in Seq(S), NEW x \in S
    PROVE  /\ d \o Append(q, x) = Append(d \o q, x)
           /\ (d \o <<x>>) \o q = (Append(d, x) \o <<>>) \o q
           /\ q # <<>> => (d \o <<>>) \o q = (d \o <<Head(q)>>) \o Tail(q)
<1>1. d \o Append(q, x) = Append(d \o q, x)
  OBVIOUS
<1>2. d \o <<x>> = Append(d, x) \o <<>>
  OBVIOUS
<1>3. ASSUME q # <<>> PROVE (d \o <<>>) \o q = (d \o <<Head(q)>>) \o Tail(q)
  BY <1>3
<1>q. QED BY <1>1, <1>2, <1>3

(* A sequence with the sentinel in it that ends with its only sentinel.     *)
LEMMA SentinelEnds ==
    ASSUME NEW d \in Seq(Packets), NEW q \in Seq(Packets \cup {Sentinel}),
           NEW a \in Seq(Packets),
           \/ (d \o <<Sentinel>>) \o q = Append(a, Sentinel)
           \/ (d \o <<Sentinel>>) \o q = a
    PROVE  d = a /\ q = <<>>
<1> DEFINE l == (d \o <<Sentinel>>) \o q
           n == Len(d) + 1
<1>1. /\ Len(d) \in Nat /\ Len(q) \in Nat /\ Len(a) \in Nat
      /\ Len(l) = Len(d) + 1 + Len(q) /\ l[n] = Sentinel
      /\ \A i \in 1..Len(d) : l[i] = d[i]
  OBVIOUS
<1>2. \A i \in 1..Len(a) : a[i] # Sentinel
  <2>1. \A i \in 1..Len(a) : a[i] \in Packets
    OBVIOUS
  <2>2. Sentinel \notin Packets
    BY DEF Packets, Sentinel
  <2>q. QED BY <2>1, <2>2
<1> HIDE DEF l
<1>3. l # a
  BY <1>1, <1>2
<1>4. l = Append(a, Sentinel)
  BY <1>3 DEF l
<1>5. /\ Len(l) = Len(a) + 1
      /\ \A i \in 1..Len(a) : l[i] = a[i]
  BY <1>4
<1>6. Len(d) = Len(a) /\ Len(q) = 0
  <2>1. n \notin 1..Len(a)
    BY <1>1, <1>2, <1>5
  <2>q. QED BY <1>1, <1>5, <2>1
<1>7. d = a
  BY <1>1, <1>5, <1>6
<1>q. QED BY <1>6, <1>7

(* A step that leaves all of this alone.                                    *)
Still ==
    /\ UNCHANGED <<started, sentinelSent, packetQueue, accepted, decoded, decodeEnabled>>
    /\ error' = None => error = None
    /\ captureStopped => captureStopped'
    /\ Taken' = Taken
    /\ pc'["worker"] = "absent" => pc["worker"] = "absent"
    /\ error' = None /\ Rolling => Rolling'
    /\ error' = None /\ pc["control"] = "rollbackJoin" => pc'["control"] = "rollbackJoin"
    /\ started \/ UNCHANGED <<emitted, held>>

(* Such a step keeps the equation.                                          *)
LEMMA StillFlows == ASSUME FInv, Still PROVE FInv'
<1>1. FreshHistory' /\ SentinelLast' /\ DecodesOn'
  BY DEF FInv, Still, FreshHistory, SentinelLast, DecodesOn
<1>2. WorkerRuns'
  BY DEF FInv, Still, WorkerRuns
<1>3. InOrder'
  BY DEF FInv, Still, InOrder, Given
<1>q. QED BY <1>1, <1>2, <1>3 DEF FInv

(* What the steps below use of the types.                                   *)
LEMMA FlowTypes ==
    ASSUME TInv
    PROVE  /\ pc \in [Threads -> Labels] /\ at \in [Threads -> Packets \cup {None}]
           /\ packetQueue \in Seq(Packets \cup {Sentinel})
           /\ accepted \in Seq(Packets) /\ decoded \in Seq(Packets)
           /\ Taken \in Seq(Packets \cup {Sentinel})
<1>1. /\ pc \in [Threads -> Labels] /\ at \in [Threads -> Packets \cup {None}]
      /\ packetQueue \in Seq(Packets \cup {Sentinel})
      /\ accepted \in Seq(Packets) /\ decoded \in Seq(Packets)
  BY DEF TInv, TypeOK, ThreadsOK, QueuesOK
<1>2. pc["worker"] = "decode" => at["worker"] \in Packets
  BY DEF TInv, InHand
<1>3. Taken \in Seq(Packets \cup {Sentinel})
  <2>1. \A x \in Packets \cup {Sentinel} : <<x>> \in Seq(Packets \cup {Sentinel})
    OBVIOUS
  <2>2. Taken = <<>> \/ \E x \in Packets \cup {Sentinel} : Taken = <<x>>
    BY <1>2 DEF Taken
  <2>3. <<>> \in Seq(Packets \cup {Sentinel})
    OBVIOUS
  <2>q. QED BY <2>1, <2>2, <2>3
<1>q. QED BY <1>1, <1>3

(* A packet is accepted.                                                    *)
LEMMA PutFlows == ASSUME TInv, FInv, PutPacket PROVE FInv'
<1>1. /\ pc["sniffer"] = "put" /\ started /\ sniffer = "alive"
      /\ ~captureStopped /\ ~(pc["control"] \in {"rollbackSignal", "rollbackJoin"})
  BY RunningIsStarted
     DEF TInv, IInv, PutPacket, CallbackOnLiveThread, BackendOwned, RollbackOwnsNothing
<1>2. /\ UNCHANGED <<started, sentinelSent, decoded, decodeEnabled, emitted, held,
                     captureStopped>>
      /\ pc' = [pc EXCEPT !["sniffer"] = "idle"] /\ at' = [at EXCEPT !["sniffer"] = None]
      /\ \/ /\ packetQueue' = Append(packetQueue, at["sniffer"])
            /\ accepted' = Append(accepted, at["sniffer"])
            /\ error' = error
         \/ /\ RecordError("overflow")
            /\ UNCHANGED <<packetQueue, accepted>>
  BY DEF PutPacket, Goto, captureVars, bounds
<1>3. Taken' = Taken /\ pc'["worker"] = pc["worker"] /\ pc'["control"] = pc["control"]
  BY <1>2, FlowTypes DEF Taken, Threads
<1>4. CASE error' # None
  BY <1>1, <1>2, <1>3, <1>4
     DEF FInv, FreshHistory, SentinelLast, DecodesOn, WorkerRuns, InOrder
<1>5. CASE error' = None
  <2>1. /\ error = None /\ packetQueue' = Append(packetQueue, at["sniffer"])
        /\ accepted' = Append(accepted, at["sniffer"])
    BY <1>2, <1>5, SessionConstants DEF RecordError
  <2>2. ~sentinelSent
    BY <1>1, <2>1 DEF FInv, SentinelLast
  <2>3. at["sniffer"] \in Packets
    BY <1>1 DEF TInv, InHand
  <2>4. decoded \o Taken \in Seq(Packets \cup {Sentinel})
    BY FlowTypes
  <2>5. InOrder'
    <3>1. (decoded \o Taken) \o packetQueue'
              = Append((decoded \o Taken) \o packetQueue, at["sniffer"])
      BY <2>1, <2>3, <2>4, FlowTypes, StreamSteps
    <3>2. (decoded \o Taken) \o packetQueue = accepted
      BY <2>1, <2>2 DEF FInv, InOrder, Given
    <3>q. QED BY <1>2, <1>3, <2>1, <2>2, <3>1, <3>2 DEF InOrder, Given
  <2>q. QED
    BY <1>1, <1>2, <1>3, <2>1, <2>2, <2>5
       DEF FInv, FreshHistory, SentinelLast, DecodesOn, WorkerRuns, Rolling
<1>q. QED BY <1>4, <1>5

(* The worker takes the head of the queue.                                  *)
LEMMA GetFlows == ASSUME TInv, FInv, WorkerGet PROVE FInv'
<1>1. started /\ pc["worker"] = "get"
  BY RunningIsStarted DEF WorkerGet, WorkerDead, TInv
<1>2. /\ UNCHANGED <<started, sentinelSent, accepted, decoded, decodeEnabled, emitted, held,
                     captureStopped, error>>
      /\ packetQueue # <<>> /\ packetQueue' = Tail(packetQueue)
      /\ IF Head(packetQueue) = Sentinel
         THEN pc' = [pc EXCEPT !["worker"] = "dead"] /\ at' = at
         ELSE IF decodeEnabled
              THEN /\ pc' = [pc EXCEPT !["worker"] = "decode"]
                   /\ at' = [at EXCEPT !["worker"] = Head(packetQueue)]
              ELSE UNCHANGED <<pc, at>>
  BY DEF WorkerGet, Goto, captureVars, lifecycle, history
<1>3. pc'["worker"] # "absent" /\ pc'["control"] = pc["control"]
  BY <1>1, <1>2, FlowTypes DEF Threads
<1>4. FreshHistory' /\ SentinelLast' /\ DecodesOn' /\ WorkerRuns'
  BY <1>1, <1>2, <1>3 DEF FInv, FreshHistory, SentinelLast, DecodesOn, WorkerRuns
<1>5. ASSUME error' = None PROVE InOrder'
  <2>1. error = None /\ decodeEnabled
    BY <1>1, <1>2, <1>5 DEF FInv, DecodesOn
  <2>2. Taken = <<>> /\ Taken' = <<Head(packetQueue)>>
    BY <1>1, <1>2, <2>1, FlowTypes DEF Taken, Threads
  <2>3. decoded \in Seq(Packets \cup {Sentinel}) /\ Head(packetQueue) \in Packets \cup {Sentinel}
    BY <1>2, FlowTypes
  <2>4. (decoded \o <<>>) \o packetQueue = (decoded \o <<Head(packetQueue)>>) \o Tail(packetQueue)
    BY <1>2, <2>3, FlowTypes, StreamSteps
  <2>q. QED BY <1>2, <2>1, <2>2, <2>4 DEF FInv, InOrder, Given
<1>q. QED BY <1>4, <1>5 DEF FInv, InOrder

(* It decodes the packet, or fails.                                         *)
LEMMA DecodeFlows == ASSUME TInv, FInv, WorkerDecode PROVE FInv'
<1>1. started /\ pc["worker"] = "decode" /\ at["worker"] \in Packets
  BY RunningIsStarted DEF WorkerDecode, WorkerDead, TInv, InHand
<1>2. /\ UNCHANGED <<started, sentinelSent, accepted, packetQueue, captureStopped>>
      /\ pc' = [pc EXCEPT !["worker"] = "emit"] \/ pc' = [pc EXCEPT !["worker"] = "get"]
      /\ \/ decoded' = Append(decoded, at["worker"]) /\ UNCHANGED <<error, decodeEnabled>>
         \/ RecordError("decoder")
  BY DEF WorkerDecode, Goto, captureVars
<1>3. pc'["worker"] \in {"emit", "get"} /\ pc'["control"] = pc["control"]
  BY <1>2, FlowTypes DEF Threads
<1>4. CASE error' # None
  BY <1>1, <1>2, <1>3, <1>4
     DEF FInv, FreshHistory, SentinelLast, DecodesOn, WorkerRuns, InOrder
<1>5. CASE error' = None
  <2>1. error = None /\ decoded' = Append(decoded, at["worker"]) /\ UNCHANGED decodeEnabled
    BY <1>2, <1>5, SessionConstants DEF RecordError
  <2>2. Taken = <<at["worker"]>> /\ Taken' = <<>>
    BY <1>1, <1>3 DEF Taken
  <2>3. decoded \in Seq(Packets \cup {Sentinel})
    BY FlowTypes
  <2>4. (decoded \o <<at["worker"]>>) \o packetQueue
        = (Append(decoded, at["worker"]) \o <<>>) \o packetQueue
    BY <1>1, <2>3, FlowTypes, StreamSteps
  <2>5. InOrder'
    BY <1>2, <2>1, <2>2, <2>4 DEF FInv, InOrder, Given
  <2>q. QED
    BY <1>1, <1>2, <1>3, <2>1, <2>5
       DEF FInv, FreshHistory, SentinelLast, DecodesOn, WorkerRuns
<1>q. QED BY <1>4, <1>5

(* The sentinel follows the last packet.                                    *)
LEMMA SignalFlows ==
    ASSUME TInv, FInv,
           \/ \E t \in Stoppers : SignalWorker(t, "signal", "join")
           \/ SignalWorker("control", "rollbackSignal", "rollbackJoin")
    PROVE  FInv'
<1>1. PICK t \in Stoppers, here \in {"signal", "rollbackSignal"},
           there \in {"join", "rollbackJoin"} :
          /\ SignalWorker(t, here, there)
          /\ \/ here = "signal" /\ there = "join"
             \/ t = "control" /\ here = "rollbackSignal" /\ there = "rollbackJoin"
  BY DEF Stoppers
<1>2. /\ pc[t] = here /\ pc' = [pc EXCEPT ![t] = there]
      /\ UNCHANGED <<started, stopped, accepted, decoded, decodeEnabled, emitted, held,
                     captureStopped, error, at>>
      /\ \/ UNCHANGED <<packetQueue, sentinelSent>>
         \/ /\ ~sentinelSent /\ ~WorkerDead
            /\ packetQueue' = Append(packetQueue, Sentinel) /\ sentinelSent' = TRUE
  BY <1>1 DEF SignalWorker, Goto, captureVars, lifecycle, history
<1>3. /\ started
      /\ here = "signal" => captureStopped
      /\ here = "rollbackSignal" => pc["control"] = here /\ pc'["control"] = "rollbackJoin"
  BY <1>1, <1>2, FlowTypes, RunningIsStarted
     DEF TInv, IInv, StopsInOrder, Stoppers, Threads, StartUndisturbed, ControlIsStarted
<1>4. /\ pc'["worker"] = pc["worker"]
      /\ pc'["control"] = pc["control"] \/ t = "control"
  BY <1>1, <1>2, FlowTypes DEF Threads, Stoppers
<1>5. SentinelLast' /\ FreshHistory' /\ DecodesOn'
  BY <1>1, <1>2, <1>3, <1>4 DEF FInv, SentinelLast, FreshHistory, DecodesOn
<1>6. WorkerRuns'
  BY <1>1, <1>2, <1>3, <1>4 DEF FInv, WorkerRuns, Rolling
<1>7. InOrder'
  <2>1. Taken' = Taken
    BY <1>2, <1>4 DEF Taken
  <2>2. CASE UNCHANGED <<packetQueue, sentinelSent>>
    BY <1>2, <2>1, <2>2 DEF FInv, InOrder, Given
  <2>3. CASE ~sentinelSent /\ packetQueue' = Append(packetQueue, Sentinel) /\ sentinelSent' = TRUE
    <3>1. decoded \o Taken \in Seq(Packets \cup {Sentinel})
      BY FlowTypes
    <3>2. (decoded \o Taken) \o Append(packetQueue, Sentinel)
          = Append((decoded \o Taken) \o packetQueue, Sentinel)
      BY <3>1, FlowTypes, StreamSteps
    <3>q. QED BY <1>2, <2>1, <2>3, <3>2 DEF FInv, InOrder, Given
  <2>q. QED BY <1>2, <2>2, <2>3
<1>q. QED BY <1>5, <1>6, <1>7 DEF FInv

(* A session that starts, and one that is rolled back, are empty.           *)
LEMMA EmptyFlows == ASSUME TInv, FInv, StartBegin \/ RollbackReset PROVE FInv'
<1>1. CASE StartBegin
  <2>1. /\ ~started /\ error' = error
        /\ UNCHANGED <<accepted, decoded, emitted, held, packetQueue, sentinelSent,
                       captureStopped, at>>
        /\ decodeEnabled' = TRUE /\ started' = TRUE
        /\ \/ pc' = [pc EXCEPT !["control"] = "startCapture", !["worker"] = "get"]
           \/ pc' = [pc EXCEPT !["control"] = "rollback"]
    BY <1>1 DEF StartBegin, Goto, queues, history, captureVars
  <2>2. /\ packetQueue = <<>> /\ ~sentinelSent /\ error = None
        /\ accepted = <<>> /\ decoded = <<>> /\ Taken = <<>>
    <3>1. packetQueue = <<>> /\ ~sentinelSent /\ error = None
      BY <2>1 DEF TInv, IInv, RolledBackIsFresh
    <3>2. accepted = <<>> /\ decoded = <<>>
      BY <2>1 DEF FInv, FreshHistory
    <3>3. (<<>> \o Taken) \o <<>> = <<>>
      BY <3>1, <3>2 DEF FInv, InOrder, Given
    <3>q. QED BY <3>1, <3>2, <3>3, FlowTypes
  <2>3. Taken' = <<>> /\ (pc'["worker"] = "absent" => Rolling')
    BY <2>1, <2>2, FlowTypes DEF Taken, Rolling, Threads
  <2>4. InOrder'
    BY <2>1, <2>2, <2>3 DEF InOrder, Given
  <2>q. QED
    BY <2>1, <2>2, <2>3, <2>4 DEF FInv, FreshHistory, SentinelLast, DecodesOn, WorkerRuns
<1>2. CASE RollbackReset
  <2>1. /\ started' = FALSE /\ sentinelSent' = FALSE /\ packetQueue' = <<>> /\ held' = <<>>
        /\ accepted' = <<>> /\ decoded' = <<>> /\ emitted' = <<>>
        /\ pc' = [pc EXCEPT !["control"] = "idle", !["worker"] = "absent"]
    BY <1>2 DEF RollbackReset, ClearQueues
  <2>2. Taken' = <<>>
    BY <2>1, FlowTypes DEF Taken, Threads
  <2>q. QED
    BY <2>1, <2>2
       DEF FInv, FreshHistory, SentinelLast, DecodesOn, WorkerRuns, InOrder, Given
<1>q. QED BY <1>1, <1>2

(* Everything else leaves the packets alone.                                *)
LEMMA SnifferStill == ASSUME TInv, PacketArrives \/ SourceEnds PROVE Still
<1>1. CASE PacketArrives
  BY <1>1, FlowTypes
     DEF PacketArrives, Still, Taken, Rolling, Goto, Threads, captureVars, lifecycle,
         queues, history
<1>2. CASE SourceEnds
  BY <1>2
     DEF SourceEnds, CaptureEnds, Still, Taken, Rolling, lifecycle, queues, history
<1>q. QED BY <1>1, <1>2

(* The clock service and the release of the decoder lock.                   *)
LEMMA WorkerStill == ASSUME TInv, WorkerService \/ WorkerRelease PROVE Still
<1>1. started
  BY RunningIsStarted DEF WorkerService, WorkerRelease, WorkerDead, TInv
<1>2. CASE WorkerService
  BY <1>1, <1>2, FlowTypes
     DEF WorkerService, Still, Taken, Rolling, Goto, Threads, captureVars, RecordError,
         history
<1>3. CASE WorkerRelease
  BY <1>1, <1>3, FlowTypes
     DEF WorkerRelease, Still, Taken, Rolling, Goto, Threads, captureVars, lifecycle,
         queues, history
<1>q. QED BY <1>2, <1>3

(* The steps of _enqueue.                                                   *)
LEMMA EmitStill == ASSUME TInv, EmitStep PROVE Still
<1> SUFFICES ASSUME NEW t \in Emitters, EmitEnter(t) \/ EmitCheck(t) \/ EmitPut(t)
             PROVE  Still
  BY DEF EmitStep
<1>1. /\ pc[t] \in EmitLabels
      /\ \E l \in {"emit", "emitCheck", "emitPut", "release", "flush"} :
            pc' = [pc EXCEPT ![t] = l]
      /\ UNCHANGED <<captureVars, lifecycle, packetQueue, sentinelSent, accepted, decoded,
                     decodeEnabled, at>>
  BY DEF EmitEnter, EmitCheck, EmitPut, Goto, AfterEmit, WhenFull, EmitLabels, history, queues
<1>2. started
  BY <1>1, RunningIsStarted DEF Emitters, EmitLabels, WorkerDead, TInv
<1>3. Taken' = Taken /\ (pc'["worker"] = "absent" => pc["worker"] = "absent")
      /\ pc'["control"] = pc["control"]
  BY <1>1, FlowTypes DEF Taken, Emitters, EmitLabels, Threads
<1>q. QED BY <1>1, <1>2, <1>3 DEF Still, Rolling, captureVars, lifecycle

(* The steps of the threads that are neither worker nor callback.           *)
LEMMA OthersStill ==
    ASSUME TInv, started \/ UNCHANGED <<emitted, held>>,
           pc'["worker"] = pc["worker"], at'["worker"] = at["worker"],
           UNCHANGED <<started, sentinelSent, packetQueue, accepted, decoded, decodeEnabled>>,
           error' = None => error = None,
           captureStopped => captureStopped',
           error' = None /\ Rolling => Rolling',
           error' = None /\ pc["control"] = "rollbackJoin" => pc'["control"] = "rollbackJoin"
    PROVE  Still
BY DEF Still, Taken

(* _finish_stop, but for its signal to the worker.                          *)
LEMMA StopStill ==
    ASSUME TInv, NEW t \in Stoppers,
           StopEnter(t) \/ StopCapture(t) \/ JoinWorker(t) \/ FinalizeCollector(t)
    PROVE  Still
<1>1. /\ pc[t] \in StopLabels /\ \E l : pc' = [pc EXCEPT ![t] = l]
      /\ UNCHANGED <<started, packetQueue, sentinelSent, accepted, decoded, decodeEnabled, at>>
  BY DEF StopEnter, StopCapture, JoinWorker, FinalizeCollector, Goto, StopLabels, queues, history
<1>2. error' = None => error = None
  BY DEF StopEnter, StopCapture, JoinWorker, FinalizeCollector, RecordError
<1>3. captureStopped => captureStopped'
  BY DEF StopEnter, StopCapture, JoinWorker, FinalizeCollector, CaptureStop, captureVars
<1>4. started /\ (t = "control" => ~Rolling)
  BY <1>1, RunningIsStarted DEF TInv, Stoppers, StopLabels, Rolling
<1>5. /\ pc'["worker"] = pc["worker"]
      /\ pc'["control"] = pc["control"] \/ (t = "control" /\ ~Rolling)
  BY <1>1, <1>4, FlowTypes DEF Threads, Stoppers
<1>q. QED BY <1>1, <1>2, <1>3, <1>4, <1>5, OthersStill DEF Rolling

(* The monitor, stop() and request_stop().                                  *)
LEMMA RequestStill == ASSUME TInv, RequestStep PROVE Still
<1>1. /\ started
      /\ UNCHANGED <<started, captureStopped, packetQueue, sentinelSent, accepted, decoded,
                     decodeEnabled, at>>
      /\ error' = None => error = None
  BY RunningIsStarted
     DEF TInv, RequestStep, MonitorWatch, MonitorLeave, Stop, RequestStop, RecordError,
         captureVars, lifecycle, queues, history
<1>2. pc'["worker"] = pc["worker"] /\ (Rolling => pc'["control"] = pc["control"])
  BY FlowTypes DEF RequestStep, MonitorWatch, MonitorLeave, Stop, RequestStop, Goto,
                   Threads, Rolling
<1>q. QED BY <1>1, <1>2, OthersStill DEF Rolling

(* start(), and its rollback up to the signal.                              *)
LEMMA StartStill ==
    ASSUME TInv, StartCapture \/ StartMonitor \/ RollbackCapture \/ RollbackTimeout
    PROVE  Still
<1>1. /\ pc["control"] # "idle"
      /\ UNCHANGED <<started, packetQueue, sentinelSent, accepted, decoded, decodeEnabled, at>>
  BY DEF StartCapture, StartMonitor, RollbackCapture, RollbackTimeout, lifecycle, queues, history
<1>2. started
  BY <1>1, RunningIsStarted DEF TInv
<1>3. error' = None => error = None
  BY DEF StartCapture, StartMonitor, RollbackCapture, RollbackTimeout, KeepForRetry,
         RecordError, lifecycle
<1>4. captureStopped => captureStopped'
  BY DEF StartCapture, StartMonitor, RollbackCapture, RollbackTimeout, CaptureStop,
         CaptureStartOK, CaptureStartRefused, CaptureStartFailed, captureVars, TInv, IInv,
         UnattemptedIsFresh
<1>5. pc'["worker"] = pc["worker"]
  BY FlowTypes DEF StartCapture, StartMonitor, RollbackCapture, RollbackTimeout,
                   KeepForRetry, Goto, Threads
<1>6. /\ error' = None /\ Rolling => Rolling'
      /\ error' = None /\ pc["control"] = "rollbackJoin" => pc'["control"] = "rollbackJoin"
  BY SessionConstants, FlowTypes
     DEF StartCapture, StartMonitor, RollbackCapture, RollbackTimeout, KeepForRetry,
         RecordError, Goto, Rolling, Threads
<1>q. QED BY <1>1, <1>2, <1>3, <1>4, <1>5, <1>6, OthersStill

(* poll(), but for what it shares with the worker.                          *)
LEMMA PollStill == ASSUME TInv, LookStep \/ TakeStep PROVE Still
<1>1. /\ UNCHANGED consumerOnly
      /\ at'["worker"] = at["worker"]
      /\ error' = None => error = None
      /\ \E l \in ConsumerLabels : pc' = [pc EXCEPT !["consumer"] = l]
  <2>1. CASE LookStep
    BY <2>1 DEF LookStep, PollEnter, ServiceCaptureState, LockDelivery, FlushEnter, PollFinal,
                PollTimeout, IterateEvents, RecordError, Goto, ConsumerLabels, StopLabels,
                consumerOnly
  <2>2. CASE TakeStep
    BY <2>2, FlowTypes DEF TakeStep, TryGet, Flush, RecordError, Goto, ConsumerLabels,
                           EmitLabels, Threads
  <2>q. QED BY <2>1, <2>2
<1>2. started \/ UNCHANGED <<emitted, held>>
  <2>1. CASE Flush
    BY <2>1, RunningIsStarted DEF Flush, TInv
  <2>2. CASE ~Flush
    BY <1>1, <2>2 DEF LookStep, TakeStep, PollEnter, ServiceCaptureState, LockDelivery,
                      FlushEnter, PollFinal, PollTimeout, IterateEvents, TryGet, consumerOnly
  <2>q. QED BY <2>1, <2>2
<1>3. pc'["worker"] = pc["worker"] /\ pc'["control"] = pc["control"]
  BY <1>1, FlowTypes DEF Threads
<1>q. QED BY <1>1, <1>2, <1>3, OthersStill DEF consumerOnly, captureVars, Rolling

(* The session starts with no past ...                                      *)
LEMMA InitFInv == Init => FInv
<1> SUFFICES ASSUME Init PROVE FInv
  OBVIOUS
<1>1. Taken = <<>>
  BY DEF Init, Taken, Threads
<1>q. QED
  BY <1>1 DEF Init, FInv, FreshHistory, SentinelLast, DecodesOn, WorkerRuns, InOrder, Given

(* ... and every step keeps the equation.                                   *)
LEMMA NextFInv == ASSUME TInv, FInv, [Next]_vars PROVE FInv'
<1>1. CASE SnifferStep
  BY <1>1, SnifferStill, StillFlows, PutFlows DEF SnifferStep
<1>2. CASE DecodeStep
  BY <1>2, GetFlows, DecodeFlows, WorkerStill, StillFlows DEF DecodeStep
<1>3. CASE EmitStep
  BY <1>3, EmitStill, StillFlows
<1>4. CASE StopStep
  BY <1>4, StopStill, StillFlows, SignalFlows DEF StopStep, FinishStop
<1>5. CASE RequestStep
  BY <1>5, RequestStill, StillFlows
<1>6. CASE StartingStep
  BY <1>6, EmptyFlows, SignalFlows, StartStill, StillFlows DEF StartingStep, Start
<1>7. CASE LookStep \/ TakeStep
  BY <1>7, PollStill, StillFlows
<1>8. CASE UNCHANGED vars
  BY <1>8 DEF vars, captureVars, lifecycle, queues, history, FInv, FreshHistory,
              SentinelLast, DecodesOn, WorkerRuns, Rolling, InOrder, Given, Taken
<1>q. QED BY <1>1, <1>2, <1>3, <1>4, <1>5, <1>6, <1>7, <1>8, NextSteps

(* A session that stops without an error has decoded every packet the       *)
(* callback accepted, in order: the sentinel is taken last, however often   *)
(* a stop timed out before (_finish_stop, _signal_packet_worker_stop).      *)
THEOREM CleanStopsDecodeAll == Spec => []CleanStopDecodesAll
<1>1. ASSUME TInv, FInv PROVE CleanStopDecodesAll
  <2> SUFFICES ASSUME stopped, error = None PROVE decoded = accepted /\ packetQueue = <<>>
    BY DEF CleanStopDecodesAll
  <2>1. started /\ WorkerDead /\ ~Rolling
    BY <1>1 DEF TInv, IInv, StartUndisturbed, StoppedForGood, StartLabels, Rolling
  <2>2. pc["worker"] = "dead"
    BY <1>1, <2>1 DEF WorkerDead, FInv, WorkerRuns
  <2>3. \/ (decoded \o <<Sentinel>>) \o packetQueue = Append(accepted, Sentinel)
        \/ (decoded \o <<Sentinel>>) \o packetQueue = accepted
    BY <1>1, <2>2 DEF FInv, InOrder, Taken, Given
  <2>q. QED BY <1>1, <2>3, FlowTypes, SentinelEnds
<1>2. TInv /\ FInv /\ [Next]_vars => TInv' /\ FInv'
  BY NextTInv, NextFInv
<1>q. QED BY <1>1, <1>2, InitTInv, InitFInv, PTL DEF Spec

-----------------------------------------------------------------------------
(***************************************************************************)
(* The places a packet, and then its event, can be in.  It moves from one  *)
(* to the next or disappears; none is in two of them, or twice in one.     *)
(***************************************************************************)
Places == {"delivered", "queue", "tail", "held", "packets", "sniffer", "worker", "consumer"}

HandOf(t, labels) == IF pc[t] \in labels THEN {at[t]} ELSE {}
Contents ==
    [delivered |-> ToSet(delivered), queue |-> ToSet(queue), tail |-> ToSet(tail),
     held |-> ToSet(held), packets |-> ToSet(packetQueue),
     sniffer  |-> HandOf("sniffer", {"put"}),
     worker   |-> HandOf("worker", {"decode"} \cup EmitLabels),
     consumer |-> HandOf("consumer", EmitLabels)]

OnePlace == \A a, b \in Places : a # b => Contents[a] \cap Contents[b] = {}
Numbered == \A a \in Places : Contents[a] \subseteq 0..sent
OnceEach ==
    /\ IsInjective(delivered) /\ IsInjective(queue) /\ IsInjective(tail)
    /\ IsInjective(held) /\ IsInjective(packetQueue)
OneSentinel == Sentinel \in ToSet(packetQueue) => sentinelSent

(* Where an event that was emitted must be until a stop is requested.       *)
Around ==
    ToSet(delivered) \cup ToSet(queue) \cup ToSet(tail)
    \cup HandOf("worker", EmitLabels) \cup HandOf("consumer", EmitLabels)
NoneLost == stopRequested \/ ToSet(emitted) \subseteq Around

PInv == OnePlace /\ Numbered /\ OnceEach /\ OneSentinel /\ NoneLost

(* X moves from place a to place b, at most.                                *)
Move(a, b, X) ==
    /\ a \in Places /\ b \in Places /\ a # b /\ sent' = sent
    /\ X \subseteq Contents[a] /\ Contents'[a] \cap X = {}
    /\ Contents'[b] \subseteq Contents[b] \cup X
    /\ \A c \in Places \ {b} : Contents'[c] \subseteq Contents[c]

(* Such a step leaves everything in one place.                              *)
LEMMA MoveFrom ==
    ASSUME OnePlace, Numbered, NEW a, NEW b, NEW X, Move(a, b, X)
    PROVE  OnePlace' /\ Numbered'
<1> USE DEF Move
<1>1. \A c \in Places \ {a} : Contents[c] \cap X = {}
  BY DEF OnePlace
<1>2. \A c \in Places \ {b} : Contents'[c] \cap X = {}
  BY <1>1
<1>3. OnePlace'
  <2> SUFFICES ASSUME NEW c \in Places, NEW d \in Places, c # d
               PROVE  Contents'[c] \cap Contents'[d] = {}
    BY DEF OnePlace
  <2>1. Contents[c] \cap Contents[d] = {}
    BY DEF OnePlace
  <2>2. CASE c = b
    BY <1>2, <2>1, <2>2
  <2>3. CASE d = b
    BY <1>2, <2>1, <2>3
  <2>4. CASE c # b /\ d # b
    BY <2>1, <2>4
  <2>q. QED BY <2>2, <2>3, <2>4
<1>4. X \subseteq 0..sent
  BY DEF Numbered
<1>5. Numbered'
  BY <1>4 DEF Numbered
<1>q. QED BY <1>3, <1>5

(* Something new arrives at place b.                                        *)
LEMMA Arrives ==
    ASSUME OnePlace, Numbered, sent \in Nat, sent' \in Nat, sent <= sent',
           NEW b \in Places, NEW x \in 0..sent', \A c \in Places : x \notin Contents[c],
           Contents'[b] \subseteq Contents[b] \cup {x},
           \A c \in Places \ {b} : Contents'[c] \subseteq Contents[c]
    PROVE  OnePlace' /\ Numbered'
<1>1. OnePlace'
  <2> SUFFICES ASSUME NEW c \in Places, NEW d \in Places, c # d
               PROVE  Contents'[c] \cap Contents'[d] = {}
    BY DEF OnePlace
  <2>1. Contents[c] \cap Contents[d] = {} /\ x \notin Contents[c] /\ x \notin Contents[d]
    BY DEF OnePlace
  <2>2. CASE c = b
    BY <2>1, <2>2
  <2>3. CASE d = b
    BY <2>1, <2>3
  <2>4. CASE c # b /\ d # b
    BY <2>1, <2>4
  <2>q. QED BY <2>2, <2>3, <2>4
<1>2. 0..sent \subseteq 0..sent'
  OBVIOUS
<1>3. Numbered'
  <2> SUFFICES ASSUME NEW c \in Places PROVE Contents'[c] \subseteq 0..sent'
    BY DEF Numbered
  <2>q. QED BY <1>2 DEF Numbered
<1>q. QED BY <1>1, <1>3

(* Nothing moves, though something may disappear.                           *)
LEMMA Stays ==
    ASSUME OnePlace, Numbered, sent' = sent,
           \A c \in Places : Contents'[c] \subseteq Contents[c]
    PROVE  OnePlace' /\ Numbered'
BY DEF OnePlace, Numbered

(* What is in one place is not in another, and each place has its type.     *)
LEMMA PlaceTypes ==
    ASSUME TInv
    PROVE  /\ pc \in [Threads -> Labels] /\ at \in [Threads -> Packets \cup {None}]
           /\ packetQueue \in Seq(Packets \cup {Sentinel})
           /\ queue \in Seq(Packets) /\ tail \in Seq(Packets) /\ held \in Seq(Packets)
           /\ emitted \in Seq(Packets) /\ delivered \in Seq(Packets)
           /\ sent \in Nat
           /\ pc["sniffer"] = "put" => at["sniffer"] \in Packets
           /\ pc["worker"] \in {"decode"} \cup EmitLabels => at["worker"] \in Packets
           /\ pc["consumer"] \in EmitLabels => at["consumer"] \in Packets
<1>1. sent \in Nat
  BY SessionConstants DEF TInv, TypeOK, LifecycleOK
<1>q. QED BY <1>1 DEF TInv, TypeOK, ThreadsOK, QueuesOK, InHand

(* A step that moves nothing between the places and emits nothing.          *)
Rest ==
    /\ UNCHANGED <<delivered, queue, tail, held, packetQueue, sentinelSent, emitted, sent>>
    /\ HandOf("sniffer", {"put"})' \subseteq HandOf("sniffer", {"put"})
    /\ HandOf("worker", {"decode"} \cup EmitLabels)'
           \subseteq HandOf("worker", {"decode"} \cup EmitLabels)
    /\ HandOf("consumer", EmitLabels)' \subseteq HandOf("consumer", EmitLabels)
    /\ stopRequested => stopRequested'
    /\ stopRequested'
       \/ /\ HandOf("worker", EmitLabels) \subseteq HandOf("worker", EmitLabels)'
          /\ HandOf("consumer", EmitLabels) \subseteq HandOf("consumer", EmitLabels)'

(* Such a step leaves everything in one place.                              *)
LEMMA RestKeeps == ASSUME PInv, Rest PROVE PInv'
<1>1. \A c \in Places : Contents'[c] \subseteq Contents[c]
  BY DEF Rest, Contents, Places
<1>2. OnePlace' /\ Numbered'
  BY <1>1, Stays DEF PInv, Rest
<1>3. OnceEach' /\ OneSentinel'
  BY DEF PInv, Rest, OnceEach, OneSentinel
<1>4. NoneLost'
  BY DEF PInv, Rest, NoneLost, Around
<1>q. QED BY <1>2, <1>3, <1>4 DEF PInv

(* A packet arrives.                                                        *)
LEMMA ArrivePlaces == ASSUME TInv, PInv, PacketArrives PROVE PInv'
<1>1. /\ UNCHANGED <<delivered, queue, tail, held, packetQueue, sentinelSent, emitted,
                     stopRequested>>
      /\ sent' = sent + 1 /\ sent \in Nat /\ pc["sniffer"] = "idle"
      /\ UNCHANGED <<pc, at>> \/ /\ pc' = [pc EXCEPT !["sniffer"] = "put"]
                                 /\ at' = [at EXCEPT !["sniffer"] = sent + 1]
  BY PlaceTypes DEF PacketArrives, Goto, lifecycle, queues, history
<1>2. /\ HandOf("sniffer", {"put"})' \subseteq {sent + 1}
      /\ HandOf("worker", {"decode"} \cup EmitLabels)'
             = HandOf("worker", {"decode"} \cup EmitLabels)
      /\ HandOf("worker", EmitLabels)' = HandOf("worker", EmitLabels)
      /\ HandOf("consumer", EmitLabels)' = HandOf("consumer", EmitLabels)
  BY <1>1, PlaceTypes DEF HandOf, Threads
<1>3. \A c \in Places : sent + 1 \notin Contents[c]
  <2>1. sent + 1 \notin 0..sent
    BY <1>1
  <2>q. QED BY <2>1 DEF PInv, Numbered
<1>4. /\ Contents'["sniffer"] \subseteq Contents["sniffer"] \cup {sent + 1}
      /\ \A c \in Places \ {"sniffer"} : Contents'[c] \subseteq Contents[c]
  BY <1>1, <1>2 DEF Contents, Places
<1>5. sent + 1 \in 0..sent' /\ sent' \in Nat /\ sent <= sent'
  BY <1>1
<1>6. OnePlace' /\ Numbered'
  <2>1. "sniffer" \in Places
    BY DEF Places
  <2>q. QED BY <1>1, <1>3, <1>4, <1>5, <2>1, Arrives DEF PInv
<1>7. OnceEach' /\ OneSentinel' /\ NoneLost'
  BY <1>1, <1>2 DEF PInv, OnceEach, OneSentinel, NoneLost, Around
<1>q. QED BY <1>6, <1>7 DEF PInv

(* It is put on the packet queue, or dropped.                               *)
LEMMA PutPlaces == ASSUME TInv, PInv, PutPacket PROVE PInv'
<1> DEFINE x == at["sniffer"]
<1>1. /\ UNCHANGED <<delivered, queue, tail, held, sentinelSent, emitted, sent>>
      /\ pc["sniffer"] = "put" /\ pc' = [pc EXCEPT !["sniffer"] = "idle"]
      /\ at' = [at EXCEPT !["sniffer"] = None]
      /\ \/ packetQueue' = Append(packetQueue, x) /\ UNCHANGED stopRequested
         \/ packetQueue' = packetQueue /\ stopRequested'
  BY DEF PutPacket, Goto, bounds
<1>2. /\ HandOf("sniffer", {"put"})' = {} /\ HandOf("sniffer", {"put"}) = {x}
      /\ HandOf("worker", {"decode"} \cup EmitLabels)'
             = HandOf("worker", {"decode"} \cup EmitLabels)
      /\ HandOf("worker", EmitLabels)' = HandOf("worker", EmitLabels)
      /\ HandOf("consumer", EmitLabels)' = HandOf("consumer", EmitLabels)
      /\ x \in Packets
  BY <1>1, PlaceTypes DEF HandOf, Threads
<1>3. CASE packetQueue' = packetQueue /\ stopRequested'
  BY <1>1, <1>2, <1>3, RestKeeps DEF Rest
<1>4. CASE packetQueue' = Append(packetQueue, x) /\ UNCHANGED stopRequested
  <2>1. x \notin ToSet(packetQueue)
    BY <1>2 DEF PInv, OnePlace, Contents, Places
  <2>2. /\ ToSet(packetQueue') = ToSet(packetQueue) \cup {x}
        /\ IsInjective(packetQueue)'
    BY <1>2, <1>4, <2>1, PlaceTypes, OnceAppend DEF PInv, OnceEach
  <2>3. Move("sniffer", "packets", {x})
    <3>1. {x} \subseteq Contents["sniffer"] /\ Contents'["sniffer"] \cap {x} = {}
      BY <1>1, <1>2, <2>2 DEF Contents, Places
    <3>2. Contents'["packets"] \subseteq Contents["packets"] \cup {x}
      BY <1>1, <1>2, <2>2 DEF Contents, Places
    <3>3. \A c \in Places \ {"packets"} : Contents'[c] \subseteq Contents[c]
      <4>1. UNCHANGED <<delivered, queue, tail, held>>
        BY <1>1
      <4>q. QED BY <1>2, <4>1 DEF Contents, Places
    <3>q. QED BY <1>1, <3>1, <3>2, <3>3 DEF Move, Places
  <2>4. OnePlace' /\ Numbered'
    BY <2>3, MoveFrom DEF PInv
  <2>5. OneSentinel'
    <3>1. x # Sentinel
      BY <1>2 DEF Packets, Sentinel
    <3>q. QED BY <1>1, <2>2, <3>1 DEF PInv, OneSentinel
  <2>6. OnceEach' /\ NoneLost'
    BY <1>1, <1>2, <1>4, <2>2 DEF PInv, OnceEach, NoneLost, Around
  <2>q. QED BY <2>4, <2>5, <2>6 DEF PInv
<1>q. QED BY <1>1, <1>3, <1>4

(* The worker takes it.                                                     *)
LEMMA GetPlaces == ASSUME TInv, PInv, WorkerGet PROVE PInv'
<1> DEFINE x == Head(packetQueue)
<1>1. /\ UNCHANGED <<delivered, queue, tail, held, sentinelSent, emitted, sent, stopRequested>>
      /\ pc["worker"] = "get" /\ packetQueue # <<>> /\ packetQueue' = Tail(packetQueue)
      /\ \/ pc' = [pc EXCEPT !["worker"] = "dead"] /\ at' = at
         \/ /\ x # Sentinel /\ pc' = [pc EXCEPT !["worker"] = "decode"]
            /\ at' = [at EXCEPT !["worker"] = x]
         \/ UNCHANGED <<pc, at>>
  BY DEF WorkerGet, Goto, lifecycle, history, bounds
<1>2. /\ HandOf("sniffer", {"put"})' = HandOf("sniffer", {"put"})
      /\ HandOf("worker", {"decode"} \cup EmitLabels)' \subseteq {x}
      /\ HandOf("worker", {"decode"} \cup EmitLabels) = {}
      /\ HandOf("worker", EmitLabels) = {}
      /\ HandOf("consumer", EmitLabels)' = HandOf("consumer", EmitLabels)
  BY <1>1, PlaceTypes DEF HandOf, Threads, EmitLabels
<1>3. /\ ToSet(packetQueue) = ToSet(packetQueue') \cup {x} /\ x \notin ToSet(packetQueue')
      /\ IsInjective(packetQueue)'
  BY <1>1, PlaceTypes, OnceTail DEF PInv, OnceEach
<1>4. Move("packets", "worker", {x})
  <2>1. {x} \subseteq Contents["packets"] /\ Contents'["packets"] \cap {x} = {}
    BY <1>1, <1>2, <1>3 DEF Contents, Places
  <2>2. Contents'["worker"] \subseteq Contents["worker"] \cup {x}
    BY <1>1, <1>2, <1>3 DEF Contents, Places
  <2>3. \A c \in Places \ {"worker"} : Contents'[c] \subseteq Contents[c]
    BY <1>1, <1>2, <1>3 DEF Contents, Places
  <2>q. QED BY <1>1, <2>1, <2>2, <2>3 DEF Move, Places
<1>5. OnePlace' /\ Numbered'
  BY <1>4, MoveFrom DEF PInv
<1>6. OnceEach' /\ OneSentinel' /\ NoneLost'
  BY <1>1, <1>2, <1>3 DEF PInv, OnceEach, OneSentinel, NoneLost, Around
<1>q. QED BY <1>5, <1>6 DEF PInv

(* Its event is held, goes on, or is not decoded.                           *)
LEMMA DecodePlaces == ASSUME TInv, PInv, WorkerDecode PROVE PInv'
<1> DEFINE x == at["worker"]
<1>1. /\ UNCHANGED <<delivered, queue, tail, packetQueue, sentinelSent, emitted, sent>>
      /\ pc["worker"] = "decode" /\ (stopRequested => stopRequested')
      /\ \/ pc' = [pc EXCEPT !["worker"] = "emit"] /\ UNCHANGED <<at, held, stopRequested>>
         \/ /\ pc' = [pc EXCEPT !["worker"] = "get"] /\ held' = Append(held, x)
            /\ at' = [at EXCEPT !["worker"] = None] /\ UNCHANGED stopRequested
         \/ /\ pc' = [pc EXCEPT !["worker"] = "get"] /\ UNCHANGED held
            /\ at' = [at EXCEPT !["worker"] = None]
  BY DEF WorkerDecode, Goto
<1>2. /\ HandOf("sniffer", {"put"})' = HandOf("sniffer", {"put"})
      /\ HandOf("worker", {"decode"} \cup EmitLabels) = {x}
      /\ HandOf("worker", EmitLabels) = {}
      /\ HandOf("consumer", EmitLabels)' = HandOf("consumer", EmitLabels)
      /\ pc'["worker"] = "get" => HandOf("worker", {"decode"} \cup EmitLabels)' = {}
      /\ x \in Packets
  BY <1>1, PlaceTypes DEF HandOf, Threads, EmitLabels
<1>3. CASE pc' = [pc EXCEPT !["worker"] = "emit"] /\ UNCHANGED <<at, held, stopRequested>>
  <2>1. HandOf("worker", {"decode"} \cup EmitLabels)' = {x}
    BY <1>3, PlaceTypes DEF HandOf, Threads, EmitLabels
  <2>q. QED BY <1>1, <1>2, <1>3, <2>1, RestKeeps DEF Rest
<1>4. CASE pc' = [pc EXCEPT !["worker"] = "get"] /\ UNCHANGED held
  <2>1. pc'["worker"] = "get"
    BY <1>4, PlaceTypes DEF Threads
  <2>q. QED BY <1>1, <1>2, <1>4, <2>1, RestKeeps DEF Rest
<1>5. CASE /\ pc' = [pc EXCEPT !["worker"] = "get"] /\ held' = Append(held, x)
           /\ UNCHANGED stopRequested
  <2>1. x \notin ToSet(held)
    BY <1>2 DEF PInv, OnePlace, Contents, Places
  <2>2. ToSet(held') = ToSet(held) \cup {x} /\ IsInjective(held)'
    BY <1>2, <1>5, <2>1, PlaceTypes, OnceAppend DEF PInv, OnceEach
  <2>3. pc'["worker"] = "get"
    BY <1>5, PlaceTypes DEF Threads
  <2>4. Move("worker", "held", {x})
    <3>1. {x} \subseteq Contents["worker"] /\ Contents'["worker"] \cap {x} = {}
      BY <1>1, <1>2, <2>2, <2>3 DEF Contents, Places
    <3>2. Contents'["held"] \subseteq Contents["held"] \cup {x}
      BY <1>1, <1>2, <2>2, <2>3 DEF Contents, Places
    <3>3. \A c \in Places \ {"held"} : Contents'[c] \subseteq Contents[c]
      BY <1>1, <1>2, <2>2, <2>3 DEF Contents, Places
    <3>q. QED BY <1>1, <3>1, <3>2, <3>3 DEF Move, Places
  <2>5. OnePlace' /\ Numbered'
    BY <2>4, MoveFrom DEF PInv
  <2>6. OnceEach' /\ OneSentinel' /\ NoneLost'
    BY <1>1, <1>2, <1>5, <2>2 DEF PInv, OnceEach, OneSentinel, NoneLost, Around
  <2>q. QED BY <2>5, <2>6 DEF PInv
<1>q. QED BY <1>1, <1>3, <1>4, <1>5

(* An event that was held is taken up by the worker or the consumer.        *)
LEMMA HeldPlaces ==
    ASSUME TInv, PInv, NEW t \in Emitters,
           UNCHANGED <<delivered, queue, tail, packetQueue, sentinelSent, emitted, sent,
                       stopRequested>>,
           pc[t] \in {"get", "flush"}, held # <<>>, held' = Tail(held),
           pc' = [pc EXCEPT ![t] = "emit"], at' = [at EXCEPT ![t] = Head(held)]
    PROVE  PInv'
<1> DEFINE x == Head(held)
<1>1. /\ ToSet(held) = ToSet(held') \cup {x} /\ x \notin ToSet(held')
      /\ IsInjective(held)'
  BY PlaceTypes, OnceTail DEF PInv, OnceEach
<1>2. /\ HandOf("sniffer", {"put"})' = HandOf("sniffer", {"put"})
      /\ t = "worker" =>
             /\ HandOf("worker", {"decode"} \cup EmitLabels)' = {x}
             /\ HandOf("worker", EmitLabels) = {}
             /\ HandOf("consumer", EmitLabels)' = HandOf("consumer", EmitLabels)
      /\ t = "consumer" =>
             /\ HandOf("consumer", EmitLabels)' = {x} /\ HandOf("consumer", EmitLabels) = {}
             /\ HandOf("worker", {"decode"} \cup EmitLabels)'
                    = HandOf("worker", {"decode"} \cup EmitLabels)
             /\ HandOf("worker", EmitLabels)' = HandOf("worker", EmitLabels)
  BY PlaceTypes DEF HandOf, Threads, Emitters, EmitLabels
<1>3. {x} \subseteq Contents["held"] /\ Contents'["held"] \cap {x} = {}
  BY <1>1 DEF Contents, Places
<1>4. OnePlace' /\ Numbered'
  <2>1. CASE t = "worker"
    <3>1. Contents'["worker"] \subseteq Contents["worker"] \cup {x}
      BY <1>2, <2>1 DEF Contents, Places
    <3>2. \A c \in Places \ {"worker"} : Contents'[c] \subseteq Contents[c]
      BY <1>1, <1>2, <2>1 DEF Contents, Places
    <3>3. Move("held", "worker", {x})
      BY <1>3, <3>1, <3>2 DEF Move, Places
    <3>q. QED BY <3>3, MoveFrom DEF PInv
  <2>2. CASE t = "consumer"
    <3>1. Contents'["consumer"] \subseteq Contents["consumer"] \cup {x}
      BY <1>2, <2>2 DEF Contents, Places
    <3>2. \A c \in Places \ {"consumer"} : Contents'[c] \subseteq Contents[c]
      <4>1. /\ UNCHANGED <<delivered, queue, tail, packetQueue>>
            /\ ToSet(held') \subseteq ToSet(held)
            /\ HandOf("sniffer", {"put"})' = HandOf("sniffer", {"put"})
            /\ HandOf("worker", {"decode"} \cup EmitLabels)'
                   = HandOf("worker", {"decode"} \cup EmitLabels)
        BY <1>1, <1>2, <2>2
      <4>q. QED BY <4>1 DEF Contents, Places
    <3>3. Move("held", "consumer", {x})
      BY <1>3, <3>1, <3>2 DEF Move, Places
    <3>q. QED BY <3>3, MoveFrom DEF PInv
  <2>q. QED BY <2>1, <2>2 DEF Emitters
<1>5. OnceEach' /\ OneSentinel' /\ NoneLost'
  BY <1>1, <1>2 DEF PInv, OnceEach, OneSentinel, NoneLost, Around, Emitters
<1>q. QED BY <1>4, <1>5 DEF PInv

(* An emitted event stays in hand, goes to the queue or the tail, or is     *)
(* given up after a stop was requested.                                     *)
LEMMA EmitPlaces ==
    ASSUME TInv, PInv, NEW t \in Emitters, EmitEnter(t) \/ EmitCheck(t) \/ EmitPut(t)
    PROVE  PInv'
<1> DEFINE x == at[t]
           Goes(l) == pc' = [pc EXCEPT ![t] = l]
<1>1. /\ UNCHANGED <<delivered, held, packetQueue, sentinelSent, sent, stopRequested, at>>
      /\ pc[t] \in EmitLabels
  BY DEF EmitEnter, EmitCheck, EmitPut, EmitLabels, lifecycle, queues, bounds, history
<1>2. \/ (\E l \in EmitLabels : Goes(l)) /\ UNCHANGED <<queue, tail>>
      \/ Goes(AfterEmit(t)) /\ UNCHANGED <<queue, tail, emitted>> /\ stopRequested
      \/ Goes(AfterEmit(t)) /\ queue' = Append(queue, x) /\ UNCHANGED tail
      \/ Goes(AfterEmit(t)) /\ tail' = Append(tail, x) /\ UNCHANGED queue
  BY DEF EmitEnter, EmitCheck, EmitPut, WhenFull, Goto, EmitLabels, queues, history
<1>3. emitted' = emitted \/ emitted' = Append(emitted, x)
  BY DEF EmitEnter, EmitCheck, EmitPut, history
<1>4. x \in Packets /\ x \in Contents[t] /\ x \in Around
  BY <1>1, PlaceTypes DEF Contents, HandOf, Around, Emitters
<1>5. ToSet(emitted') \subseteq ToSet(emitted) \cup {x}
  <2>1. ToSet(Append(emitted, x)) = ToSet(emitted) \cup {x}
    BY <1>4, PlaceTypes, OnceAppend
  <2>q. QED BY <1>3, <2>1
<1>6. /\ HandOf("sniffer", {"put"})' = HandOf("sniffer", {"put"})
      /\ t # "worker" =>
             /\ HandOf("worker", {"decode"} \cup EmitLabels)'
                    = HandOf("worker", {"decode"} \cup EmitLabels)
             /\ HandOf("worker", EmitLabels)' = HandOf("worker", EmitLabels)
      /\ t # "consumer" => HandOf("consumer", EmitLabels)' = HandOf("consumer", EmitLabels)
  BY <1>1, <1>2, PlaceTypes DEF HandOf, Threads, Emitters
<1>7. ASSUME Goes(AfterEmit(t))
      PROVE  /\ t = "worker" => HandOf("worker", {"decode"} \cup EmitLabels)' = {}
             /\ t = "consumer" => HandOf("consumer", EmitLabels)' = {}
  BY <1>7, PlaceTypes DEF HandOf, AfterEmit, EmitLabels, Threads, Emitters
<1>8. \A c \in {"delivered", "held", "packets", "sniffer"} : Contents'[c] = Contents[c]
  BY <1>1, <1>6 DEF Contents
<1>9. CASE (\E l \in EmitLabels : Goes(l)) /\ UNCHANGED <<queue, tail>>
  <2>1. /\ HandOf("worker", {"decode"} \cup EmitLabels)'
               = HandOf("worker", {"decode"} \cup EmitLabels)
        /\ HandOf("worker", EmitLabels)' = HandOf("worker", EmitLabels)
        /\ HandOf("consumer", EmitLabels)' = HandOf("consumer", EmitLabels)
    BY <1>1, <1>6, <1>9, PlaceTypes DEF HandOf, Threads, Emitters
  <2>2. \A c \in Places : Contents'[c] \subseteq Contents[c]
    BY <1>8, <1>9, <2>1 DEF Contents, Places
  <2>3. OnePlace' /\ Numbered'
    BY <1>1, <2>2, Stays DEF PInv
  <2>4. OnceEach' /\ OneSentinel'
    BY <1>1, <1>9 DEF PInv, OnceEach, OneSentinel
  <2>5. NoneLost'
    <3>1. Around' = Around
      BY <1>1, <1>9, <2>1 DEF Around
    <3>q. QED BY <1>1, <1>4, <1>5, <3>1 DEF PInv, NoneLost
  <2>q. QED BY <2>3, <2>4, <2>5 DEF PInv
<1>10. CASE Goes(AfterEmit(t)) /\ UNCHANGED <<queue, tail, emitted>> /\ stopRequested
  BY <1>1, <1>6, <1>7, <1>10, RestKeeps DEF Rest, Emitters
<1>11. ASSUME Goes(AfterEmit(t)),
              NEW place \in {"queue", "tail"}, x \notin Contents[place],
              Contents'[place] = Contents[place] \cup {x},
              \A c \in {"queue", "tail"} \ {place} : Contents'[c] = Contents[c],
              IsInjective(queue)', IsInjective(tail)'
       PROVE  PInv'
  <2>1. t \in Places /\ place \in Places /\ t # place /\ Contents'[t] = {}
    BY <1>7, <1>11 DEF Contents, Places, Emitters
  <2>2. \A c \in Places \ {place} : Contents'[c] \subseteq Contents[c]
    <3>1. \A c \in {"worker", "consumer"} \ {t} : Contents'[c] = Contents[c]
      BY <1>6 DEF Contents
    <3>q. QED BY <1>8, <1>11, <2>1, <3>1 DEF Places
  <2>3. Move(t, place, {x})
    BY <1>1, <1>4, <1>11, <2>1, <2>2 DEF Move
  <2>4. OnePlace' /\ Numbered'
    BY <2>3, MoveFrom DEF PInv
  <2>5. OnceEach' /\ OneSentinel'
    BY <1>1, <1>11 DEF PInv, OnceEach, OneSentinel
  <2>6. Around \subseteq Around'
    <3>1. /\ ToSet(delivered') = ToSet(delivered) /\ ToSet(queue) \subseteq ToSet(queue')
          /\ ToSet(tail) \subseteq ToSet(tail') /\ x \in ToSet(queue') \cup ToSet(tail')
      BY <1>1, <1>11 DEF Contents
    <3>2. /\ t = "worker" => HandOf("worker", EmitLabels) = {x}
          /\ t = "consumer" => HandOf("consumer", EmitLabels) = {x}
      BY <1>1 DEF HandOf
    <3>q. QED BY <1>6, <3>1, <3>2 DEF Around, Emitters
  <2>7. NoneLost'
    BY <1>1, <1>4, <1>5, <2>6 DEF PInv, NoneLost
  <2>q. QED BY <2>4, <2>5, <2>7 DEF PInv
<1>12. CASE Goes(AfterEmit(t)) /\ queue' = Append(queue, x) /\ UNCHANGED tail
  <2>1. x \notin Contents["queue"]
    BY <1>4 DEF PInv, OnePlace, Places, Emitters
  <2>2. ToSet(queue') = ToSet(queue) \cup {x} /\ IsInjective(queue)'
    <3>1. x \notin ToSet(queue)
      BY <2>1 DEF Contents
    <3>q. QED BY <1>4, <1>12, <3>1, PlaceTypes, OnceAppend DEF PInv, OnceEach
  <2>3. /\ Contents'["queue"] = Contents["queue"] \cup {x}
        /\ Contents'["tail"] = Contents["tail"] /\ IsInjective(tail)'
    BY <1>12, <2>2 DEF Contents, PInv, OnceEach
  <2>q. QED BY <1>11, <1>12, <2>1, <2>2, <2>3
<1>13. CASE Goes(AfterEmit(t)) /\ tail' = Append(tail, x) /\ UNCHANGED queue
  <2>1. x \notin Contents["tail"]
    BY <1>4 DEF PInv, OnePlace, Places, Emitters
  <2>2. ToSet(tail') = ToSet(tail) \cup {x} /\ IsInjective(tail)'
    <3>1. x \notin ToSet(tail)
      BY <2>1 DEF Contents
    <3>q. QED BY <1>4, <1>13, <3>1, PlaceTypes, OnceAppend DEF PInv, OnceEach
  <2>3. /\ Contents'["tail"] = Contents["tail"] \cup {x}
        /\ Contents'["queue"] = Contents["queue"] /\ IsInjective(queue)'
    BY <1>13, <2>2 DEF Contents, PInv, OnceEach
  <2>q. QED BY <1>11, <1>13, <2>1, <2>2, <2>3
<1>q. QED BY <1>2, <1>9, <1>10, <1>12, <1>13

(* poll() takes the oldest event of the queue or, after the end, the tail.  *)
LEMMA TakePlaces ==
    ASSUME TInv, PInv, TakeStep \/ PollFinal, ~Flush
    PROVE  PInv'
<1>1. /\ UNCHANGED <<held, packetQueue, sentinelSent, emitted, sent, stopRequested, at>>
      /\ pc["consumer"] \notin EmitLabels
      /\ \E l \in ConsumerLabels \ EmitLabels : pc' = [pc EXCEPT !["consumer"] = l]
      /\ \/ UNCHANGED <<queue, tail, delivered>>
         \/ /\ queue # <<>> /\ queue' = Tail(queue) /\ UNCHANGED tail
            /\ delivered' = Append(delivered, Head(queue))
         \/ /\ tail # <<>> /\ tail' = Tail(tail) /\ UNCHANGED queue
            /\ delivered' = Append(delivered, Head(tail))
  <2>1. CASE PollFinal
    BY <2>1 DEF PollFinal, Goto, consumerOnly, ConsumerLabels, EmitLabels
  <2>2. ASSUME NEW here \in ConsumerLabels, NEW there \in ConsumerLabels, NEW unlock,
               here \notin EmitLabels, there \notin EmitLabels, TryGet(here, there, unlock)
        PROVE  /\ UNCHANGED <<held, packetQueue, sentinelSent, emitted, sent, stopRequested, at>>
               /\ pc["consumer"] \notin EmitLabels
               /\ \E l \in ConsumerLabels \ EmitLabels : pc' = [pc EXCEPT !["consumer"] = l]
               /\ \/ UNCHANGED <<queue, delivered>>
                  \/ /\ queue # <<>> /\ queue' = Tail(queue)
                     /\ delivered' = Append(delivered, Head(queue))
               /\ UNCHANGED tail
    BY <2>2 DEF TryGet, Goto, consumerOnly, ConsumerLabels, EmitLabels
  <2>q. QED BY <2>1, <2>2 DEF TakeStep
<1>2. /\ HandOf("sniffer", {"put"})' = HandOf("sniffer", {"put"})
      /\ HandOf("worker", {"decode"} \cup EmitLabels)'
             = HandOf("worker", {"decode"} \cup EmitLabels)
      /\ HandOf("worker", EmitLabels)' = HandOf("worker", EmitLabels)
      /\ HandOf("consumer", EmitLabels)' = {} /\ HandOf("consumer", EmitLabels) = {}
  BY <1>1, PlaceTypes DEF HandOf, Threads
<1>3. \A c \in Places \ {"queue", "tail", "delivered"} : Contents'[c] = Contents[c]
  <2>1. UNCHANGED <<held, packetQueue>>
    BY <1>1
  <2>q. QED BY <1>2, <2>1 DEF Contents, Places
<1>4. CASE UNCHANGED <<queue, tail, delivered>>
  BY <1>1, <1>2, <1>4, RestKeeps DEF Rest
<1>5. ASSUME NEW x \in Packets, delivered' = Append(delivered, x),
             NEW place \in {"queue", "tail"}, x \notin Contents'[place],
             Contents[place] = Contents'[place] \cup {x},
             \A c \in {"queue", "tail"} \ {place} : Contents'[c] = Contents[c],
             IsInjective(queue)', IsInjective(tail)'
      PROVE  PInv'
  <2>1. x \notin ToSet(delivered)
    <3>1. x \in Contents[place]
      BY <1>5
    <3>2. x \notin Contents["delivered"]
      BY <3>1 DEF PInv, OnePlace, Places
    <3>q. QED BY <3>2 DEF Contents
  <2>2. ToSet(delivered') = ToSet(delivered) \cup {x} /\ IsInjective(delivered)'
    BY <1>5, <2>1, PlaceTypes, OnceAppend DEF PInv, OnceEach
  <2>3. Contents'["delivered"] = Contents["delivered"] \cup {x}
    BY <2>2 DEF Contents
  <2>4. \A c \in Places \ {"delivered"} : Contents'[c] \subseteq Contents[c]
    BY <1>3, <1>5
  <2>5. Move(place, "delivered", {x})
    BY <1>1, <1>5, <2>3, <2>4 DEF Move, Places
  <2>6. OnePlace' /\ Numbered'
    BY <2>5, MoveFrom DEF PInv
  <2>7. OnceEach' /\ OneSentinel'
    BY <1>1, <1>5, <2>2 DEF PInv, OnceEach, OneSentinel
  <2>8. NoneLost'
    <3>1. ToSet(queue) \cup ToSet(tail) \cup ToSet(delivered)
          \subseteq ToSet(queue') \cup ToSet(tail') \cup ToSet(delivered')
      BY <1>5, <2>2 DEF Contents
    <3>q. QED BY <1>1, <1>2, <3>1 DEF PInv, NoneLost, Around
  <2>q. QED BY <2>6, <2>7, <2>8 DEF PInv
<1>6. CASE /\ queue # <<>> /\ queue' = Tail(queue) /\ UNCHANGED tail
           /\ delivered' = Append(delivered, Head(queue))
  <2>1. /\ Head(queue) \in Packets /\ ToSet(queue) = ToSet(queue') \cup {Head(queue)}
        /\ Head(queue) \notin ToSet(queue') /\ IsInjective(queue)'
    BY <1>6, PlaceTypes, OnceTail DEF PInv, OnceEach
  <2>2. /\ Contents["queue"] = Contents'["queue"] \cup {Head(queue)}
        /\ Head(queue) \notin Contents'["queue"]
        /\ Contents'["tail"] = Contents["tail"] /\ IsInjective(tail)'
    BY <1>6, <2>1 DEF Contents, PInv, OnceEach
  <2>q. QED BY <1>5, <1>6, <2>1, <2>2
<1>7. CASE /\ tail # <<>> /\ tail' = Tail(tail) /\ UNCHANGED queue
           /\ delivered' = Append(delivered, Head(tail))
  <2>1. /\ Head(tail) \in Packets /\ ToSet(tail) = ToSet(tail') \cup {Head(tail)}
        /\ Head(tail) \notin ToSet(tail') /\ IsInjective(tail)'
    BY <1>7, PlaceTypes, OnceTail DEF PInv, OnceEach
  <2>2. /\ Contents["tail"] = Contents'["tail"] \cup {Head(tail)}
        /\ Head(tail) \notin Contents'["tail"]
        /\ Contents'["queue"] = Contents["queue"] /\ IsInjective(queue)'
    BY <1>7, <2>1 DEF Contents, PInv, OnceEach
  <2>q. QED BY <1>5, <1>7, <2>1, <2>2
<1>q. QED BY <1>1, <1>4, <1>6, <1>7

(* The sentinel is sent once.                                               *)
LEMMA SignalPlaces ==
    ASSUME TInv, PInv,
           \/ \E t \in Stoppers : SignalWorker(t, "signal", "join")
           \/ SignalWorker("control", "rollbackSignal", "rollbackJoin")
    PROVE  PInv'
<1>1. PICK t \in Stoppers, here \in {"signal", "rollbackSignal"},
           there \in {"join", "rollbackJoin"} :
          SignalWorker(t, here, there)
  BY DEF Stoppers
<1>2. /\ pc[t] = here /\ pc' = [pc EXCEPT ![t] = there]
      /\ UNCHANGED <<delivered, queue, tail, held, emitted, sent, stopRequested, at>>
      /\ \/ UNCHANGED <<packetQueue, sentinelSent>>
         \/ /\ ~sentinelSent
            /\ packetQueue' = Append(packetQueue, Sentinel) /\ sentinelSent' = TRUE
  BY <1>1 DEF SignalWorker, Goto, lifecycle, history
<1>3. /\ HandOf("sniffer", {"put"})' = HandOf("sniffer", {"put"})
      /\ HandOf("worker", {"decode"} \cup EmitLabels)'
             = HandOf("worker", {"decode"} \cup EmitLabels)
      /\ HandOf("worker", EmitLabels)' = HandOf("worker", EmitLabels)
      /\ HandOf("consumer", EmitLabels)' = HandOf("consumer", EmitLabels)
  BY <1>1, <1>2, PlaceTypes DEF HandOf, Threads, Stoppers, EmitLabels
<1>4. CASE UNCHANGED <<packetQueue, sentinelSent>>
  BY <1>2, <1>3, <1>4, RestKeeps DEF Rest
<1>5. CASE /\ ~sentinelSent
           /\ packetQueue' = Append(packetQueue, Sentinel) /\ sentinelSent' = TRUE
  <2>1. \A c \in Places : Sentinel \notin Contents[c]
    <3>1. Sentinel \notin ToSet(packetQueue)
      BY <1>5 DEF PInv, OneSentinel
    <3>2. \A s \in Seq(Packets) : Sentinel \notin ToSet(s)
      <4>1. \A s \in Seq(Packets) : \A i \in DOMAIN s : s[i] \in Packets
        OBVIOUS
      <4>2. Sentinel \notin Packets
        BY DEF Sentinel, Packets
      <4>q. QED BY <4>1, <4>2 DEF ToSet
    <3>3. /\ Sentinel \notin HandOf("sniffer", {"put"})
          /\ Sentinel \notin HandOf("worker", {"decode"} \cup EmitLabels)
          /\ Sentinel \notin HandOf("consumer", EmitLabels)
      <4>1. Sentinel \notin Packets
        BY DEF Sentinel, Packets
      <4>q. QED BY <4>1, PlaceTypes DEF HandOf
    <3>q. QED BY <3>1, <3>2, <3>3, PlaceTypes DEF Contents, Places
  <2>2. Sentinel \notin ToSet(packetQueue)
    BY <1>5 DEF PInv, OneSentinel
  <2>3. /\ ToSet(packetQueue') = ToSet(packetQueue) \cup {Sentinel}
        /\ IsInjective(packetQueue)'
    BY <1>5, <2>2, PlaceTypes, OnceAppend DEF PInv, OnceEach
  <2>4. Contents'["packets"] \subseteq Contents["packets"] \cup {Sentinel}
    BY <2>3 DEF Contents
  <2>5. \A c \in Places \ {"packets"} : Contents'[c] \subseteq Contents[c]
    BY <1>2, <1>3 DEF Contents, Places
  <2>6. OnePlace' /\ Numbered'
    <3>1. sent' = sent /\ sent \in Nat /\ Sentinel \in 0..sent' /\ "packets" \in Places
      BY <1>2, PlaceTypes DEF Sentinel, Places
    <3>q. QED BY <2>1, <2>4, <2>5, <3>1, Arrives DEF PInv
  <2>7. OnceEach' /\ OneSentinel' /\ NoneLost'
    BY <1>2, <1>3, <1>5, <2>3 DEF PInv, OnceEach, OneSentinel, NoneLost, Around
  <2>q. QED BY <2>6, <2>7 DEF PInv
<1>q. QED BY <1>2, <1>4, <1>5

(* finalize() moves to the tail what is held, or some of it.                *)
LEMMA FinalizePlaces ==
    ASSUME TInv, PInv, NEW t \in Stoppers, FinalizeCollector(t) PROVE PInv'
<1>1. PICK n \in 0..Len(held) : /\ tail' = tail \o SubSeq(held, 1, n)
                                /\ emitted' = emitted \o SubSeq(held, 1, n)
  BY DEF FinalizeCollector
<1> DEFINE moved == SubSeq(held, 1, n)
<1>2. /\ UNCHANGED <<delivered, queue, packetQueue, sentinelSent, sent, stopRequested, at>>
      /\ held' = <<>> /\ pc[t] = "finalize" /\ pc' = [pc EXCEPT ![t] = AfterStop[t]]
  BY DEF FinalizeCollector, Goto
<1>3. /\ HandOf("sniffer", {"put"})' = HandOf("sniffer", {"put"})
      /\ HandOf("worker", {"decode"} \cup EmitLabels)'
             = HandOf("worker", {"decode"} \cup EmitLabels)
      /\ HandOf("worker", EmitLabels)' = HandOf("worker", EmitLabels)
      /\ HandOf("consumer", EmitLabels)' = HandOf("consumer", EmitLabels)
  BY <1>2, PlaceTypes DEF HandOf, Threads, Stoppers, EmitLabels, AfterStop
<1>4. moved \in Seq(Packets) /\ ToSet(moved) \subseteq ToSet(held) /\ IsInjective(moved)
  BY PlaceTypes, OncePrefix DEF PInv, OnceEach
<1>5. ToSet(tail) \cap ToSet(held) = {}
  <2>1. Contents["tail"] \cap Contents["held"] = {}
    BY DEF PInv, OnePlace, Places
  <2>q. QED BY <2>1 DEF Contents
<1> HIDE DEF moved
<1>6. ToSet(tail') = ToSet(tail) \cup ToSet(moved) /\ IsInjective(tail)'
  <2>1. tail' = tail \o moved
    BY <1>1 DEF moved
  <2>q. QED BY <1>4, <1>5, <2>1, PlaceTypes, OnceConcat DEF PInv, OnceEach
<1>7. ToSet(emitted') = ToSet(emitted) \cup ToSet(moved)
  <2>1. emitted' = emitted \o moved
    BY <1>1 DEF moved
  <2>q. QED BY <1>4, <2>1, PlaceTypes, OnceConcat
<1>8. ToSet(held') = {} /\ IsInjective(held)'
  BY <1>2 DEF ToSet, IsInjective
<1>9. Move("held", "tail", ToSet(moved))
  <2>1. ToSet(moved) \subseteq Contents["held"] /\ Contents'["held"] = {}
    BY <1>4, <1>8 DEF Contents
  <2>2. Contents'["tail"] \subseteq Contents["tail"] \cup ToSet(moved)
    BY <1>6 DEF Contents
  <2>3. \A c \in Places \ {"tail"} : Contents'[c] \subseteq Contents[c]
    BY <1>2, <1>3, <1>8 DEF Contents, Places
  <2>q. QED BY <1>2, <2>1, <2>2, <2>3 DEF Move, Places
<1>10. OnePlace' /\ Numbered'
  BY <1>9, MoveFrom DEF PInv
<1>11. OnceEach' /\ OneSentinel'
  BY <1>2, <1>6, <1>8 DEF PInv, OnceEach, OneSentinel
<1>12. NoneLost'
  BY <1>2, <1>3, <1>6, <1>7 DEF PInv, NoneLost, Around
<1>q. QED BY <1>10, <1>11, <1>12 DEF PInv

(* A step that moves no thread with something in hand.                      *)
Carrying == {"put", "decode"} \cup EmitLabels
EmptyHanded ==
    /\ UNCHANGED <<delivered, queue, tail, held, packetQueue, sentinelSent, emitted, sent>>
    /\ stopRequested => stopRequested'
    /\ \A t \in {"sniffer", "worker", "consumer"} :
          \/ pc'[t] = pc[t] /\ at'[t] = at[t]
          \/ pc[t] \notin Carrying /\ pc'[t] \notin Carrying

(* Such a step keeps every packet and event where it is.                    *)
LEMMA EmptyHandedKeeps == ASSUME PInv, EmptyHanded PROVE PInv'
<1>1. /\ HandOf("sniffer", {"put"})' = HandOf("sniffer", {"put"})
      /\ HandOf("worker", {"decode"} \cup EmitLabels)'
             = HandOf("worker", {"decode"} \cup EmitLabels)
      /\ HandOf("worker", EmitLabels)' = HandOf("worker", EmitLabels)
      /\ HandOf("consumer", EmitLabels)' = HandOf("consumer", EmitLabels)
  BY DEF EmptyHanded, Carrying, HandOf
<1>q. QED BY <1>1, RestKeeps DEF EmptyHanded, Rest

(* The worker's steps that are not above.                                   *)
LEMMA WorkerPlaces == ASSUME TInv, PInv, WorkerService \/ WorkerRelease PROVE PInv'
<1>1. CASE WorkerRelease
  <2>1. /\ pc["worker"] = "release" /\ pc' = [pc EXCEPT !["worker"] = "get"]
        /\ at' = [at EXCEPT !["worker"] = None]
        /\ UNCHANGED <<delivered, queue, tail, held, packetQueue, sentinelSent, emitted,
                       sent, stopRequested>>
    BY <1>1 DEF WorkerRelease, Goto, lifecycle, queues, bounds, history
  <2>q. QED
    BY <2>1, PlaceTypes, EmptyHandedKeeps DEF EmptyHanded, Carrying, EmitLabels, Threads
<1>2. CASE WorkerService
  <2>1. /\ UNCHANGED <<delivered, queue, tail, packetQueue, sentinelSent, emitted, sent>>
        /\ pc["worker"] = "get" /\ stopRequested => stopRequested'
        /\ \/ /\ held # <<>> /\ held' = Tail(held) /\ pc["worker"] = "get"
              /\ pc' = [pc EXCEPT !["worker"] = "emit"]
              /\ at' = [at EXCEPT !["worker"] = Head(held)] /\ UNCHANGED stopRequested
           \/ UNCHANGED <<held, pc, at>> /\ stopRequested'
    BY <1>2 DEF WorkerService, TakeHeld, Goto, history
  <2>2. CASE UNCHANGED <<held, pc, at>> /\ stopRequested'
    BY <2>1, <2>2, EmptyHandedKeeps DEF EmptyHanded
  <2>3. "worker" \in Emitters
    BY DEF Emitters
  <2>q. QED BY <2>1, <2>2, <2>3, HeldPlaces
<1>q. QED BY <1>1, <1>2

(* The steps of _finish_stop that are not above.                            *)
LEMMA StopPlaces ==
    ASSUME TInv, PInv, NEW t \in Stoppers, StopEnter(t) \/ StopCapture(t) \/ JoinWorker(t)
    PROVE  PInv'
<1>1. /\ pc[t] \in StopLabels /\ UNCHANGED at
      /\ \E l \in StopLabels \cup {"dead", "idle", "get"} : pc' = [pc EXCEPT ![t] = l]
  BY DEF StopEnter, StopCapture, JoinWorker, Goto, StopLabels, AfterStop, AfterRaise, Stoppers
<1>2. /\ UNCHANGED <<delivered, queue, tail, held, packetQueue, sentinelSent, emitted, sent>>
      /\ stopRequested => stopRequested'
  BY DEF StopEnter, StopCapture, JoinWorker, queues, bounds, history
<1>3. \A u \in {"sniffer", "worker", "consumer"} :
         \/ pc'[u] = pc[u] /\ at'[u] = at[u]
         \/ pc[u] \notin Carrying /\ pc'[u] \notin Carrying
  BY <1>1, PlaceTypes DEF Carrying, EmitLabels, StopLabels, Threads, Stoppers
<1>q. QED BY <1>2, <1>3, EmptyHandedKeeps DEF EmptyHanded

(* The monitor, stop() and request_stop().                                  *)
LEMMA RequestPlaces == ASSUME TInv, PInv, RequestStep PROVE PInv'
<1>1. /\ UNCHANGED <<delivered, queue, tail, held, packetQueue, sentinelSent, emitted, sent>>
      /\ stopRequested => stopRequested'
      /\ UNCHANGED at
  BY DEF RequestStep, MonitorWatch, MonitorLeave, Stop, RequestStop, lifecycle, queues,
         bounds, history
<1>2. \A u \in {"sniffer", "worker", "consumer"} : pc'[u] = pc[u]
  BY PlaceTypes DEF RequestStep, MonitorWatch, MonitorLeave, Stop, RequestStop, Goto, Threads
<1>q. QED BY <1>1, <1>2, EmptyHandedKeeps DEF EmptyHanded

(* start(), and its rollback up to the reset.                               *)
LEMMA StartPlaces ==
    ASSUME TInv, PInv,
           StartBegin \/ StartCapture \/ StartMonitor \/ RollbackCapture \/ RollbackTimeout
    PROVE  PInv'
<1>1. /\ UNCHANGED <<delivered, queue, tail, held, packetQueue, sentinelSent, emitted, sent>>
      /\ UNCHANGED at
  BY DEF StartBegin, StartCapture, StartMonitor, RollbackCapture, RollbackTimeout, queues,
         bounds, history
<1>2. stopRequested => stopRequested'
  <2>1. CASE StartBegin
    BY <2>1 DEF StartBegin, TInv, IInv, RolledBackIsFresh
  <2>2. CASE ~StartBegin
    BY <2>2 DEF StartCapture, StartMonitor, RollbackCapture, RollbackTimeout, lifecycle
  <2>q. QED BY <2>1, <2>2
<1>3. \/ \E l : pc' = [pc EXCEPT !["control"] = l]
      \/ pc' = [pc EXCEPT !["control"] = "idle", !["monitor"] = "watch"]
      \/ StartBegin /\ pc' = [pc EXCEPT !["control"] = "startCapture", !["worker"] = "get"]
  BY DEF StartBegin, StartCapture, StartMonitor, RollbackCapture, RollbackTimeout,
         KeepForRetry, Goto
<1>4. StartBegin => WorkerDead
  BY DEF StartBegin, TInv, IInv, RolledBackIsFresh
<1>5. /\ pc'["sniffer"] = pc["sniffer"] /\ pc'["consumer"] = pc["consumer"]
      /\ pc'["worker"] = pc["worker"] \/ (pc'["worker"] = "get" /\ WorkerDead)
  BY <1>3, <1>4, PlaceTypes DEF Threads
<1>q. QED
  BY <1>1, <1>2, <1>5, EmptyHandedKeeps
     DEF EmptyHanded, Carrying, EmitLabels, WorkerDead

(* _reset_after_failed_start empties everything but what was delivered.     *)
LEMMA ResetPlaces == ASSUME TInv, PInv, RollbackReset PROVE PInv'
<1>1. /\ UNCHANGED <<delivered, sent, at>> /\ emitted' = <<>> /\ packetQueue' = <<>>
      /\ queue' = <<>> /\ tail' = <<>> /\ held' = <<>>
      /\ pc' = [pc EXCEPT !["control"] = "idle", !["worker"] = "absent"]
  BY DEF RollbackReset, ClearQueues, bounds
<1>2. ToSet(<<>>) = {} /\ IsInjective(<<>>)
  BY DEF ToSet, IsInjective
<1>3. /\ HandOf("sniffer", {"put"})' = HandOf("sniffer", {"put"})
      /\ HandOf("worker", {"decode"} \cup EmitLabels)' = {}
      /\ HandOf("consumer", EmitLabels)' = HandOf("consumer", EmitLabels)
  BY <1>1, PlaceTypes DEF HandOf, EmitLabels, Threads
<1>4. \A c \in Places : Contents'[c] \subseteq Contents[c]
  BY <1>1, <1>2, <1>3 DEF Contents, Places
<1>5. OnePlace' /\ Numbered'
  BY <1>1, <1>4, Stays DEF PInv
<1>6. OnceEach' /\ OneSentinel' /\ NoneLost'
  BY <1>1, <1>2 DEF PInv, OnceEach, OneSentinel, NoneLost
<1>q. QED BY <1>5, <1>6 DEF PInv

(* The steps of poll() that take nothing.                                   *)
LEMMA LookPlaces == ASSUME TInv, PInv, LookStep, ~PollFinal PROVE PInv'
<1>1. /\ UNCHANGED <<delivered, queue, tail, held, packetQueue, sentinelSent, emitted, sent>>
      /\ UNCHANGED <<at, stopRequested>>
      /\ pc["consumer"] \notin Carrying
      /\ \E l \in ConsumerLabels \ Carrying : pc' = [pc EXCEPT !["consumer"] = l]
  BY DEF LookStep, PollEnter, ServiceCaptureState, LockDelivery, FlushEnter, PollTimeout,
         IterateEvents, Goto, consumerOnly, ConsumerLabels, StopLabels, EmitLabels, Carrying
<1>2. \A t \in {"sniffer", "worker", "consumer"} :
         pc'[t] = pc[t] \/ (pc[t] \notin Carrying /\ pc'[t] \notin Carrying)
  <2>1. PICK l \in ConsumerLabels \ Carrying : pc' = [pc EXCEPT !["consumer"] = l]
    BY <1>1
  <2>2. /\ pc'["consumer"] = l /\ pc'["sniffer"] = pc["sniffer"]
        /\ pc'["worker"] = pc["worker"]
    BY <2>1, PlaceTypes DEF Threads
  <2>q. QED BY <1>1, <2>1, <2>2
<1>q. QED BY <1>1, <1>2, EmptyHandedKeeps DEF EmptyHanded

(* _flush_stale takes a held event, or none.                                *)
LEMMA FlushPlaces == ASSUME TInv, PInv, Flush PROVE PInv'
<1>1. /\ UNCHANGED <<delivered, queue, tail, packetQueue, sentinelSent, emitted, sent>>
      /\ pc["consumer"] = "flush"
      /\ \/ /\ held # <<>> /\ held' = Tail(held)
            /\ pc' = [pc EXCEPT !["consumer"] = "emit"]
            /\ at' = [at EXCEPT !["consumer"] = Head(held)] /\ UNCHANGED stopRequested
         \/ /\ UNCHANGED held /\ (stopRequested => stopRequested')
            /\ pc' = [pc EXCEPT !["consumer"] = "getFlushed"]
            /\ at' = [at EXCEPT !["consumer"] = None]
  BY DEF Flush, TakeHeld, Goto, consumerOnly
<1>2. CASE /\ UNCHANGED held /\ (stopRequested => stopRequested')
           /\ pc' = [pc EXCEPT !["consumer"] = "getFlushed"]
           /\ at' = [at EXCEPT !["consumer"] = None]
  <2>1. \A t \in {"sniffer", "worker", "consumer"} :
           \/ pc'[t] = pc[t] /\ at'[t] = at[t]
           \/ pc[t] \notin Carrying /\ pc'[t] \notin Carrying
    BY <1>1, <1>2, PlaceTypes DEF Carrying, EmitLabels, Threads
  <2>q. QED BY <1>1, <1>2, <2>1, EmptyHandedKeeps DEF EmptyHanded
<1>3. "consumer" \in Emitters
  BY DEF Emitters
<1>q. QED BY <1>1, <1>2, <1>3, HeldPlaces

(* At first all places are empty.                                           *)
LEMMA InitPInv == Init => PInv
<1> SUFFICES ASSUME Init PROVE PInv
  OBVIOUS
<1>1. ToSet(<<>>) = {} /\ IsInjective(<<>>)
  BY DEF ToSet, IsInjective
<1>2. /\ delivered = <<>> /\ queue = <<>> /\ tail = <<>> /\ held = <<>>
      /\ packetQueue = <<>> /\ emitted = <<>>
      /\ pc["sniffer"] = "idle" /\ pc["worker"] = "absent" /\ pc["consumer"] = "idle"
  BY DEF Init, Threads
<1>3. \A c \in Places : Contents[c] = {}
  BY <1>1, <1>2 DEF Contents, Places, HandOf, EmitLabels
<1>q. QED
  BY <1>1, <1>2, <1>3 DEF PInv, OnePlace, Numbered, OnceEach, OneSentinel, NoneLost

(* And every step keeps each packet and event in one place.                 *)
LEMMA NextPInv == ASSUME TInv, PInv, [Next]_vars PROVE PInv'
<1>1. CASE SnifferStep
  <2>1. CASE SourceEnds
    BY <2>1, EmptyHandedKeeps
       DEF SourceEnds, EmptyHanded, lifecycle, queues, bounds, history
  <2>q. QED BY <1>1, <2>1, ArrivePlaces, PutPlaces DEF SnifferStep
<1>2. CASE DecodeStep
  BY <1>2, GetPlaces, DecodePlaces, WorkerPlaces DEF DecodeStep
<1>3. CASE EmitStep
  BY <1>3, EmitPlaces DEF EmitStep
<1>4. CASE StopStep
  BY <1>4, StopPlaces, SignalPlaces, FinalizePlaces DEF StopStep, FinishStop
<1>5. CASE RequestStep
  BY <1>5, RequestPlaces
<1>6. CASE StartingStep
  BY <1>6, StartPlaces, SignalPlaces, ResetPlaces DEF StartingStep, Start
<1>7. CASE LookStep \/ TakeStep
  BY <1>7, LookPlaces, TakePlaces, FlushPlaces
<1>8. CASE UNCHANGED vars
  BY <1>8, EmptyHandedKeeps DEF vars, lifecycle, queues, bounds, history, EmptyHanded
<1>q. QED BY <1>1, <1>2, <1>3, <1>4, <1>5, <1>6, <1>7, <1>8, NextSteps

(* An event is delivered once, whichever way it went.                       *)
LEMMA PlacesDeliverOnce == ASSUME TInv, PInv PROVE DeliveredOnce
<1>1. /\ ToSet(delivered) \cap ToSet(queue) = {} /\ ToSet(delivered) \cap ToSet(tail) = {}
      /\ ToSet(delivered) \cap ToSet(held) = {} /\ ToSet(queue) \cap ToSet(tail) = {}
      /\ ToSet(queue) \cap ToSet(held) = {} /\ ToSet(tail) \cap ToSet(held) = {}
  <2>1. /\ Contents["delivered"] \cap Contents["queue"] = {}
        /\ Contents["delivered"] \cap Contents["tail"] = {}
        /\ Contents["delivered"] \cap Contents["held"] = {}
        /\ Contents["queue"] \cap Contents["tail"] = {}
        /\ Contents["queue"] \cap Contents["held"] = {}
        /\ Contents["tail"] \cap Contents["held"] = {}
    BY DEF PInv, OnePlace, Places
  <2>q. QED BY <2>1 DEF Contents
<1> DEFINE two == delivered \o queue
           three == two \o tail
<1>2. two \in Seq(Packets) /\ IsInjective(two) /\ ToSet(two) = ToSet(delivered) \cup ToSet(queue)
  BY <1>1, PlaceTypes, OnceConcat DEF PInv, OnceEach
<1> HIDE DEF two
<1>3. /\ three \in Seq(Packets) /\ IsInjective(three)
      /\ ToSet(three) = ToSet(delivered) \cup ToSet(queue) \cup ToSet(tail)
  <2>1. ToSet(two) \cap ToSet(tail) = {}
    BY <1>1, <1>2
  <2>q. QED BY <1>2, <2>1, PlaceTypes, OnceConcat DEF PInv, OnceEach
<1> HIDE DEF three
<1>4. IsInjective(three \o held)
  <2>1. ToSet(three) \cap ToSet(held) = {}
    BY <1>1, <1>3
  <2>q. QED BY <1>3, <2>1, PlaceTypes, OnceConcat DEF PInv, OnceEach
<1>q. QED BY <1>4 DEF two, three, DeliveredOnce

(* Until a stop is requested each emitted event is still around.            *)
LEMMA PlacesLoseNothing == ASSUME TInv, PInv PROVE NoLossBeforeStop
<1>1. HandOf("worker", EmitLabels) \cup HandOf("consumer", EmitLabels)
          \subseteq {at[t] : t \in {e \in Emitters : pc[e] \in EmitLabels}}
  BY DEF HandOf, Emitters
<1>q. QED BY <1>1 DEF PInv, NoneLost, Around, NoLossBeforeStop

(* No event is lost before a stop is requested, however long the consumer   *)
(* leaves the queue full, and none is delivered twice, whether it went      *)
(* through the queue, the tail or the collector (_enqueue, poll,            *)
(* _flush_stale, _finalize_decoder).                                        *)
THEOREM SessionKeepsEvents == Spec => []EventsKept
<1>1. TInv /\ PInv => EventsKept
  BY PlacesDeliverOnce, PlacesLoseNothing DEF EventsKept, TInv
<1>2. TInv /\ PInv /\ [Next]_vars => TInv' /\ PInv'
  BY NextTInv, NextPInv
<1>q. QED BY <1>1, <1>2, InitTInv, InitPInv, PTL DEF Spec
=============================================================================
