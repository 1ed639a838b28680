---------------------- MODULE ObservationSessionProofs ----------------------
(***************************************************************************)
(* Proofs about ObservationSession, for every size of its queues and any   *)
(* number of packets, failures and cancellations, with and without a raw   *)
(* file, a duration and the facade.                                        *)
(*                                                                         *)
(* The argument has three layers.  Control: who owns the capture, and how  *)
(* far a shutdown has come.  Flow: packets are numbered on the wire, so    *)
(* that each queue holds a run of consecutive numbers, and where it begins *)
(* says what is before it.  Readers: the same for observations between     *)
(* the event queue and the application.                                    *)
(***************************************************************************)
EXTENDS MCObservationSession, SequenceTheorems, TLAPS

-----------------------------------------------------------------------------
(***************************************************************************)
(* Control.                                                                *)
(***************************************************************************)
WorkerLabels == {"absent", "boot", "open", "opened", "loop", "clock", "dead"} \cup Inside
CallerLabels == {"idle", "lock", "join", "giveUp", "joined", "answer", "waitReady"} \cup Inside
ConsumerLabels == {"idle", "check", "get", "look", "wait", "have", "returned", "raised",
                   "ended"}
Tasks == {"none", "idle", "slice", "last", "settleStop", "settlePoll", "ended"}

FlagsTyped ==
    /\ attempted \in BOOLEAN /\ stopRequested \in BOOLEAN /\ ready \in BOOLEAN
    /\ stopped \in BOOLEAN /\ failed \in BOOLEAN /\ incomplete \in BOOLEAN
    /\ writerOpen \in BOOLEAN

LabelsTyped ==
    /\ pc \in [Threads -> Labels]
    /\ pc["sniffer"] \in {"idle", "put"} /\ pc["worker"] \in WorkerLabels
    /\ pc["main"] \in CallerLabels /\ pc["stopper"] \in CallerLabels
    /\ pc["consumer"] \in ConsumerLabels
    /\ back \in [Deciders -> {"loop", "drain", "close"}]

ControlTyped ==
    /\ CaptureTypeOK /\ FlagsTyped /\ LabelsTyped
    /\ lifecycle \in Callers \cup {None}
    /\ task \in Tasks

(* Nothing runs before start(), and a start() that could not create its     *)
(* thread leaves a stopped session.                                         *)
AfterStart ==
    /\ \/ pc["main"] # "idle" \/ pc["stopper"] # "idle" \/ pc["worker"] # "absent"
       \/ started # None \/ stopped \/ task \notin {"none", "idle"}
       => attempted
    /\ attempted /\ pc["worker"] = "absent" => failed /\ stopped
    /\ pc["worker"] \in {"absent", "boot"} => ~startAttempted
    /\ pc["worker"] = "absent" => ~writerOpen
    /\ ready => pc["worker"] \notin {"absent", "boot", "open", "opened"}
    /\ started = "ok" => ready

Owning == {"join", "giveUp", "joined", "answer"} \cup Inside

(* A stop() works under the lifecycle lock, and shuts down only after the   *)
(* worker, and only because the worker's shutdown has failed.               *)
StopsInTurn ==
    \A t \in Callers :
        /\ pc[t] \in Owning => lifecycle = t
        /\ pc[t] \in {"joined"} \cup Inside => WorkerDead
        /\ pc[t] \in Inside => failed

(* An error ends the session.                                               *)
ErrorsRequestStop == (incomplete => failed) /\ (failed => stopRequested)

(* Where the decoder code of a thread returns to.                           *)
BackInTurn ==
    \A t \in Deciders :
        /\ pc[t] = "drain" => back[t] = "drain"
        /\ pc[t] = "process" => back[t] = "drain" \/ (t = "worker" /\ back[t] = "loop")
        /\ pc[t] = "publish" => t = "worker"
        /\ pc[t] = "clock" => back[t] = "loop"
        /\ pc[t] = "close" => back[t] = "close"

(* What a shutdown has got over.                                            *)
Released == captureStopped \/ (~captureStarted /\ ~captureIncomplete)
Past(t) ==
    \/ pc[t] \in {"stats", "drain", "finish", "close", "settle"}
    \/ pc[t] \in {"process", "publish"} /\ back[t] # "loop"
ShutsInOrder ==
    \A t \in Deciders :
        /\ Past(t) => Released
        /\ pc[t] = "settle" => ~writerOpen

(* A capture that was never started owns nothing, a callback runs on a live *)
(* backend thread, and a stopped session has no worker.                     *)
CaptureInTurn ==
    /\ BackendOwned
    /\ ~startAttempted =>
           ~captureStarted /\ ~captureStopped /\ ~captureIncomplete
           /\ sniffer = "none" /\ ~socket
    /\ pc["sniffer"] = "put" => sniffer = "alive"
    /\ stopped => WorkerDead
    /\ NativeOwned

(* The decoder is finished by the worker, once.                             *)
FinishedOnce ==
    /\ finished \in {0, 1}
    /\ finished = 1 =>
           \/ pc["worker"] \in {"close", "settle", "dead"}
           \/ pc["worker"] = "publish" /\ back["worker"] = "close"

CInv == /\ ControlTyped /\ AfterStart /\ StopsInTurn /\ ErrorsRequestStop /\ BackInTurn
        /\ ShutsInOrder /\ CaptureInTurn /\ FinishedOnce

-----------------------------------------------------------------------------
USE DEF Threads, Deciders, Callers, Inside, Labels

(* start(): it may run once, and its failure leaves a stopped session or a  *)
(* stop() to come.                                                          *)
LEMMA StartKeeps ==
  ASSUME CInv, StartCall \/ WaitReady
  PROVE  CInv'
<1> USE DEF CInv, ControlTyped, StartCall, WaitReady, Goto, Fails, MayFail
<1>1. FlagsTyped'
  BY ObservationConstants DEF FlagsTyped, flags, queues
<1>2. ErrorsRequestStop'
  BY DEF ErrorsRequestStop, StopsInTurn, flags
<1>3. LabelsTyped'
  BY DEF LabelsTyped, BackInTurn, WorkerLabels, CallerLabels, ConsumerLabels, threads
<1>4. ControlTyped'
  BY <1>1, <1>3, WindowsIsBoolean DEF CaptureTypeOK, Tasks, captureVars, threads, facade
<1>5. AfterStart'
  BY ObservationConstants DEF FlagsTyped, LabelsTyped, AfterStart,
      StopsInTurn, ConsumerLabels, StartComplete, MustRetry, WorkerLabels,
      Tasks, captureVars, flags, queues, threads, facade, history
<1>6. StopsInTurn'
  BY ObservationConstants DEF LabelsTyped, StopsInTurn, ErrorsRequestStop,
      AfterStart, Owning, WorkerDead, MustRetry, flags, threads
<1>7. BackInTurn'
  BY DEF LabelsTyped, BackInTurn, StopsInTurn, MayDecode, MayFinish, flags,
      threads
<1>8. ShutsInOrder'
  BY DEF LabelsTyped, ShutsInOrder, Past, Released, BackInTurn, StopsInTurn,
      AfterStart, WorkerDead, CaptureInTurn, BackendOwned, CaptureTypeOK,
      captureVars, threads, queues
<1>9. CaptureInTurn'
  BY ObservationConstants DEF FlagsTyped, LabelsTyped, CaptureTypeOK,
      CaptureInTurn, BackendOwned, NativeOwned, ShutsInOrder, Past, Released,
      StopsInTurn, AfterStart, WorkerDead, captureVars, flags, queues, threads
<1>10. FinishedOnce'
  BY DEF LabelsTyped, FinishedOnce, StopsInTurn, BackInTurn, AfterStart,
      WorkerLabels, MayFinish, threads, history
<1>q. QED BY <1>2, <1>4, <1>5, <1>6, <1>7, <1>8, <1>9, <1>10

(* The worker opens the raw file.                                           *)
LEMMA BootKeeps ==
  ASSUME CInv, Boot
  PROVE  CInv'
<1>0. ErrorsRequestStop'
  <2>1. incomplete' = incomplete /\ (UNCHANGED <<failed, stopRequested>> \/ Fails)
    BY DEF Boot
  <2>q. QED BY <2>1 DEF CInv, ErrorsRequestStop, Fails
<1> USE DEF CInv, ControlTyped, Boot, Goto, Fails, MayFail
<1>1. FlagsTyped'
  BY ObservationConstants DEF FlagsTyped, flags, queues
<1>3. LabelsTyped'
  BY ZenonT(60) DEF LabelsTyped, BackInTurn, WorkerLabels, CallerLabels, ConsumerLabels, threads
<1>4. ControlTyped'
  BY <1>1, <1>3, WindowsIsBoolean DEF CaptureTypeOK, Tasks, captureVars, threads, facade
<1>5. AfterStart'
  BY ObservationConstants DEF FlagsTyped, LabelsTyped, AfterStart,
      StopsInTurn, ConsumerLabels, StartComplete, MustRetry, WorkerLabels,
      Tasks, captureVars, flags, queues, threads, facade, history
<1>6. StopsInTurn'
  BY ZenonT(60), ObservationConstants DEF LabelsTyped, StopsInTurn, ErrorsRequestStop,
      AfterStart, Owning, WorkerDead, MustRetry, flags, threads
<1>7. BackInTurn'
  BY ZenonT(60) DEF LabelsTyped, BackInTurn, StopsInTurn, MayDecode, MayFinish, flags,
      threads
<1>8. ShutsInOrder'
  BY DEF LabelsTyped, ShutsInOrder, Past, Released, BackInTurn, StopsInTurn,
      AfterStart, WorkerDead, CaptureInTurn, BackendOwned, CaptureTypeOK,
      captureVars, threads, queues
<1>9. CaptureInTurn'
  BY ObservationConstants DEF FlagsTyped, LabelsTyped, CaptureTypeOK,
      CaptureInTurn, BackendOwned, NativeOwned, ShutsInOrder, Past, Released,
      StopsInTurn, AfterStart, WorkerDead, captureVars, flags, queues, threads
<1>10. FinishedOnce'
  BY DEF LabelsTyped, FinishedOnce, StopsInTurn, BackInTurn, AfterStart,
      WorkerLabels, MayFinish, threads, history
<1>q. QED BY <1>0, <1>4, <1>5, <1>6, <1>7, <1>8, <1>9, <1>10

(* The worker starts the capture, which may leave something behind.         *)
LEMMA OpenKeeps ==
  ASSUME CInv, OpenCapture
  PROVE  CInv'
<1> USE DEF CInv, ControlTyped, OpenCapture, Goto, Fails, MayFail,
    CaptureStartOK, CaptureStartRefused, CaptureStartFailed
<1>1. FlagsTyped'
  BY ObservationConstants DEF FlagsTyped, flags, queues
<1>2. ErrorsRequestStop'
  BY DEF ErrorsRequestStop, StopsInTurn, flags
<1>3. LabelsTyped'
  BY DEF LabelsTyped, BackInTurn, WorkerLabels, CallerLabels, ConsumerLabels, threads
<1>4. ControlTyped'
  BY ZenonT(60), <1>1, <1>3, WindowsIsBoolean DEF CaptureTypeOK, Tasks, captureVars, threads, facade
<1>5. AfterStart'
  BY ObservationConstants DEF FlagsTyped, LabelsTyped, AfterStart,
      StopsInTurn, ConsumerLabels, StartComplete, MustRetry, WorkerLabels,
      Tasks, captureVars, flags, queues, threads, facade, history
<1>6. StopsInTurn'
  BY ObservationConstants DEF LabelsTyped, StopsInTurn, ErrorsRequestStop,
      AfterStart, Owning, WorkerDead, MustRetry, flags, threads
<1>7. BackInTurn'
  BY DEF LabelsTyped, BackInTurn, StopsInTurn, MayDecode, MayFinish, flags,
      threads
<1>8. ShutsInOrder'
  BY DEF LabelsTyped, ShutsInOrder, Past, Released, BackInTurn, StopsInTurn,
      AfterStart, WorkerDead, CaptureInTurn, BackendOwned, CaptureTypeOK,
      captureVars, threads, queues
<1>9. CaptureInTurn'
  BY ObservationConstants DEF FlagsTyped, LabelsTyped, CaptureTypeOK,
      CaptureInTurn, BackendOwned, NativeOwned, ShutsInOrder, Past, Released,
      StopsInTurn, AfterStart, WorkerDead, captureVars, flags, queues, threads
<1>10. FinishedOnce'
  BY DEF LabelsTyped, FinishedOnce, StopsInTurn, BackInTurn, AfterStart,
      WorkerLabels, MayFinish, threads, history
<1>q. QED BY <1>2, <1>4, <1>5, <1>6, <1>7, <1>8, <1>9, <1>10

(* The worker's loop.                                                       *)
LEMMA LoopKeeps ==
  ASSUME CInv, Opened \/ Loop \/ ServiceClock
  PROVE  CInv'
<1> USE DEF CInv, ControlTyped, Opened, Loop, ServiceClock, Goto, Fails,
    MayFail, CaptureRunning
<1>1. FlagsTyped'
  BY ObservationConstants DEF FlagsTyped, flags, queues
<1>2. ErrorsRequestStop'
  BY DEF ErrorsRequestStop, StopsInTurn, flags
<1>3. LabelsTyped'
  BY DEF LabelsTyped, BackInTurn, WorkerLabels, CallerLabels, ConsumerLabels, threads
<1>4. ControlTyped'
  BY <1>1, <1>3, WindowsIsBoolean DEF CaptureTypeOK, Tasks, captureVars, threads, facade
<1>5. AfterStart'
  BY ObservationConstants DEF FlagsTyped, LabelsTyped, AfterStart,
      StopsInTurn, ConsumerLabels, StartComplete, MustRetry, WorkerLabels,
      Tasks, captureVars, flags, queues, threads, facade, history
<1>6. StopsInTurn'
  BY ObservationConstants DEF LabelsTyped, StopsInTurn, ErrorsRequestStop,
      AfterStart, Owning, WorkerDead, MustRetry, flags, threads
<1>7. BackInTurn'
  BY DEF LabelsTyped, BackInTurn, StopsInTurn, MayDecode, MayFinish, flags,
      threads
<1>8. ShutsInOrder'
  BY DEF LabelsTyped, ShutsInOrder, Past, Released, BackInTurn, StopsInTurn,
      AfterStart, WorkerDead, CaptureInTurn, BackendOwned, CaptureTypeOK,
      captureVars, threads, queues
<1>9. CaptureInTurn'
  BY ObservationConstants DEF FlagsTyped, LabelsTyped, CaptureTypeOK,
      CaptureInTurn, BackendOwned, NativeOwned, ShutsInOrder, Past, Released,
      StopsInTurn, AfterStart, WorkerDead, captureVars, flags, queues, threads
<1>10. FinishedOnce'
  BY DEF LabelsTyped, FinishedOnce, StopsInTurn, BackInTurn, AfterStart,
      WorkerLabels, MayFinish, threads, history
<1>q. QED BY <1>2, <1>4, <1>5, <1>6, <1>7, <1>8, <1>9, <1>10

(* A packet is decoded, an observation published.                           *)
LEMMA DecodeKeeps ==
  ASSUME CInv, NEW t \in Deciders, Process(t) \/ Publish(t)
  PROVE  CInv'
<1> USE DEF CInv, ControlTyped, Process, Publish, Goto, Fails, MayFail,
    Handler
<1>1. FlagsTyped'
  BY ObservationConstants DEF FlagsTyped, flags, queues
<1>2. ErrorsRequestStop'
  BY DEF ErrorsRequestStop, StopsInTurn, flags
<1>3. LabelsTyped'
  BY DEF LabelsTyped, BackInTurn, WorkerLabels, CallerLabels, ConsumerLabels, threads
<1>4. ControlTyped'
  BY <1>1, <1>3, WindowsIsBoolean DEF CaptureTypeOK, Tasks, captureVars, threads, facade
<1>5. AfterStart'
  BY ObservationConstants DEF FlagsTyped, LabelsTyped, AfterStart,
      StopsInTurn, ConsumerLabels, StartComplete, MustRetry, WorkerLabels,
      Tasks, captureVars, flags, queues, threads, facade, history
<1>6. StopsInTurn'
  BY ObservationConstants DEF LabelsTyped, StopsInTurn, ErrorsRequestStop,
      AfterStart, Owning, WorkerDead, MustRetry, flags, threads
<1>7. BackInTurn'
  BY DEF LabelsTyped, BackInTurn, StopsInTurn, MayDecode, MayFinish, flags,
      threads
<1>8. ShutsInOrder'
  BY DEF LabelsTyped, ShutsInOrder, Past, Released, BackInTurn, StopsInTurn,
      AfterStart, WorkerDead, CaptureInTurn, BackendOwned, CaptureTypeOK,
      captureVars, threads, queues
<1>9. CaptureInTurn'
  BY ObservationConstants DEF FlagsTyped, LabelsTyped, CaptureTypeOK,
      CaptureInTurn, BackendOwned, NativeOwned, ShutsInOrder, Past, Released,
      StopsInTurn, AfterStart, WorkerDead, captureVars, flags, queues, threads
<1>10. FinishedOnce'
  BY DEF LabelsTyped, FinishedOnce, StopsInTurn, BackInTurn, AfterStart,
      WorkerLabels, MayFinish, threads, history
<1>q. QED BY <1>2, <1>4, <1>5, <1>6, <1>7, <1>8, <1>9, <1>10

(* _shutdown: each step has got over what the one before it was for.        *)
LEMMA ShutdownKeeps ==
  ASSUME CInv, NEW t \in Deciders, Shutdown(t)
  PROVE  CInv'
<1> USE DEF CInv, ControlTyped, Shutdown, ShutdownCapture, FinalStats, Drain,
    FinishDecoder, CloseWriter, Settle, Goto, Fails, MayFail, Leave,
    NativeIncomplete, CaptureStop, ShutdownOutcome, ShutdownBackend
<1>1. FlagsTyped'
  BY ObservationConstants DEF FlagsTyped, flags, queues
<1>2. ErrorsRequestStop'
  BY DEF ErrorsRequestStop, StopsInTurn, flags
<1>3. LabelsTyped'
  BY DEF LabelsTyped, BackInTurn, WorkerLabels, CallerLabels, ConsumerLabels, threads
<1>4. ControlTyped'
  BY <1>1, <1>3, WindowsIsBoolean DEF CaptureTypeOK, Tasks, captureVars, threads, facade
<1>5. AfterStart'
  BY ObservationConstants DEF FlagsTyped, LabelsTyped, AfterStart,
      StopsInTurn, ConsumerLabels, StartComplete, MustRetry, WorkerLabels,
      Tasks, captureVars, flags, queues, threads, facade, history
<1>6. StopsInTurn'
  BY ObservationConstants DEF LabelsTyped, StopsInTurn, ErrorsRequestStop,
      AfterStart, Owning, WorkerDead, MustRetry, flags, threads
<1>7. BackInTurn'
  BY DEF LabelsTyped, BackInTurn, StopsInTurn, MayDecode, MayFinish, flags,
      threads
<1>8. ShutsInOrder'
  BY DEF LabelsTyped, ShutsInOrder, Past, Released, BackInTurn, StopsInTurn,
      AfterStart, WorkerDead, CaptureInTurn, BackendOwned, CaptureTypeOK,
      captureVars, threads, queues
<1>9. CaptureInTurn'
  BY ObservationConstants DEF FlagsTyped, LabelsTyped, CaptureTypeOK,
      CaptureInTurn, BackendOwned, NativeOwned, ShutsInOrder, Past, Released,
      StopsInTurn, AfterStart, WorkerDead, captureVars, flags, queues, threads
<1>10. FinishedOnce'
  BY DEF LabelsTyped, FinishedOnce, StopsInTurn, BackInTurn, AfterStart,
      WorkerLabels, MayFinish, threads, history
<1>q. QED BY <1>2, <1>4, <1>5, <1>6, <1>7, <1>8, <1>9, <1>10

(* stop(), around the shutdown.                                             *)
LEMMA StopKeeps ==
  ASSUME CInv, NEW t \in Callers,
         \/ StopCall(t) \/ StopLock(t) \/ JoinWorker(t) \/ GiveUp(t)
         \/ RetryShutdown(t) \/ StopReturns(t)
  PROVE  CInv'
<1> USE DEF CInv, ControlTyped, StopCall, StopLock, JoinWorker, GiveUp,
    RetryShutdown, StopReturns, Goto, Fails, MayFail, Joined, MustRetry
<1>1. FlagsTyped'
  BY ObservationConstants DEF FlagsTyped, flags, queues
<1>2. ErrorsRequestStop'
  BY DEF ErrorsRequestStop, StopsInTurn, flags
<1>3. LabelsTyped'
  BY DEF LabelsTyped, BackInTurn, WorkerLabels, CallerLabels, ConsumerLabels, threads
<1>4. ControlTyped'
  BY <1>1, <1>3, WindowsIsBoolean DEF CaptureTypeOK, Tasks, captureVars, threads, facade
<1>5. AfterStart'
  BY ObservationConstants DEF FlagsTyped, LabelsTyped, AfterStart,
      StopsInTurn, ConsumerLabels, StartComplete, MustRetry, WorkerLabels,
      Tasks, captureVars, flags, queues, threads, facade, history
<1>6. StopsInTurn'
  BY ObservationConstants DEF LabelsTyped, StopsInTurn, ErrorsRequestStop,
      AfterStart, Owning, WorkerDead, MustRetry, flags, threads
<1>7. BackInTurn'
  BY DEF LabelsTyped, BackInTurn, StopsInTurn, MayDecode, MayFinish, flags,
      threads
<1>8. ShutsInOrder'
  BY DEF LabelsTyped, ShutsInOrder, Past, Released, BackInTurn, StopsInTurn,
      AfterStart, WorkerDead, CaptureInTurn, BackendOwned, CaptureTypeOK,
      captureVars, threads, queues
<1>9. CaptureInTurn'
  BY ObservationConstants DEF FlagsTyped, LabelsTyped, CaptureTypeOK,
      CaptureInTurn, BackendOwned, NativeOwned, ShutsInOrder, Past, Released,
      StopsInTurn, AfterStart, WorkerDead, captureVars, flags, queues, threads
<1>10. FinishedOnce'
  BY DEF LabelsTyped, FinishedOnce, StopsInTurn, BackInTurn, AfterStart,
      WorkerLabels, MayFinish, threads, history
<1>q. QED BY <1>2, <1>4, <1>5, <1>6, <1>7, <1>8, <1>9, <1>10

(* The native callback.                                                     *)
LEMMA ArrivalKeeps ==
  ASSUME CInv, PacketArrives \/ PutPacket
  PROVE  CInv'
<1> USE DEF CInv, ControlTyped, PacketArrives, PutPacket, Goto, Fails, MayFail
<1>1. FlagsTyped'
  BY ObservationConstants DEF FlagsTyped, flags, queues
<1>2. ErrorsRequestStop'
  BY DEF ErrorsRequestStop, StopsInTurn, flags
<1>3. LabelsTyped'
  BY DEF LabelsTyped, BackInTurn, WorkerLabels, CallerLabels, ConsumerLabels, threads
<1>4. ControlTyped'
  BY <1>1, <1>3, WindowsIsBoolean DEF CaptureTypeOK, Tasks, captureVars, threads, facade
<1>5. AfterStart'
  BY ObservationConstants DEF FlagsTyped, LabelsTyped, AfterStart,
      StopsInTurn, ConsumerLabels, StartComplete, MustRetry, WorkerLabels,
      Tasks, captureVars, flags, queues, threads, facade, history
<1>6. StopsInTurn'
  BY ObservationConstants DEF LabelsTyped, StopsInTurn, ErrorsRequestStop,
      AfterStart, Owning, WorkerDead, MustRetry, flags, threads
<1>7. BackInTurn'
  BY DEF LabelsTyped, BackInTurn, StopsInTurn, MayDecode, MayFinish, flags,
      threads
<1>8. ShutsInOrder'
  BY DEF LabelsTyped, ShutsInOrder, Past, Released, BackInTurn, StopsInTurn,
      AfterStart, WorkerDead, CaptureInTurn, BackendOwned, CaptureTypeOK,
      captureVars, threads, queues
<1>9. CaptureInTurn'
  BY ObservationConstants DEF FlagsTyped, LabelsTyped, CaptureTypeOK,
      CaptureInTurn, BackendOwned, NativeOwned, ShutsInOrder, Past, Released,
      StopsInTurn, AfterStart, WorkerDead, captureVars, flags, queues, threads
<1>10. FinishedOnce'
  BY DEF LabelsTyped, FinishedOnce, StopsInTurn, BackInTurn, AfterStart,
      WorkerLabels, MayFinish, threads, history
<1>q. QED BY <1>2, <1>4, <1>5, <1>6, <1>7, <1>8, <1>9, <1>10

(* The backend ends by itself.                                              *)
LEMMA SourceKeeps ==
  ASSUME CInv, SourceEnds
  PROVE  CInv'
<1> USE DEF CInv, ControlTyped, SourceEnds, CaptureEnds, Goto, Fails, MayFail
<1>1. FlagsTyped'
  BY ObservationConstants DEF FlagsTyped, flags, queues
<1>2. ErrorsRequestStop'
  BY DEF ErrorsRequestStop, StopsInTurn, flags
<1>3. LabelsTyped'
  BY DEF LabelsTyped, BackInTurn, WorkerLabels, CallerLabels, ConsumerLabels, threads
<1>4. ControlTyped'
  BY <1>1, <1>3, WindowsIsBoolean DEF CaptureTypeOK, Tasks, captureVars, threads, facade
<1>5. AfterStart'
  BY ObservationConstants DEF FlagsTyped, LabelsTyped, AfterStart,
      StopsInTurn, ConsumerLabels, StartComplete, MustRetry, WorkerLabels,
      Tasks, captureVars, flags, queues, threads, facade, history
<1>6. StopsInTurn'
  BY ObservationConstants DEF LabelsTyped, StopsInTurn, ErrorsRequestStop,
      AfterStart, Owning, WorkerDead, MustRetry, flags, threads
<1>7. BackInTurn'
  BY DEF LabelsTyped, BackInTurn, StopsInTurn, MayDecode, MayFinish, flags,
      threads
<1>8. ShutsInOrder'
  BY DEF LabelsTyped, ShutsInOrder, Past, Released, BackInTurn, StopsInTurn,
      AfterStart, WorkerDead, CaptureInTurn, BackendOwned, CaptureTypeOK,
      captureVars, threads, queues
<1>9. CaptureInTurn'
  BY ObservationConstants DEF FlagsTyped, LabelsTyped, CaptureTypeOK,
      CaptureInTurn, BackendOwned, NativeOwned, ShutsInOrder, Past, Released,
      StopsInTurn, AfterStart, WorkerDead, captureVars, flags, queues, threads
<1>10. FinishedOnce'
  BY DEF LabelsTyped, FinishedOnce, StopsInTurn, BackInTurn, AfterStart,
      WorkerLabels, MayFinish, threads, history
<1>q. QED BY <1>2, <1>4, <1>5, <1>6, <1>7, <1>8, <1>9, <1>10

(* The facade starts a poll, or is cancelled and asks for a stop.           *)
LEMMA FacadeKeeps ==
  ASSUME CInv, AsyncPoll \/ AsyncCancel
  PROVE  CInv'
<1> USE DEF CInv, ControlTyped, AsyncPoll, AsyncCancel, Goto, Fails, MayFail,
    Ends
<1>1. FlagsTyped'
  BY ObservationConstants DEF FlagsTyped, flags, queues
<1>2. ErrorsRequestStop'
  BY DEF ErrorsRequestStop, StopsInTurn, flags
<1>3. LabelsTyped'
  BY DEF LabelsTyped, BackInTurn, WorkerLabels, CallerLabels, ConsumerLabels, threads
<1>4. ControlTyped'
  BY <1>1, <1>3, WindowsIsBoolean DEF CaptureTypeOK, Tasks, captureVars, threads, facade
<1>5. AfterStart'
  BY ObservationConstants DEF FlagsTyped, LabelsTyped, AfterStart,
      StopsInTurn, ConsumerLabels, StartComplete, MustRetry, WorkerLabels,
      Tasks, captureVars, flags, queues, threads, facade, history
<1>6. StopsInTurn'
  BY ObservationConstants DEF LabelsTyped, StopsInTurn, ErrorsRequestStop,
      AfterStart, Owning, WorkerDead, MustRetry, flags, threads
<1>7. BackInTurn'
  BY DEF LabelsTyped, BackInTurn, StopsInTurn, MayDecode, MayFinish, flags,
      threads
<1>8. ShutsInOrder'
  BY DEF LabelsTyped, ShutsInOrder, Past, Released, BackInTurn, StopsInTurn,
      AfterStart, WorkerDead, CaptureInTurn, BackendOwned, CaptureTypeOK,
      captureVars, threads, queues
<1>9. CaptureInTurn'
  BY ObservationConstants DEF FlagsTyped, LabelsTyped, CaptureTypeOK,
      CaptureInTurn, BackendOwned, NativeOwned, ShutsInOrder, Past, Released,
      StopsInTurn, AfterStart, WorkerDead, captureVars, flags, queues, threads
<1>10. FinishedOnce'
  BY DEF LabelsTyped, FinishedOnce, StopsInTurn, BackInTurn, AfterStart,
      WorkerLabels, MayFinish, threads, history
<1>q. QED BY <1>2, <1>4, <1>5, <1>6, <1>7, <1>8, <1>9, <1>10

(* poll() and its callers touch nothing of this.                            *)
LEMMA ReaderKeeps ==
  ASSUME CInv, Poll \/ Iterate \/ AsyncSlice \/ AsyncLast \/ StopSettled \/ PollSettled
  PROVE  CInv'
<1> USE DEF CInv, ControlTyped, Poll, PollCall, PollCheck, PollGet, PollLook,
    PollTimeout, PollHave, TakeEvent, Iterate, AsyncSlice, SliceLooksAgain,
    AsyncLast, StopSettled, PollSettled, Goto, Fails, MayFail, Ends, Answered
<1>1. FlagsTyped'
  BY ObservationConstants DEF FlagsTyped, flags, queues
<1>2. ErrorsRequestStop'
  BY DEF ErrorsRequestStop, StopsInTurn, flags
<1>3. LabelsTyped'
  BY DEF LabelsTyped, BackInTurn, WorkerLabels, CallerLabels, ConsumerLabels, threads
<1>4. ControlTyped'
  BY <1>1, <1>3, WindowsIsBoolean DEF CaptureTypeOK, Tasks, captureVars, threads, facade
<1>5. AfterStart'
  BY ObservationConstants DEF FlagsTyped, LabelsTyped, AfterStart,
      StopsInTurn, ConsumerLabels, StartComplete, MustRetry, WorkerLabels,
      Tasks, captureVars, flags, queues, threads, facade, history
<1>6. StopsInTurn'
  BY ObservationConstants DEF LabelsTyped, StopsInTurn, ErrorsRequestStop,
      AfterStart, Owning, WorkerDead, MustRetry, flags, threads
<1>7. BackInTurn'
  BY DEF LabelsTyped, BackInTurn, StopsInTurn, MayDecode, MayFinish, flags,
      threads
<1>8. ShutsInOrder'
  BY DEF LabelsTyped, ShutsInOrder, Past, Released, BackInTurn, StopsInTurn,
      AfterStart, WorkerDead, CaptureInTurn, BackendOwned, CaptureTypeOK,
      captureVars, threads, queues
<1>9. CaptureInTurn'
  BY ObservationConstants DEF FlagsTyped, LabelsTyped, CaptureTypeOK,
      CaptureInTurn, BackendOwned, NativeOwned, ShutsInOrder, Past, Released,
      StopsInTurn, AfterStart, WorkerDead, captureVars, flags, queues, threads
<1>10. FinishedOnce'
  BY DEF LabelsTyped, FinishedOnce, StopsInTurn, BackInTurn, AfterStart,
      WorkerLabels, MayFinish, threads, history
<1>q. QED BY <1>2, <1>4, <1>5, <1>6, <1>7, <1>8, <1>9, <1>10

LEMMA ControlInit == Init => CInv
<1> SUFFICES ASSUME Init PROVE CInv
  OBVIOUS
<1> USE DEF Init, CaptureInit
<1>1. FlagsTyped
  BY DEF FlagsTyped
<1>2. LabelsTyped
  BY DEF LabelsTyped, WorkerLabels, CallerLabels, ConsumerLabels
<1>3. ControlTyped
  BY <1>1, <1>2 DEF ControlTyped, CaptureTypeOK, Tasks
<1>4. AfterStart /\ ErrorsRequestStop
  BY ObservationConstants DEF AfterStart, ErrorsRequestStop
<1>5. StopsInTurn /\ BackInTurn /\ ShutsInOrder
  BY DEF StopsInTurn, Owning, BackInTurn, ShutsInOrder, Past
<1>6. CaptureInTurn /\ FinishedOnce
  BY DEF CaptureInTurn, BackendOwned, NativeOwned, WorkerDead, FinishedOnce
<1>q. QED BY <1>3, <1>4, <1>5, <1>6 DEF CInv

LEMMA ControlNext == CInv /\ [Next]_vars => CInv'
<1> SUFFICES ASSUME CInv, [Next]_vars PROVE CInv'
  OBVIOUS
<1>1. CASE PacketArrives \/ PutPacket \/ SourceEnds
  BY <1>1, ArrivalKeeps, SourceKeeps
<1>2. CASE Work
  BY <1>2, BootKeeps, OpenKeeps, LoopKeeps, DecodeKeeps, ShutdownKeeps DEF Work, Worker
<1>3. CASE Main \/ Stop("stopper") \/ \E t \in Callers : StopCall(t)
  BY <1>3, StartKeeps, StopKeeps, ShutdownKeeps, DecodeKeeps DEF Main, Stop
<1>4. CASE Consume \/ AsyncCancel
  BY <1>4, ReaderKeeps, FacadeKeeps DEF Consume
<1>5. CASE Rest \/ UNCHANGED vars
  BY <1>5
     DEF Rest, vars, captureVars, flags, queues, threads, facade, bounds, history,
         CInv, ControlTyped, FlagsTyped, LabelsTyped, CaptureTypeOK, AfterStart,
         StopsInTurn, ErrorsRequestStop, BackInTurn, ShutsInOrder, Past, Released,
         CaptureInTurn, BackendOwned, NativeOwned, WorkerDead, FinishedOnce
<1>q. QED BY <1>1, <1>2, <1>3, <1>4, <1>5 DEF Next

LEMMA Control == Spec => []CInv
  BY ControlInit, ControlNext, PTL DEF Spec

(* Two threads are never inside: the lock keeps the callers of stop() apart, *)
(* and neither is there before the worker has ended.                        *)
LEMMA OneInside == CInv => DecidesAlone
<1> SUFFICES ASSUME CInv, NEW t \in Deciders, NEW u \in Deciders, pc[t] \in Inside, t # u
             PROVE  pc[u] \notin Inside \cup {"boot", "open", "opened", "loop", "clock"}
  BY DEF DecidesAlone
<1>1. CASE t = "worker"
  BY <1>1 DEF CInv, StopsInTurn, WorkerDead, ControlTyped, LabelsTyped, CallerLabels
<1>2. CASE t # "worker"
  BY <1>2 DEF CInv, StopsInTurn, Owning, WorkerDead, ControlTyped, LabelsTyped, CallerLabels
<1>q. QED BY <1>1, <1>2

-----------------------------------------------------------------------------
(***************************************************************************)
(* Flow.                                                                   *)
(***************************************************************************)
(* A run of numbers, the first one after a.                                 *)
Run(s, a) == \A i \in 1..Len(s) : s[i] = a + i

InProcess == \E t \in Deciders : pc[t] = "process"
Hand == IF InProcess THEN 1 ELSE 0
Dequeued == Len(accepted) - Len(packetQueue)

FlowTyped ==
    /\ packetQueue \in Seq(Packets) /\ Len(packetQueue) <= PacketQueueSize
    /\ queue \in Seq(Packets) /\ Len(queue) <= EventQueueSize
    /\ held \in Seq(Packets)
    /\ accepted \in Seq(Packets) /\ published \in Seq(Packets) /\ written \in Seq(Packets)
    /\ at \in [Threads -> Packets \cup {None}]
    /\ sent \in 0..MaxPackets
    /\ pc["worker"] = "publish" => held # <<>>

(* The packets arrive in the order of the wire, and the first one for which *)
(* there is no room is the last.                                            *)
Arrivals ==
    /\ Run(accepted, 0) /\ Len(packetQueue) <= Len(accepted)
    /\ Run(packetQueue, Dequeued)
    /\ pc["sniffer"] = "put" => at["sniffer"] = sent /\ Len(accepted) = sent - 1
    /\ pc["sniffer"] = "idle" => Len(accepted) = sent \/ (stopRequested /\ Len(accepted) < sent)
    /\ \A t \in Deciders : pc[t] = "process" => at[t] = Dequeued /\ Dequeued > 0

(* Whoever lost an observation publishes no more.                           *)
Cut ==
    /\ failed
    /\ pc["worker"] \notin {"absent", "boot", "open", "opened", "loop", "clock", "publish"}
    /\ pc["worker"] = "process" => back["worker"] # "loop"

Decoding ==
    /\ Run(published, 0)
    /\ Run(held, Len(published)) \/ Cut
    /\ ~failed => Len(published) + Len(held) + Hand = Dequeued

(* A shutdown goes on to the decoder when the queue is empty for good.      *)
Emptied(t) ==
    \/ pc[t] \in {"finish", "close", "settle"}
    \/ pc[t] = "publish" /\ back[t] = "close"
Draining ==
    /\ \A t \in Deciders : Emptied(t) => packetQueue = <<>>
    /\ ~failed /\ pc["worker"] \in {"close", "settle", "dead"} =>
           packetQueue = <<>> /\ held = <<>> /\ finished = 1
    /\ ~failed /\ pc["worker"] = "publish" /\ back["worker"] = "close" => finished = 1

(* The raw file: a session that may still be called clean has one until all *)
(* is written.                                                              *)
Opening == {"absent", "boot"}
RawOwed ==
    SaveRaw /\ ~writeFailed /\ (started = "ok" \/ ~failed) /\ pc["worker"] \notin Opening
Raw ==
    RawOwed =>
        /\ Run(written, 0) /\ Len(written) + Hand = Dequeued
        /\ ~writerOpen => packetQueue = <<>> /\ ~InProcess /\ Released
RawStart ==
    /\ pc["worker"] \in Opening =>
           accepted = <<>> /\ written = <<>> /\ published = <<>> /\ held = <<>>
    /\ pc["worker"] = "open" => writerOpen = SaveRaw

FInv == FlowTyped /\ Arrivals /\ Decoding /\ Draining /\ Raw /\ RawStart

(* What is taken from a run, or put behind it, leaves a run.                *)
LEMMA RunAppend ==
  ASSUME NEW S, NEW s \in Seq(S), NEW a \in Int, NEW e, Run(s, a), e = a + Len(s) + 1
  PROVE  Run(Append(s, e), a)
  BY DEF Run

LEMMA RunTail ==
  ASSUME NEW S, NEW s \in Seq(S), NEW a \in Int, Run(s, a), s # <<>>
  PROVE  Run(Tail(s), a + 1) /\ Head(s) = a + 1
  BY DEF Run

LEMMA RunEqual ==
  ASSUME NEW S, NEW s \in Seq(S), NEW u \in Seq(S), NEW a \in Int, Run(s, a), Run(u, a),
         Len(s) = Len(u)
  PROVE  s = u
  BY DEF Run

(* What is left of a sequence without its first element.                    *)
LEMMA HeadTail ==
  ASSUME NEW S, NEW s \in Seq(S), s # <<>>
  PROVE  Head(s) \in S /\ Tail(s) \in Seq(S) /\ Len(Tail(s)) = Len(s) - 1 /\ Len(s) \in Nat
  OBVIOUS

-----------------------------------------------------------------------------
(* A step that leaves the packets where they are.                           *)
QuietData ==
    /\ UNCHANGED <<packetQueue, accepted, held, published, written, sent>>
    /\ at' \in [Threads -> Packets \cup {None}]
    /\ \A t \in Threads \ {"consumer"} : at'[t] = at[t]
    /\ queue' \in Seq(Packets) /\ Len(queue') <= Len(queue)
QuietLabels ==
    /\ pc'["sniffer"] = pc["sniffer"]
    /\ \A t \in Deciders : pc'[t] = "process" <=> pc[t] = "process"
    /\ pc'["worker"] \in Opening => pc["worker"] \in Opening
    /\ pc'["worker"] = "open" => pc["worker"] = "open"
    /\ pc'["worker"] = "publish" => held # <<>>
QuietFlags ==
    /\ (stopRequested => stopRequested') /\ (failed => failed')
    /\ (Cut => Cut')
QuietRaw ==
    /\ pc'["worker"] = "open" => (writerOpen' <=> writerOpen)
    /\ RawOwed' => RawOwed
    /\ \/ (writerOpen => writerOpen') /\ (Released => Released' \/ writerOpen = SaveRaw)
       \/ packetQueue = <<>> /\ ~InProcess /\ Released'
QuietEnd ==
    /\ \A t \in Deciders : Emptied(t)' => packetQueue = <<>>
    /\ ~failed' /\ pc'["worker"] \in {"close", "settle", "dead"} =>
           packetQueue = <<>> /\ held = <<>> /\ finished' = 1
    /\ ~failed' /\ pc'["worker"] = "publish" /\ back'["worker"] = "close" => finished' = 1

LEMMA QuietFlows ==
  ASSUME FInv, FlagsTyped, FlagsTyped', QuietData, QuietLabels, QuietFlags, QuietRaw, QuietEnd
  PROVE  FInv'
<1> USE DEF FInv
<1>1. Dequeued' = Dequeued /\ (InProcess' <=> InProcess) /\ Hand' = Hand
  BY DEF QuietData, QuietLabels, Dequeued, InProcess, Hand
<1>2. FlowTyped'
  BY ObservationConstants DEF FlowTyped, QuietData, QuietLabels, Packets
<1>3. Arrivals'
  BY <1>1 DEF Arrivals, QuietData, QuietLabels, QuietFlags, FlagsTyped, Run
<1>4. Decoding'
  BY <1>1 DEF Decoding, QuietData, QuietFlags, Run
<1>5. Draining'
  BY DEF Draining, QuietData, QuietEnd
<1>6. Raw'
  BY <1>1 DEF Raw, RawOwed, QuietData, QuietRaw, Run
<1>7. RawStart'
  BY ObservationConstants DEF RawStart, QuietData, QuietLabels, QuietRaw, FlagsTyped
<1>q. QED BY <1>2, <1>3, <1>4, <1>5, <1>6, <1>7
(* start(): the worker has no packet yet.                                   *)
LEMMA StartFlows ==
  ASSUME CInv, CInv', FInv, StartCall \/ WaitReady
  PROVE  FInv'
<1> USE DEF StartCall, WaitReady, Goto, Fails, MayFail
<1>1. QuietData
  BY DEF QuietData, FInv, FlowTyped, flags, queues, threads, bounds, history
<1>2. QuietLabels
  BY DEF QuietLabels, CInv, ControlTyped, LabelsTyped, BackInTurn, AfterStart,
      WorkerLabels, CallerLabels, Opening, threads, queues, FInv, FlowTyped
<1>3. QuietFlags
  BY DEF QuietFlags, CInv, ControlTyped, LabelsTyped, FlagsTyped, StopsInTurn,
      BackInTurn, AfterStart, WorkerLabels, CallerLabels, Cut, flags, threads
<1>4. QuietRaw
  BY DEF QuietRaw, RawOwed, Opening, Released, CInv, ControlTyped,
      LabelsTyped, CaptureTypeOK, AfterStart, CaptureInTurn, BackendOwned,
      ShutsInOrder, Past, FInv, RawStart, captureVars, flags, queues, threads,
      history
<1>5. QuietEnd
  BY DEF QuietEnd, FInv, FlowTyped, Draining, Emptied, CInv, ControlTyped,
      LabelsTyped, FlagsTyped, StopsInTurn, BackInTurn, FinishedOnce,
      WorkerLabels, CallerLabels, flags, queues, threads, history
<1>q. QED
  BY <1>1, <1>2, <1>3, <1>4, <1>5, QuietFlows DEF CInv, ControlTyped

(* The worker starts the capture.                                           *)
LEMMA OpenFlows ==
  ASSUME CInv, CInv', FInv, OpenCapture
  PROVE  FInv'
<1> USE DEF OpenCapture, Goto, Fails, MayFail, CaptureStartOK,
    CaptureStartRefused, CaptureStartFailed
<1>1. QuietData
  BY DEF QuietData, FInv, FlowTyped, flags, queues, threads, bounds, history
<1>2. QuietLabels
  BY DEF QuietLabels, CInv, ControlTyped, LabelsTyped, BackInTurn, AfterStart,
      WorkerLabels, CallerLabels, Opening, threads, queues, FInv, FlowTyped
<1>3. QuietFlags
  BY DEF QuietFlags, CInv, ControlTyped, LabelsTyped, FlagsTyped, StopsInTurn,
      BackInTurn, AfterStart, WorkerLabels, CallerLabels, Cut, flags, threads
<1>4. QuietRaw
  BY DEF QuietRaw, RawOwed, Opening, Released, CInv, ControlTyped,
      LabelsTyped, CaptureTypeOK, AfterStart, CaptureInTurn, BackendOwned,
      ShutsInOrder, Past, FInv, RawStart, captureVars, flags, queues, threads,
      history
<1>5. QuietEnd
  BY DEF QuietEnd, FInv, FlowTyped, Draining, Emptied, CInv, ControlTyped,
      LabelsTyped, FlagsTyped, StopsInTurn, BackInTurn, FinishedOnce,
      WorkerLabels, CallerLabels, flags, queues, threads, history
<1>q. QED
  BY <1>1, <1>2, <1>3, <1>4, <1>5, QuietFlows DEF CInv, ControlTyped

(* The session is ready.                                                    *)
LEMMA OpenedFlows ==
  ASSUME CInv, CInv', FInv, Opened
  PROVE  FInv'
<1> USE DEF Opened, Goto, Fails, MayFail
<1>1. QuietData
  BY DEF QuietData, FInv, FlowTyped, flags, queues, threads, bounds, history
<1>2. QuietLabels
  BY DEF QuietLabels, CInv, ControlTyped, LabelsTyped, BackInTurn, AfterStart,
      WorkerLabels, CallerLabels, Opening, threads, queues, FInv, FlowTyped
<1>3. QuietFlags
  BY DEF QuietFlags, CInv, ControlTyped, LabelsTyped, FlagsTyped, StopsInTurn,
      BackInTurn, AfterStart, WorkerLabels, CallerLabels, Cut, flags, threads
<1>4. QuietRaw
  BY DEF QuietRaw, RawOwed, Opening, Released, CInv, ControlTyped,
      LabelsTyped, CaptureTypeOK, AfterStart, CaptureInTurn, BackendOwned,
      ShutsInOrder, Past, FInv, RawStart, captureVars, flags, queues, threads,
      history
<1>5. QuietEnd
  BY DEF QuietEnd, FInv, FlowTyped, Draining, Emptied, CInv, ControlTyped,
      LabelsTyped, FlagsTyped, StopsInTurn, BackInTurn, FinishedOnce,
      WorkerLabels, CallerLabels, flags, queues, threads, history
<1>q. QED
  BY <1>1, <1>2, <1>3, <1>4, <1>5, QuietFlows DEF CInv, ControlTyped

(* The flows' timers.                                                       *)
LEMMA ClockFlows ==
  ASSUME CInv, CInv', FInv, ServiceClock
  PROVE  FInv'
<1> USE DEF ServiceClock, Goto, Fails, MayFail
<1>1. QuietData
  BY DEF QuietData, FInv, FlowTyped, flags, queues, threads, bounds, history
<1>2. QuietLabels
  BY DEF QuietLabels, CInv, ControlTyped, LabelsTyped, BackInTurn, AfterStart,
      WorkerLabels, CallerLabels, Opening, threads, queues, FInv, FlowTyped
<1>3. QuietFlags
  BY DEF QuietFlags, CInv, ControlTyped, LabelsTyped, FlagsTyped, StopsInTurn,
      BackInTurn, AfterStart, WorkerLabels, CallerLabels, Cut, flags, threads
<1>4. QuietRaw
  BY DEF QuietRaw, RawOwed, Opening, Released, CInv, ControlTyped,
      LabelsTyped, CaptureTypeOK, AfterStart, CaptureInTurn, BackendOwned,
      ShutsInOrder, Past, FInv, RawStart, captureVars, flags, queues, threads,
      history
<1>5. QuietEnd
  BY DEF QuietEnd, FInv, FlowTyped, Draining, Emptied, CInv, ControlTyped,
      LabelsTyped, FlagsTyped, StopsInTurn, BackInTurn, FinishedOnce,
      WorkerLabels, CallerLabels, flags, queues, threads, history
<1>q. QED
  BY <1>1, <1>2, <1>3, <1>4, <1>5, QuietFlows DEF CInv, ControlTyped

(* The capture is stopped.                                                  *)
LEMMA ShutCaptureFlows ==
  ASSUME CInv, CInv', FInv, NEW t \in Deciders, ShutdownCapture(t)
  PROVE  FInv'
<1> USE DEF ShutdownCapture, Goto, Fails, MayFail, Leave, NativeIncomplete,
    CaptureStop, ShutdownOutcome, ShutdownBackend
<1>1. QuietData
  BY DEF QuietData, FInv, FlowTyped, flags, queues, threads, bounds, history
<1>2. QuietLabels
  BY DEF QuietLabels, CInv, ControlTyped, LabelsTyped, BackInTurn, AfterStart,
      WorkerLabels, CallerLabels, Opening, threads, queues, FInv, FlowTyped
<1>3. QuietFlags
  BY DEF QuietFlags, CInv, ControlTyped, LabelsTyped, FlagsTyped, StopsInTurn,
      BackInTurn, AfterStart, WorkerLabels, CallerLabels, Cut, flags, threads
<1>4. QuietRaw
  BY DEF QuietRaw, RawOwed, Opening, Released, CInv, ControlTyped,
      LabelsTyped, CaptureTypeOK, AfterStart, CaptureInTurn, BackendOwned,
      ShutsInOrder, Past, FInv, RawStart, captureVars, flags, queues, threads,
      history
<1>5. QuietEnd
  BY DEF QuietEnd, FInv, FlowTyped, Draining, Emptied, CInv, ControlTyped,
      LabelsTyped, FlagsTyped, StopsInTurn, BackInTurn, FinishedOnce,
      WorkerLabels, CallerLabels, flags, queues, threads, history
<1>q. QED
  BY <1>1, <1>2, <1>3, <1>4, <1>5, QuietFlows DEF CInv, ControlTyped

(* The final statistics.                                                    *)
LEMMA StatsFlows ==
  ASSUME CInv, CInv', FInv, NEW t \in Deciders, FinalStats(t)
  PROVE  FInv'
<1> USE DEF FinalStats, Goto, Fails, MayFail
<1>1. QuietData
  BY DEF QuietData, FInv, FlowTyped, flags, queues, threads, bounds, history
<1>2. QuietLabels
  BY DEF QuietLabels, CInv, ControlTyped, LabelsTyped, BackInTurn, AfterStart,
      WorkerLabels, CallerLabels, Opening, threads, queues, FInv, FlowTyped
<1>3. QuietFlags
  BY DEF QuietFlags, CInv, ControlTyped, LabelsTyped, FlagsTyped, StopsInTurn,
      BackInTurn, AfterStart, WorkerLabels, CallerLabels, Cut, flags, threads
<1>4. QuietRaw
  BY DEF QuietRaw, RawOwed, Opening, Released, CInv, ControlTyped,
      LabelsTyped, CaptureTypeOK, AfterStart, CaptureInTurn, BackendOwned,
      ShutsInOrder, Past, FInv, RawStart, captureVars, flags, queues, threads,
      history
<1>5. QuietEnd
  BY DEF QuietEnd, FInv, FlowTyped, Draining, Emptied, CInv, ControlTyped,
      LabelsTyped, FlagsTyped, StopsInTurn, BackInTurn, FinishedOnce,
      WorkerLabels, CallerLabels, flags, queues, threads, history
<1>q. QED
  BY <1>1, <1>2, <1>3, <1>4, <1>5, QuietFlows DEF CInv, ControlTyped

(* The session is stopped.                                                  *)
LEMMA SettleFlows ==
  ASSUME CInv, CInv', FInv, NEW t \in Deciders, Settle(t)
  PROVE  FInv'
<1> USE DEF Settle, Goto, Fails, MayFail, Leave
<1>1. QuietData
  BY DEF QuietData, FInv, FlowTyped, flags, queues, threads, bounds, history
<1>2. QuietLabels
  BY DEF QuietLabels, CInv, ControlTyped, LabelsTyped, BackInTurn, AfterStart,
      WorkerLabels, CallerLabels, Opening, threads, queues, FInv, FlowTyped
<1>3. QuietFlags
  BY DEF QuietFlags, CInv, ControlTyped, LabelsTyped, FlagsTyped, StopsInTurn,
      BackInTurn, AfterStart, WorkerLabels, CallerLabels, Cut, flags, threads
<1>4. QuietRaw
  BY DEF QuietRaw, RawOwed, Opening, Released, CInv, ControlTyped,
      LabelsTyped, CaptureTypeOK, AfterStart, CaptureInTurn, BackendOwned,
      ShutsInOrder, Past, FInv, RawStart, captureVars, flags, queues, threads,
      history
<1>5. QuietEnd
  BY DEF QuietEnd, FInv, FlowTyped, Draining, Emptied, CInv, ControlTyped,
      LabelsTyped, FlagsTyped, StopsInTurn, BackInTurn, FinishedOnce,
      WorkerLabels, CallerLabels, flags, queues, threads, history
<1>q. QED
  BY <1>1, <1>2, <1>3, <1>4, <1>5, QuietFlows DEF CInv, ControlTyped

(* stop(), outside of the shutdown.                                         *)
LEMMA StopFlows ==
  ASSUME CInv, CInv', FInv, NEW t \in Callers,
         \/ StopCall(t) \/ StopLock(t) \/ JoinWorker(t) \/ GiveUp(t)
         \/ RetryShutdown(t) \/ StopReturns(t)
  PROVE  FInv'
<1> USE DEF StopCall, StopLock, JoinWorker, GiveUp, RetryShutdown,
    StopReturns, Goto, Fails, MayFail, Joined, MustRetry
<1>1. QuietData
  BY DEF QuietData, FInv, FlowTyped, flags, queues, threads, bounds, history
<1>2. QuietLabels
  BY DEF QuietLabels, CInv, ControlTyped, LabelsTyped, BackInTurn, AfterStart,
      WorkerLabels, CallerLabels, Opening, threads, queues, FInv, FlowTyped
<1>3. QuietFlags
  BY DEF QuietFlags, CInv, ControlTyped, LabelsTyped, FlagsTyped, StopsInTurn,
      BackInTurn, AfterStart, WorkerLabels, CallerLabels, Cut, flags, threads
<1>4. QuietRaw
  BY DEF QuietRaw, RawOwed, Opening, Released, CInv, ControlTyped,
      LabelsTyped, CaptureTypeOK, AfterStart, CaptureInTurn, BackendOwned,
      ShutsInOrder, Past, FInv, RawStart, captureVars, flags, queues, threads,
      history
<1>5. QuietEnd
  BY DEF QuietEnd, FInv, FlowTyped, Draining, Emptied, CInv, ControlTyped,
      LabelsTyped, FlagsTyped, StopsInTurn, BackInTurn, FinishedOnce,
      WorkerLabels, CallerLabels, flags, queues, threads, history
<1>q. QED
  BY <1>1, <1>2, <1>3, <1>4, <1>5, QuietFlows DEF CInv, ControlTyped

(* The decoder is finished.                                                 *)
LEMMA FinishFlows ==
  ASSUME CInv, CInv', FInv, NEW t \in Deciders, FinishDecoder(t)
  PROVE  FInv'
<1> USE DEF FinishDecoder, Goto, Fails, MayFail, MayFinish
<1>1. QuietData
  BY DEF QuietData, FInv, FlowTyped, flags, queues, threads, bounds, history
<1>2. QuietLabels
  BY DEF QuietLabels, CInv, ControlTyped, LabelsTyped, BackInTurn, AfterStart,
      WorkerLabels, CallerLabels, Opening, threads, queues, FInv, FlowTyped
<1>3. QuietFlags
  BY DEF QuietFlags, CInv, ControlTyped, LabelsTyped, FlagsTyped, StopsInTurn,
      BackInTurn, AfterStart, WorkerLabels, CallerLabels, Cut, flags, threads
<1>4. QuietRaw
  BY DEF QuietRaw, RawOwed, Opening, Released, CInv, ControlTyped,
      LabelsTyped, CaptureTypeOK, AfterStart, CaptureInTurn, BackendOwned,
      ShutsInOrder, Past, FInv, RawStart, captureVars, flags, queues, threads,
      history
<1>5. QuietEnd
  BY DEF QuietEnd, FInv, FlowTyped, Draining, Emptied, CInv, ControlTyped,
      LabelsTyped, FlagsTyped, StopsInTurn, BackInTurn, FinishedOnce,
      WorkerLabels, CallerLabels, flags, queues, threads, history
<1>q. QED
  BY <1>1, <1>2, <1>3, <1>4, <1>5, QuietFlows DEF CInv, ControlTyped

(* The raw file is closed.                                                  *)
LEMMA CloseFlows ==
  ASSUME CInv, CInv', FInv, NEW t \in Deciders, CloseWriter(t)
  PROVE  FInv'
<1> USE DEF CloseWriter, Goto, Fails, MayFail, Leave
<1>1. QuietData
  BY DEF QuietData, FInv, FlowTyped, flags, queues, threads, bounds, history
<1>2. QuietLabels
  BY DEF QuietLabels, CInv, ControlTyped, LabelsTyped, BackInTurn, AfterStart,
      WorkerLabels, CallerLabels, Opening, threads, queues, FInv, FlowTyped
<1>3. QuietFlags
  BY DEF QuietFlags, CInv, ControlTyped, LabelsTyped, FlagsTyped, StopsInTurn,
      BackInTurn, AfterStart, WorkerLabels, CallerLabels, Cut, flags, threads
<1>4. QuietRaw
  BY OneInside DEF QuietRaw, RawOwed, Opening, Released, CInv, ControlTyped,
      LabelsTyped, CaptureTypeOK, AfterStart, CaptureInTurn, BackendOwned,
      ShutsInOrder, Past, FInv, RawStart, captureVars, flags, queues, threads,
      history, Draining, Emptied, InProcess, DecidesAlone
<1>5. QuietEnd
  BY DEF QuietEnd, FInv, FlowTyped, Draining, Emptied, CInv, ControlTyped,
      LabelsTyped, FlagsTyped, StopsInTurn, BackInTurn, FinishedOnce,
      WorkerLabels, CallerLabels, flags, queues, threads, history
<1>q. QED
  BY <1>1, <1>2, <1>3, <1>4, <1>5, QuietFlows DEF CInv, ControlTyped

(* The source ends.                                                         *)
LEMMA SourceFlows ==
  ASSUME CInv, CInv', FInv, SourceEnds
  PROVE  FInv'
<1> USE DEF SourceEnds, CaptureEnds, Goto, Fails, MayFail
<1>1. QuietData
  BY DEF QuietData, FInv, FlowTyped, flags, queues, threads, bounds, history
<1>2. QuietLabels
  BY DEF QuietLabels, CInv, ControlTyped, LabelsTyped, BackInTurn, AfterStart,
      WorkerLabels, CallerLabels, Opening, threads, queues, FInv, FlowTyped
<1>3. QuietFlags
  BY DEF QuietFlags, CInv, ControlTyped, LabelsTyped, FlagsTyped, StopsInTurn,
      BackInTurn, AfterStart, WorkerLabels, CallerLabels, Cut, flags, threads
<1>4. QuietRaw
  BY DEF QuietRaw, RawOwed, Opening, Released, CInv, ControlTyped,
      LabelsTyped, CaptureTypeOK, AfterStart, CaptureInTurn, BackendOwned,
      ShutsInOrder, Past, FInv, RawStart, captureVars, flags, queues, threads,
      history
<1>5. QuietEnd
  BY DEF QuietEnd, FInv, FlowTyped, Draining, Emptied, CInv, ControlTyped,
      LabelsTyped, FlagsTyped, StopsInTurn, BackInTurn, FinishedOnce,
      WorkerLabels, CallerLabels, flags, queues, threads, history
<1>q. QED
  BY <1>1, <1>2, <1>3, <1>4, <1>5, QuietFlows DEF CInv, ControlTyped

(* The facade asks, or is cancelled.                                        *)
LEMMA FacadeFlows ==
  ASSUME CInv, CInv', FInv, AsyncPoll \/ AsyncCancel
  PROVE  FInv'
<1> USE DEF AsyncPoll, AsyncCancel, Goto, Fails, MayFail, Ends
<1>1. QuietData
  BY DEF QuietData, FInv, FlowTyped, flags, queues, threads, bounds, history
<1>2. QuietLabels
  BY DEF QuietLabels, CInv, ControlTyped, LabelsTyped, BackInTurn, AfterStart,
      WorkerLabels, CallerLabels, Opening, threads, queues, FInv, FlowTyped
<1>3. QuietFlags
  BY DEF QuietFlags, CInv, ControlTyped, LabelsTyped, FlagsTyped, StopsInTurn,
      BackInTurn, AfterStart, WorkerLabels, CallerLabels, Cut, flags, threads
<1>4. QuietRaw
  BY DEF QuietRaw, RawOwed, Opening, Released, CInv, ControlTyped,
      LabelsTyped, CaptureTypeOK, AfterStart, CaptureInTurn, BackendOwned,
      ShutsInOrder, Past, FInv, RawStart, captureVars, flags, queues, threads,
      history
<1>5. QuietEnd
  BY DEF QuietEnd, FInv, FlowTyped, Draining, Emptied, CInv, ControlTyped,
      LabelsTyped, FlagsTyped, StopsInTurn, BackInTurn, FinishedOnce,
      WorkerLabels, CallerLabels, flags, queues, threads, history
<1>q. QED
  BY <1>1, <1>2, <1>3, <1>4, <1>5, QuietFlows DEF CInv, ControlTyped

(* The readers pass on what they have.                                      *)
LEMMA ReaderFlows ==
  ASSUME CInv, CInv', FInv,
         \/ PollCall \/ PollCheck \/ PollLook \/ PollTimeout \/ PollHave
         \/ Iterate \/ AsyncSlice \/ AsyncLast \/ StopSettled \/ PollSettled
  PROVE  FInv'
<1> USE DEF PollCall, PollCheck, PollLook, PollTimeout, PollHave, Iterate,
    AsyncSlice, SliceLooksAgain, AsyncLast, StopSettled, PollSettled, Goto,
    Fails, MayFail, Ends, Answered
<1>1. QuietData
  BY DEF QuietData, FInv, FlowTyped, flags, queues, threads, bounds, history
<1>2. QuietLabels
  BY DEF QuietLabels, CInv, ControlTyped, LabelsTyped, BackInTurn, AfterStart,
      WorkerLabels, CallerLabels, Opening, threads, queues, FInv, FlowTyped
<1>3. QuietFlags
  BY DEF QuietFlags, CInv, ControlTyped, LabelsTyped, FlagsTyped, StopsInTurn,
      BackInTurn, AfterStart, WorkerLabels, CallerLabels, Cut, flags, threads
<1>4. QuietRaw
  BY DEF QuietRaw, RawOwed, Opening, Released, CInv, ControlTyped,
      LabelsTyped, CaptureTypeOK, AfterStart, CaptureInTurn, BackendOwned,
      ShutsInOrder, Past, FInv, RawStart, captureVars, flags, queues, threads,
      history
<1>5. QuietEnd
  BY DEF QuietEnd, FInv, FlowTyped, Draining, Emptied, CInv, ControlTyped,
      LabelsTyped, FlagsTyped, StopsInTurn, BackInTurn, FinishedOnce,
      WorkerLabels, CallerLabels, flags, queues, threads, history
<1>q. QED
  BY <1>1, <1>2, <1>3, <1>4, <1>5, QuietFlows DEF CInv, ControlTyped

(* poll takes an observation that is published.                             *)
LEMMA GetFlows ==
  ASSUME CInv, CInv', FInv, PollGet
  PROVE  FInv'
<1> USE DEF PollGet, Goto
<1>1. UNCHANGED <<packetQueue, accepted, held, published, written, sent, finished,
                  writeFailed, writerOpen, stopRequested, failed, back, started>>
      /\ UNCHANGED captureVars
  BY DEF flags, bounds, history
<1>2. /\ queue' \in Seq(Packets) /\ Len(queue') <= Len(queue)
      /\ at' \in [Threads -> Packets \cup {None}]
      /\ \A t \in Threads \ {"consumer"} : at'[t] = at[t]
  <2>1. queue \in Seq(Packets) /\ at \in [Threads -> Packets \cup {None}]
    BY DEF FInv, FlowTyped
  <2>2. CASE TakeEvent
    BY <2>1, <2>2, HeadTail DEF TakeEvent
  <2>3. CASE UNCHANGED <<at, queue>>
    BY <2>1, <2>3
  <2>q. QED BY <2>2, <2>3
<1>3. \A t \in Threads \ {"consumer"} : pc'[t] = pc[t]
  BY DEF TakeEvent, CInv, ControlTyped, LabelsTyped
<1> HIDE DEF PollGet, Goto
<1>4. QuietData
  BY <1>1, <1>2 DEF QuietData
<1>5. QuietLabels
  BY <1>1, <1>3 DEF QuietLabels, FInv, FlowTyped
<1>6. QuietFlags
  BY <1>1, <1>3 DEF QuietFlags, Cut
<1>7. QuietRaw
  BY <1>1, <1>3 DEF QuietRaw, RawOwed, Opening, Released, captureVars
<1>8. QuietEnd
  BY <1>1, <1>3 DEF QuietEnd, FInv, Draining, Emptied
<1>q. QED
  BY <1>4, <1>5, <1>6, <1>7, <1>8, QuietFlows DEF CInv, ControlTyped

(* The worker opens the raw file.                                           *)
LEMMA BootFlows ==
  ASSUME CInv, CInv', FInv, Boot
  PROVE  FInv'
<1> USE DEF FInv, Boot, Goto
<1>1. /\ UNCHANGED <<packetQueue, accepted, held, published, written, sent, finished, queue,
                     at, back, started>>
      /\ UNCHANGED captureVars
  BY DEF queues, bounds, history
<1>2. pc["worker"] = "boot" /\ pc'["worker"] \in {"open", "shutdown"}
      /\ \A t \in Threads \ {"worker"} : pc'[t] = pc[t]
  BY DEF CInv, ControlTyped, LabelsTyped
<1>3. /\ pc'["worker"] = "open" => writerOpen' = SaveRaw /\ UNCHANGED <<failed, stopRequested>>
      /\ pc'["worker"] = "shutdown" => Fails
      /\ failed => failed'
  BY <1>2 DEF CInv, ControlTyped, LabelsTyped, FlagsTyped, Fails
<1> HIDE DEF Boot, Goto
<1>4. packetQueue = <<>> /\ accepted = <<>> /\ written = <<>> /\ published = <<>> /\ held = <<>>
  BY <1>2 DEF RawStart, Arrivals, Opening, FlowTyped
<1>5. ~InProcess /\ ~InProcess'
  BY <1>2, <1>3 DEF InProcess, CInv, ControlTyped, LabelsTyped, StopsInTurn,
      WorkerDead, CallerLabels
<1>6. Dequeued = 0 /\ Dequeued' = 0 /\ Hand' = 0
  BY <1>1, <1>4, <1>5 DEF Dequeued, Hand
<1>7. FlowTyped'
  BY <1>1, <1>2 DEF FlowTyped
<1>8. Arrivals'
  BY <1>1, <1>2, <1>3, <1>6 DEF Arrivals, Run, Fails, InProcess, Dequeued
<1>9. Decoding'
  BY <1>1, <1>4, <1>6 DEF Decoding, Run
<1>10. Draining'
  BY <1>1, <1>2, <1>4 DEF Draining, Emptied
<1>11. Raw'
  <2>1. pc'["worker"] = "shutdown" => ~RawOwed'
    BY <1>1, <1>2, <1>3 DEF RawOwed, Fails, CInv, AfterStart
  <2>2. pc'["worker"] = "open" /\ RawOwed' => writerOpen'
    BY <1>3 DEF RawOwed
  <2>q. QED BY <1>1, <1>2, <1>4, <1>6, <2>1, <2>2 DEF Raw, Run
<1>12. RawStart'
  BY <1>1, <1>2, <1>3, <1>4 DEF RawStart, Opening
<1>q. QED BY <1>7, <1>8, <1>9, <1>10, <1>11, <1>12

(* A packet reaches the callback.                                           *)
LEMMA ArrivesFlows ==
  ASSUME CInv, CInv', FInv, PacketArrives
  PROVE  FInv'
<1> USE DEF FInv, PacketArrives, Goto
<1>1. /\ UNCHANGED <<packetQueue, accepted, held, published, written, finished, queue, back,
                     started, failed, stopRequested, writerOpen, writeFailed>>
      /\ UNCHANGED captureVars
  BY DEF queues, flags, history
<1>2. /\ \A t \in Threads \ {"sniffer"} : pc'[t] = pc[t] /\ at'[t] = at[t]
      /\ pc["sniffer"] = "idle" /\ pc'["sniffer"] = "put" /\ at'["sniffer"] = sent + 1
      /\ sent' = sent + 1 /\ sent < MaxPackets /\ ~stopRequested
      /\ at' \in [Threads -> Packets \cup {None}]
  <2>1. sent \in 0..MaxPackets /\ sent < MaxPackets /\ sent' = sent + 1 /\ ~stopRequested
    BY DEF FlowTyped
  <2>2. sent + 1 \in Packets
    BY <2>1, ObservationConstants DEF Packets
  <2>q. QED BY <2>1, <2>2 DEF CInv, ControlTyped, LabelsTyped, FlowTyped
<1> HIDE DEF PacketArrives, Goto
<1>3. Dequeued' = Dequeued /\ (InProcess' <=> InProcess) /\ Hand' = Hand
  BY <1>1, <1>2 DEF Dequeued, InProcess, Hand
<1>4. FlowTyped'
  <2>1. sent' \in 0..MaxPackets
    BY <1>2, ObservationConstants DEF FlowTyped
  <2>2. pc'["worker"] = pc["worker"]
    BY <1>2
  <2>q. QED BY <1>1, <1>2, <2>1, <2>2 DEF FlowTyped
<1>5. Arrivals'
  BY <1>1, <1>2, <1>3 DEF Arrivals, Run, FlowTyped
<1>6. Decoding'
  BY <1>1, <1>2, <1>3 DEF Decoding, Run, Cut
<1>7. Draining'
  BY <1>1, <1>2 DEF Draining, Emptied
<1>8. Raw'
  BY <1>1, <1>2, <1>3 DEF Raw, RawOwed, Run, Opening, Released, captureVars
<1>9. RawStart'
  BY <1>1, <1>2 DEF RawStart, Opening
<1>q. QED BY <1>4, <1>5, <1>6, <1>7, <1>8, <1>9

(* The callback queues it, while the backend is alive, or ends the session. *)
LEMMA PutFlows ==
  ASSUME CInv, CInv', FInv, PutPacket
  PROVE  FInv'
<1> USE DEF FInv, PutPacket, Goto
<1>1. /\ UNCHANGED <<held, published, written, finished, queue, back, started, writerOpen,
                     writeFailed, sent>>
      /\ UNCHANGED captureVars
  BY DEF bounds
<1>2. /\ \A t \in Threads \ {"sniffer"} : pc'[t] = pc[t] /\ at'[t] = at[t]
      /\ pc["sniffer"] = "put" /\ pc'["sniffer"] = "idle"
      /\ at' \in [Threads -> Packets \cup {None}]
  BY DEF CInv, ControlTyped, LabelsTyped, FlowTyped
<1>3. at["sniffer"] = sent /\ Len(accepted) = sent - 1 /\ sent \in Packets
  BY <1>2, ObservationConstants DEF Arrivals, FlowTyped, Packets
<1>4. \/ /\ Len(packetQueue) < PacketQueueSize
         /\ packetQueue' = Append(packetQueue, sent) /\ accepted' = Append(accepted, sent)
         /\ UNCHANGED <<failed, stopRequested>>
      \/ Fails /\ UNCHANGED <<packetQueue, accepted>>
  BY <1>3
<1> HIDE DEF PutPacket, Goto
<1>5. sniffer = "alive" /\ ~Released
  BY <1>2 DEF CInv, CaptureInTurn, BackendOwned, ControlTyped, CaptureTypeOK, Released
<1>6. pc["worker"] \notin Opening /\ \A t \in Deciders : ~Past(t)
  BY <1>5 DEF CInv, AfterStart, CaptureInTurn, ShutsInOrder, Opening
<1>7. failed => failed'
  BY <1>4 DEF Fails
<1>8. /\ accepted' \in Seq(Packets) /\ packetQueue' \in Seq(Packets)
      /\ Len(packetQueue') <= PacketQueueSize
      /\ Dequeued' = Dequeued /\ Run(accepted', 0) /\ Run(packetQueue', Dequeued)
      /\ Len(packetQueue') <= Len(accepted')
      /\ Len(accepted') = sent \/ (stopRequested' /\ Len(accepted') < sent)
  <2>1. /\ accepted \in Seq(Packets) /\ packetQueue \in Seq(Packets)
        /\ Len(packetQueue) <= PacketQueueSize /\ Len(packetQueue) <= Len(accepted)
        /\ Run(accepted, 0) /\ Run(packetQueue, Dequeued) /\ Dequeued \in Int
        /\ Dequeued = Len(accepted) - Len(packetQueue)
    BY DEF FlowTyped, Arrivals, Dequeued
  <2>2. CASE Fails /\ UNCHANGED <<packetQueue, accepted>>
    BY <2>1, <2>2, <1>3 DEF Dequeued, Fails, Packets
  <2>3. CASE /\ Len(packetQueue) < PacketQueueSize
             /\ packetQueue' = Append(packetQueue, sent) /\ accepted' = Append(accepted, sent)
    <3>1. Run(accepted', 0)
      BY <2>1, <2>3, <1>3, RunAppend DEF Packets
    <3>2. Run(packetQueue', Dequeued)
      BY <2>1, <2>3, <1>3, RunAppend DEF Packets
    <3>3. /\ accepted' \in Seq(Packets) /\ packetQueue' \in Seq(Packets)
          /\ Len(accepted') = Len(accepted) + 1 /\ Len(packetQueue') = Len(packetQueue) + 1
      BY <2>1, <2>3, <1>3
    <3>4. Dequeued' = Dequeued /\ Len(packetQueue') <= PacketQueueSize
          /\ Len(packetQueue') <= Len(accepted') /\ Len(accepted') = sent
      BY <2>1, <2>3, <1>3, <3>3, ObservationConstants DEF Dequeued, Packets
    <3>q. QED BY <3>1, <3>2, <3>3, <3>4
  <2>q. QED BY <1>4, <2>2, <2>3
<1>9. (InProcess' <=> InProcess) /\ Hand' = Hand
  BY <1>2 DEF InProcess, Hand
<1>10. FlowTyped'
  BY <1>1, <1>2, <1>8 DEF FlowTyped
<1>11. Arrivals'
  BY <1>1, <1>2, <1>8 DEF Arrivals
<1>12. Decoding'
  BY <1>1, <1>2, <1>7, <1>8, <1>9 DEF Decoding, Run, Cut
<1>13. Draining'
  <2>1. pc["worker"] = "dead" => failed
    BY <1>5 DEF CInv, CaptureInTurn, NativeOwned, WorkerDead, ErrorsRequestStop
  <2>q. QED BY <2>1, <1>1, <1>2, <1>6, <1>7 DEF Draining, Emptied, Past
<1>14. Raw'
  <2>1. RawOwed' => RawOwed
    BY <1>1, <1>2, <1>7 DEF RawOwed
  <2>q. QED BY <2>1, <1>1, <1>5, <1>8, <1>9 DEF Raw, Run
<1>15. RawStart'
  BY <1>1, <1>2, <1>6 DEF RawStart
<1>q. QED BY <1>10, <1>11, <1>12, <1>13, <1>14, <1>15

(* The worker's loop, or a shutdown, takes a packet from the queue.         *)
Takes(t) ==
    /\ pc[t] \in {"loop", "drain"} /\ packetQueue # <<>>
    /\ at' = [at EXCEPT ![t] = Head(packetQueue)] /\ packetQueue' = Tail(packetQueue)
    /\ pc' = [pc EXCEPT ![t] = "process"]
    /\ \A u \in Deciders : (u = t /\ pc[t] = "loop") \/ back'[u] = back[u]
    /\ UNCHANGED <<captureVars, failed, stopRequested, writerOpen, held, published, accepted,
                   written, finished, queue, started, writeFailed, sent>>

LEMMA TakesFlows ==
  ASSUME CInv, CInv', FInv, NEW t \in Deciders, Takes(t)
  PROVE  FInv'
<1> USE DEF FInv
<1>1. /\ \A u \in Threads \ {t} : pc'[u] = pc[u] /\ at'[u] = at[u]
      /\ pc'[t] = "process" /\ at'[t] = Head(packetQueue)
      /\ \A u \in Deciders \ {t} : pc[u] \notin Inside
  BY OneInside DEF Takes, FlowTyped, CInv, ControlTyped, LabelsTyped, CallerLabels,
      DecidesAlone, StopsInTurn, WorkerDead
<1>2. ~InProcess /\ InProcess' /\ Hand = 0 /\ Hand' = 1
  BY <1>1 DEF InProcess, Hand, Takes
<1>3. /\ Dequeued \in Int /\ Dequeued' = Dequeued + 1 /\ Dequeued' > 0
      /\ packetQueue' \in Seq(Packets) /\ Len(packetQueue') = Len(packetQueue) - 1
      /\ Run(packetQueue', Dequeued') /\ Head(packetQueue) = Dequeued'
      /\ Head(packetQueue) \in Packets
  <2>1. /\ accepted \in Seq(Packets) /\ packetQueue \in Seq(Packets)
        /\ Len(packetQueue) <= Len(accepted) /\ packetQueue # <<>>
        /\ Run(packetQueue, Dequeued) /\ Dequeued = Len(accepted) - Len(packetQueue)
        /\ Dequeued' = Len(accepted) - Len(packetQueue') /\ packetQueue' = Tail(packetQueue)
    BY DEF FlowTyped, Arrivals, Dequeued, Takes
  <2>2. Dequeued \in Int /\ Dequeued >= 0
    BY <2>1
  <2>3. Run(packetQueue', Dequeued + 1) /\ Head(packetQueue) = Dequeued + 1
    BY <2>1, <2>2, RunTail
  <2>q. QED BY <2>1, <2>2, <2>3, HeadTail
<1>4. UNCHANGED <<failed, stopRequested, writerOpen, held, published, accepted, written,
                  finished, queue, started, writeFailed, sent>> /\ UNCHANGED captureVars
  BY DEF Takes
<1>5. FlowTyped'
  BY <1>1, <1>3, <1>4, ObservationConstants DEF FlowTyped, Takes
<1>6. Arrivals'
  BY <1>1, <1>3, <1>4 DEF Arrivals, Run, FlowTyped
<1>7. Decoding'
  <2>1. Cut => Cut'
    BY <1>1, <1>4 DEF Cut, Takes, CInv, BackInTurn
  <2>2. ~failed' => Len(published') + Len(held') + Hand' = Dequeued'
    <3>1. Len(published) \in Nat /\ Len(held) \in Nat
      BY DEF FlowTyped
    <3>2. ~failed => Len(published) + Len(held) + Hand = Dequeued
      BY DEF Decoding
    <3>q. QED BY <1>2, <1>3, <1>4, <3>1, <3>2
  <2>q. QED BY <1>4, <2>1, <2>2 DEF Decoding, Run
<1>8. Draining'
  <2>1. t # "worker" => failed
    BY DEF Takes, CInv, StopsInTurn, ControlTyped, LabelsTyped, CallerLabels
  <2>2. \A u \in Deciders : ~Emptied(u)'
    BY <1>1 DEF Emptied
  <2>q. QED BY <2>1, <2>2, <1>1, <1>4 DEF Draining
<1>9. Raw'
  <2>1. RawOwed' => RawOwed
    BY <1>1, <1>4 DEF RawOwed, Opening, Takes
  <2>2. RawOwed => writerOpen
    BY DEF Raw, Takes
  <2>q. QED BY <2>1, <2>2, <1>2, <1>3, <1>4 DEF Raw, Run, FlowTyped
<1>10. RawStart'
  BY <1>1, <1>4 DEF RawStart, Opening
<1>q. QED BY <1>5, <1>6, <1>7, <1>8, <1>9, <1>10

(* One turn of the loop, which takes a packet only while the session runs.  *)
LEMMA LoopFlows ==
  ASSUME CInv, CInv', FInv, Loop
  PROVE  FInv'
<1>1. CASE Takes("worker")
  BY <1>1, TakesFlows
<1>2. CASE /\ UNCHANGED <<packetQueue, at>> /\ pc["worker"] = "loop"
           /\ pc' \in {[pc EXCEPT !["worker"] = "clock"], [pc EXCEPT !["worker"] = "shutdown"]}
           /\ \A u \in Deciders \ {"worker"} : back'[u] = back[u]
           /\ (failed => failed') /\ (stopRequested => stopRequested')
           /\ UNCHANGED <<captureVars, queue, held, writerOpen, sent, history>>
  <2>1. QuietData
    BY <1>2 DEF QuietData, FInv, FlowTyped, history
  <2>2. QuietLabels
    BY <1>2 DEF QuietLabels, CInv, ControlTyped, LabelsTyped, Opening
  <2>3. QuietFlags
    BY <1>2 DEF QuietFlags, Cut
  <2>4. QuietRaw
    BY <1>2 DEF QuietRaw, RawOwed, Opening, Released, captureVars, history, CInv,
        ControlTyped, LabelsTyped
  <2>5. QuietEnd
    BY <1>2 DEF QuietEnd, FInv, Draining, Emptied, CInv, ControlTyped, LabelsTyped, history
  <2>q. QED
    BY <2>1, <2>2, <2>3, <2>4, <2>5, QuietFlows DEF CInv, ControlTyped
<1>q. QED
  <2> USE DEF Loop, Goto
  <2>1. UNCHANGED <<captureVars, queue, held, writerOpen, sent, history>>
    BY DEF history
  <2>2. CASE pc' = [pc EXCEPT !["worker"] = "process"]
    BY <2>1, <2>2, <1>1 DEF Takes, CInv, ControlTyped, LabelsTyped, history
  <2>3. CASE pc' # [pc EXCEPT !["worker"] = "process"]
    BY <2>1, <2>3, <1>2 DEF Fails, CInv, ControlTyped, LabelsTyped
  <2>q. QED BY <2>2, <2>3

(* _drain_packets takes the next packet, until there is none.               *)
LEMMA DrainFlows ==
  ASSUME CInv, CInv', FInv, NEW t \in Deciders, Drain(t)
  PROVE  FInv'
<1> USE DEF Drain, Drained, Goto
<1>1. CASE packetQueue # <<>>
  <2>1. Takes(t)
    BY <1>1 DEF Takes, flags, bounds, history
  <2>q. QED BY <2>1, TakesFlows
<1>2. CASE packetQueue = <<>>
  <2>0. pc' = [pc EXCEPT ![t] = "finish"] /\ UNCHANGED <<packetQueue, at>>
        /\ pc[t] = "drain" /\ pc \in [Threads -> Labels]
    BY <1>2 DEF CInv, ControlTyped, LabelsTyped
  <2>1. QuietData
    BY <1>2, <2>0 DEF QuietData, FInv, FlowTyped, bounds, history
  <2>2. QuietLabels
    BY <2>0 DEF QuietLabels, Opening, FInv, FlowTyped
  <2>3. QuietFlags
    <3>1. UNCHANGED <<failed, stopRequested, back>>
      BY DEF flags
    <3>q. QED BY <2>0, <3>1 DEF QuietFlags, Cut
  <2>4. QuietRaw
    BY <2>0 DEF QuietRaw, RawOwed, Opening, Released, captureVars, flags, history
  <2>5. QuietEnd
    BY <1>2, <2>0 DEF QuietEnd, FInv, Draining, Emptied, CInv, StopsInTurn, flags, history
  <2>q. QED
    BY <2>1, <2>2, <2>3, <2>4, <2>5, QuietFlows DEF CInv, ControlTyped
<1>q. QED BY <1>1, <1>2

(* A packet is kept, and decoded unless the session has failed.             *)
LEMMA ProcessFlows ==
  ASSUME CInv, CInv', FInv, NEW t \in Deciders, Process(t)
  PROVE  FInv'
<1> DEFINE p == at[t]
<1> USE DEF FInv
<1>1. /\ UNCHANGED <<packetQueue, accepted, published, sent, finished, queue, writerOpen,
                     started, back, stopped>>
      /\ UNCHANGED captureVars
      /\ pc[t] = "process"
  BY DEF Process, bounds
<1>2. /\ \A u \in Threads \ {t} : pc'[u] = pc[u] /\ at'[u] = at[u]
      /\ pc'[t] \in {"publish", "loop", "shutdown", "drain"}
      /\ back[t] = "drain" => pc'[t] \in {"publish", "drain"}
      /\ at' \in [Threads -> Packets \cup {None}]
      /\ t # "worker" => back[t] = "drain"
  BY DEF Process, Goto, Handler, FlowTyped, CInv, ControlTyped, LabelsTyped, BackInTurn
<1>3. \A u \in Deciders \ {t} : pc[u] \notin Inside
  BY <1>1, OneInside DEF DecidesAlone
<1>4. /\ InProcess /\ ~InProcess' /\ Hand = 1 /\ Hand' = 0 /\ Dequeued' = Dequeued
  BY <1>1, <1>2, <1>3 DEF InProcess, Hand, Dequeued
<1>5. /\ p = Dequeued /\ p \in Packets /\ Dequeued \in Int /\ Dequeued > 0
      /\ held \in Seq(Packets) /\ published \in Seq(Packets) /\ written \in Seq(Packets)
  <2>1. /\ held \in Seq(Packets) /\ published \in Seq(Packets) /\ written \in Seq(Packets)
        /\ packetQueue \in Seq(Packets) /\ accepted \in Seq(Packets)
        /\ p \in Packets \cup {None}
    BY DEF FlowTyped
  <2>2. p = Dequeued /\ Dequeued > 0
    BY <1>1 DEF Arrivals
  <2>3. Dequeued \in Int
    BY <2>1 DEF Dequeued
  <2>q. QED BY <2>1, <2>2, <2>3, ObservationConstants
<1>6. \/ /\ Fails /\ writeFailed' = TRUE /\ pc'[t] # "publish"
         /\ UNCHANGED <<held, written>>
      \/ /\ writeFailed' = writeFailed
         /\ written' = IF writerOpen THEN Append(written, p) ELSE written
         /\ \/ failed /\ pc'[t] # "publish" /\ UNCHANGED <<failed, stopRequested, held>>
            \/ ~failed /\ held' = Append(held, p) /\ UNCHANGED <<failed, stopRequested>>
            \/ ~failed /\ Fails /\ pc'[t] # "publish" /\ held' = held
  BY <1>1 DEF Process, MayDecode, Writes, Goto, Handler, CInv, ControlTyped, LabelsTyped,
      BackInTurn
<1>7. (failed => failed') /\ (stopRequested => stopRequested')
  BY <1>6 DEF Fails
<1>8. held' \in Seq(Packets) /\ written' \in Seq(Packets)
  <2>1. Append(held, p) \in Seq(Packets) /\ Append(written, p) \in Seq(Packets)
    BY <1>5
  <2>q. QED BY <1>5, <1>6, <2>1
<1>9. FlowTyped'
  <2>1. pc'["worker"] = "publish" => held' # <<>>
    BY <1>1, <1>2, <1>3, <1>5, <1>6
  <2>q. QED BY <1>1, <1>2, <1>8, <2>1 DEF FlowTyped
<1>10. Arrivals'
  BY <1>1, <1>2, <1>4, <1>7 DEF Arrivals, InProcess, Run
<1>11. Decoding'
  <2>1. Cut => Cut'
    <3>1. failed => pc'[t] # "publish"
      BY <1>6
    <3>q. QED BY <1>1, <1>2, <1>7, <3>1 DEF Cut, CInv, BackInTurn
  <2>2. CASE ~failed /\ held' = Append(held, p)
    <3>1. Run(held, Len(published)) /\ Len(published) + Len(held) + 1 = p
          /\ Len(published) \in Int /\ Len(held) \in Nat
      BY <2>2, <1>4, <1>5 DEF Decoding, Cut
    <3>2. Run(held', Len(published)) /\ Len(held') = Len(held) + 1
      BY <2>2, <3>1, <1>5, RunAppend
    <3>q. QED BY <3>1, <3>2, <1>1, <1>4, <1>5 DEF Decoding
  <2>3. CASE held' = held /\ failed'
    BY <2>1, <2>3, <1>1 DEF Decoding, Run
  <2>q. QED BY <2>2, <2>3, <1>6 DEF Fails
<1>12. Draining'
  <2>1. \A u \in Deciders : ~Emptied(u)'
    BY <1>2, <1>3, <1>1 DEF Emptied, CInv, BackInTurn
  <2>2. t # "worker" => failed
    BY <1>1 DEF CInv, StopsInTurn
  <2>q. QED BY <2>1, <2>2, <1>1, <1>2, <1>7 DEF Draining, CInv, BackInTurn
<1>13. Raw'
  <2>1. RawOwed' => RawOwed /\ writeFailed' = writeFailed
    BY <1>1, <1>2, <1>6, <1>7 DEF RawOwed, Opening
  <2>2. RawOwed => writerOpen /\ Run(written, 0) /\ Len(written) + 1 = Dequeued
    BY <1>4 DEF Raw
  <2>3. RawOwed' => written' = Append(written, p)
    BY <2>1, <2>2, <1>6 DEF RawOwed
  <2>4. RawOwed' => Run(written', 0) /\ Len(written') = Dequeued
    <3>1. RawOwed => p = 0 + Len(written) + 1
      BY <2>2, <1>5
    <3>2. RawOwed => Run(Append(written, p), 0)
      BY <2>2, <3>1, <1>5, RunAppend
    <3>3. Len(Append(written, p)) = Len(written) + 1
      BY <1>5
    <3>q. QED BY <2>1, <2>2, <2>3, <3>2, <3>3
  <2>q. QED BY <2>1, <2>2, <2>4, <1>1, <1>4, <1>8 DEF Raw
<1>14. RawStart'
  <2>1. pc["worker"] \notin Opening
    BY <1>5 DEF RawStart, FlowTyped, Dequeued
  <2>q. QED BY <2>1, <1>1, <1>2, <1>3 DEF RawStart, Opening
<1>q. QED BY <1>9, <1>10, <1>11, <1>12, <1>13, <1>14

(* An observation is published, in its turn, or lost with the session.      *)
LEMMA PublishFlows ==
  ASSUME CInv, CInv', FInv, NEW t \in Deciders, Publish(t)
  PROVE  FInv'
<1> USE DEF FInv
<1>0. t = "worker" /\ pc["worker"] = "publish" /\ held # <<>>
  BY DEF Publish, CInv, BackInTurn, FlowTyped
<1>1. /\ UNCHANGED <<packetQueue, accepted, sent, finished, writerOpen, written, writeFailed,
                     started, back, at>>
      /\ UNCHANGED captureVars
  BY DEF Publish, bounds
<1>2. /\ \A u \in Threads \ {"worker"} : pc'[u] = pc[u]
      /\ held' = Tail(held) /\ (failed => failed') /\ (stopRequested => stopRequested')
      /\ back["worker"] \in {"loop", "drain", "close"}
  BY <1>0 DEF Publish, Goto, Fails, CInv, ControlTyped, LabelsTyped
<1>3. \/ /\ queue' = Append(queue, Head(held)) /\ published' = Append(published, Head(held))
         /\ Len(queue) < EventQueueSize
         /\ pc'["worker"] = IF Len(held) = 1 THEN back["worker"] ELSE "publish"
         /\ UNCHANGED <<failed, stopRequested>>
      \/ /\ Fails /\ UNCHANGED <<queue, published>>
         /\ pc'["worker"] = IF back["worker"] = "loop" THEN "shutdown" ELSE back["worker"]
  BY <1>0 DEF Publish, Goto, Handler, CInv, ControlTyped, LabelsTyped
<1>4. Head(held) \in Packets /\ held' \in Seq(Packets) /\ Len(held') = Len(held) - 1
      /\ Len(held) \in Nat /\ Len(held) > 0
  BY <1>0, <1>2, HeadTail DEF FlowTyped
<1>5. \A u \in Deciders \ {"worker"} : pc[u] \notin Inside
  BY <1>0, OneInside DEF DecidesAlone
<1>6. ~InProcess /\ ~InProcess' /\ Hand = 0 /\ Hand' = 0 /\ Dequeued' = Dequeued
  BY <1>0, <1>1, <1>2, <1>3, <1>5 DEF InProcess, Hand, Dequeued
<1>7. FlowTyped'
  <2>1. pc'["worker"] = "publish" => held' # <<>>
    BY <1>2, <1>3, <1>4
  <2>2. queue' \in Seq(Packets) /\ Len(queue') <= EventQueueSize /\ published' \in Seq(Packets)
    <3>1. Append(queue, Head(held)) \in Seq(Packets)
          /\ Len(Append(queue, Head(held))) = Len(queue) + 1
          /\ Append(published, Head(held)) \in Seq(Packets)
          /\ Len(queue) \in Nat /\ Len(queue) <= EventQueueSize
          /\ queue \in Seq(Packets) /\ published \in Seq(Packets)
      BY <1>4 DEF FlowTyped
    <3>2. \/ Len(queue) < EventQueueSize /\ queue' = Append(queue, Head(held))
             /\ published' = Append(published, Head(held))
          \/ UNCHANGED <<queue, published>>
      BY <1>3
    <3>3. EventQueueSize \in Nat
      BY ObservationConstants
    <3>4. CASE UNCHANGED <<queue, published>>
      BY <3>1, <3>4
    <3>5. CASE Len(queue) < EventQueueSize /\ queue' = Append(queue, Head(held))
               /\ published' = Append(published, Head(held))
      <4>1. Len(queue') = Len(queue) + 1
        BY <3>1, <3>5
      <4>q. QED BY <3>1, <3>3, <3>5, <4>1
    <3>q. QED BY <3>2, <3>4, <3>5
  <2>q. QED BY <1>1, <1>4, <2>1, <2>2 DEF FlowTyped
<1>8. Arrivals'
  BY <1>1, <1>2, <1>6 DEF Arrivals, InProcess, Run
<1>9. Decoding'
  <2>1. Run(held, Len(published)) /\ Run(published, 0) /\ published \in Seq(Packets)
        /\ held \in Seq(Packets)
    BY <1>0 DEF Decoding, Cut, FlowTyped
  <2>2. Head(held) = Len(published) + 1 /\ Run(held', Len(published) + 1)
    BY <2>1, <1>0, <1>2, RunTail
  <2>3. CASE published' = Append(published, Head(held)) /\ UNCHANGED failed
    <3>1. Run(published', 0) /\ Len(published') = Len(published) + 1
      BY <2>1, <2>2, <2>3, <1>4, RunAppend
    <3>q. QED BY <3>1, <2>1, <2>2, <2>3, <1>4, <1>6 DEF Decoding
  <2>4. CASE Fails /\ published' = published /\ pc'["worker"] \in {"shutdown", "drain", "close"}
    BY <2>1, <2>4 DEF Decoding, Cut, Fails
  <2>q. QED BY <1>2, <1>3, <2>3, <2>4
<1>10. Draining'
  <2>1. \A u \in Deciders : Emptied(u)' => Emptied(u)
    BY <1>0, <1>1, <1>2, <1>3, <1>5 DEF Emptied
  <2>2. ~failed' /\ pc'["worker"] \in {"close", "settle", "dead"} =>
            Len(held) = 1 /\ back["worker"] = "close"
    BY <1>2, <1>3 DEF Fails
  <2>3. held' = <<>> <=> Len(held) = 1
    BY <1>4
  <2>q. QED BY <1>0, <1>1, <1>2, <2>1, <2>2, <2>3 DEF Draining, Emptied
<1>11. Raw'
  BY <1>0, <1>1, <1>2, <1>6 DEF Raw, RawOwed, Opening, Released, captureVars, Run
<1>12. RawStart'
  BY <1>0, <1>1, <1>2, <1>3 DEF RawStart, Opening
<1>q. QED BY <1>7, <1>8, <1>9, <1>10, <1>11, <1>12

-----------------------------------------------------------------------------
(***************************************************************************)
(* Readers.                                                                *)
(***************************************************************************)
(* The observations between the application and the event queue are a run. *)
Holding == pc["consumer"] \in {"have", "returned"} /\ at["consumer"] # None
HandLen == IF Holding THEN 1 ELSE 0
KeptLen == IF pending = None THEN 0 ELSE 1
Chain ==
    /\ Run(delivered, 0)
    /\ pending # None => pending = Len(delivered) + 1
    /\ Holding => at["consumer"] = Len(delivered) + KeptLen + 1
    /\ Len(delivered) + KeptLen + HandLen + Len(queue) = Len(published)

Polling == {"check", "get", "look", "wait", "have", "returned"}

ReadersTyped ==
    /\ delivered \in Seq(Packets) /\ pending \in Packets \cup {None}
    /\ at["consumer"] # None => pc["consumer"] \in {"have", "returned", "raised", "ended"}
    /\ pc["consumer"] = "have" => at["consumer"] # None
    /\ task = "idle" => pc["consumer"] = "idle"
    /\ task \in {"none", "idle"} \/ pending = None \/ failed
    /\ task = "none" => pending = None
    /\ pc["consumer"] = "raised" => failed
    /\ pc["consumer"] = "ended" => ending # None
    /\ task = "ended" \/ task = "none" \/ ending = None

Ordered ==
    /\ Run(queue, Len(published) - Len(queue)) /\ Len(queue) <= Len(published)
Chained ==
    /\ ~failed => Chain
    /\ task \in {"slice", "last"} /\ pc["consumer"] \in Polling => Chain /\ pending = None

LastLook ==
    /\ task = "last" => stopped
    /\ task = "last" /\ pc["consumer"] = "look" => queue = <<>>
    /\ task = "last" /\ pc["consumer"] = "returned" /\ at["consumer"] = None => queue = <<>>
    /\ task = "ended" /\ ending = "drained" => stopped /\ delivered = published

RInv == ReadersTyped /\ Ordered /\ Chained /\ LastLook

ReaderVars == <<delivered, pending, queue, published, task, ending>>

(* The readers see of the others only what they publish, and the flags.     *)
LEMMA ReadersFrame ==
  ASSUME RInv, UNCHANGED ReaderVars, at'["consumer"] = at["consumer"],
         pc'["consumer"] = pc["consumer"], failed => failed', stopped => stopped'
  PROVE  RInv'
<1> USE DEF RInv, ReaderVars
<1>1. ReadersTyped'
  BY DEF ReadersTyped
<1>2. Ordered'
  BY DEF Ordered, Run
<1>3. Chain => Chain'
  BY DEF Chain, Holding, HandLen, KeptLen, Run
<1>4. Chained'
  BY <1>3 DEF Chained
<1>5. LastLook'
  BY DEF LastLook
<1>q. QED BY <1>1, <1>2, <1>4, <1>5

(* The threads that do not read.                                            *)
LEMMA OthersRead ==
  ASSUME CInv, FInv, RInv,
         \/ PacketArrives \/ PutPacket \/ SourceEnds \/ StartCall \/ WaitReady \/ Worker
         \/ \E t \in Callers : StopCall(t) \/ StopLock(t) \/ JoinWorker(t) \/ GiveUp(t)
                               \/ RetryShutdown(t) \/ StopReturns(t)
         \/ \E t \in Deciders : Process(t) \/ Shutdown(t)
  PROVE  RInv'
<1>1. UNCHANGED ReaderVars
  BY DEF ReaderVars, PacketArrives, PutPacket, SourceEnds, StartCall, WaitReady, Worker, Boot,
      OpenCapture, Opened, Loop, ServiceClock, StopCall, StopLock, JoinWorker, GiveUp,
      RetryShutdown, StopReturns, Process, Shutdown, ShutdownCapture, FinalStats, Drain,
      FinishDecoder, CloseWriter, Settle, queues, facade, history
<1>2. at'["consumer"] = at["consumer"]
  BY ZenonT(60) DEF FInv, FlowTyped, PacketArrives, PutPacket, SourceEnds, StartCall, WaitReady, Worker,
      Boot, OpenCapture, Opened, Loop, ServiceClock, StopCall, StopLock, JoinWorker, GiveUp,
      RetryShutdown, StopReturns, Process, Shutdown, ShutdownCapture, FinalStats, Drain,
      FinishDecoder, CloseWriter, Settle, threads
<1>3. pc'["consumer"] = pc["consumer"]
  <2>1. CASE PacketArrives \/ PutPacket \/ SourceEnds \/ StartCall \/ WaitReady
    BY <2>1 DEF CInv, ControlTyped, LabelsTyped, Goto, threads, PacketArrives,
        PutPacket, SourceEnds, StartCall, WaitReady
  <2>2. CASE Worker
    BY <2>2 DEF CInv, ControlTyped, LabelsTyped, Goto, threads, Worker, Boot,
        OpenCapture, Opened, Loop, ServiceClock
  <2>3. CASE \E t \in Callers : StopCall(t) \/ StopLock(t) \/ JoinWorker(t) \/ GiveUp(t)
                             \/ RetryShutdown(t) \/ StopReturns(t)
    BY <2>3 DEF CInv, ControlTyped, LabelsTyped, Goto, threads, StopCall,
        StopLock, JoinWorker, GiveUp, RetryShutdown, StopReturns
  <2>4. CASE \E t \in Deciders : Process(t) \/ Shutdown(t)
    BY <2>4 DEF CInv, ControlTyped, LabelsTyped, Goto, threads, Process,
        Shutdown, ShutdownCapture, FinalStats, Drain, FinishDecoder,
        CloseWriter, Settle, Handler, Leave
  <2>q. QED BY <2>1, <2>2, <2>3, <2>4
<1>4. failed => failed'
  <2>1. CASE PacketArrives \/ PutPacket \/ SourceEnds \/ StartCall \/ WaitReady
    BY <2>1 DEF Fails, flags, PacketArrives, PutPacket, SourceEnds, StartCall,
        WaitReady
  <2>2. CASE Worker
    BY <2>2 DEF Fails, flags, Worker, Boot, OpenCapture, Opened, Loop,
        ServiceClock
  <2>3. CASE \E t \in Callers : StopCall(t) \/ StopLock(t) \/ JoinWorker(t) \/ GiveUp(t)
                             \/ RetryShutdown(t) \/ StopReturns(t)
    BY <2>3 DEF Fails, flags, StopCall, StopLock, JoinWorker, GiveUp,
        RetryShutdown, StopReturns
  <2>4. CASE \E t \in Deciders : Process(t) \/ Shutdown(t)
    BY <2>4 DEF Fails, flags, Process, Shutdown, ShutdownCapture, FinalStats,
        Drain, FinishDecoder, CloseWriter, Settle, Handler, Leave
  <2>q. QED BY <2>1, <2>2, <2>3, <2>4
<1>5. stopped => stopped'
  <2>1. CASE PacketArrives \/ PutPacket \/ SourceEnds \/ StartCall \/ WaitReady
    BY <2>1 DEF flags, PacketArrives, PutPacket, SourceEnds, StartCall,
        WaitReady
  <2>2. CASE Worker
    BY <2>2 DEF flags, Worker, Boot, OpenCapture, Opened, Loop, ServiceClock
  <2>3. CASE \E t \in Callers : StopCall(t) \/ StopLock(t) \/ JoinWorker(t) \/ GiveUp(t)
                             \/ RetryShutdown(t) \/ StopReturns(t)
    BY <2>3 DEF flags, StopCall, StopLock, JoinWorker, GiveUp, RetryShutdown,
        StopReturns
  <2>4. CASE \E t \in Deciders : Process(t) \/ Shutdown(t)
    BY <2>4 DEF flags, Process, Shutdown, ShutdownCapture, FinalStats, Drain,
        FinishDecoder, CloseWriter, Settle, Handler, Leave
  <2>q. QED BY <2>1, <2>2, <2>3, <2>4
<1>q. QED BY <1>1, <1>2, <1>3, <1>4, <1>5, ReadersFrame

(* The observation behind the last one published.                           *)
LEMMA PublishRead ==
  ASSUME CInv, FInv, RInv, NEW t \in Deciders, Publish(t)
  PROVE  RInv'
<1> USE DEF RInv
<1>1. t = "worker" /\ ~WorkerDead /\ ~stopped
  BY DEF Publish, CInv, BackInTurn, CaptureInTurn, WorkerDead
<1>2. /\ UNCHANGED <<delivered, pending, task, ending, stopped, at>>
      /\ pc'["consumer"] = pc["consumer"] /\ (failed => failed')
  BY <1>1 DEF Publish, Goto, Fails, facade, CInv, ControlTyped, LabelsTyped
<1>3. \/ /\ queue' = Append(queue, Head(held)) /\ published' = Append(published, Head(held))
      \/ UNCHANGED <<queue, published>>
  BY DEF Publish
<1>4. CASE UNCHANGED <<queue, published>>
  BY <1>2, <1>4, ReadersFrame DEF ReaderVars
<1>5. CASE /\ queue' = Append(queue, Head(held)) /\ published' = Append(published, Head(held))
  <2>0. queue \in Seq(Packets) /\ published \in Seq(Packets) /\ held \in Seq(Packets)
        /\ held # <<>> /\ Run(held, Len(published))
    BY <1>1 DEF Publish, FInv, FlowTyped, Decoding, Cut
  <2>1. Head(held) = Len(published) + 1 /\ Head(held) \in Packets
    BY <2>0, RunTail, HeadTail
  <2>2. Len(queue') = Len(queue) + 1 /\ Len(published') = Len(published) + 1
    BY <2>0, <2>1, <1>5
  <2>3. Ordered'
    <3>1. Run(queue, Len(published) - Len(queue)) /\ Len(queue) <= Len(published)
      BY DEF Ordered
    <3>2. Run(queue', Len(published) - Len(queue))
      BY <3>1, <2>0, <2>1, <1>5, RunAppend
    <3>q. QED BY <3>1, <3>2, <2>0, <2>2 DEF Ordered
  <2>4. Chain => Chain'
    <3>1. Holding' <=> Holding
      BY <1>2 DEF Holding
    <3>2. HandLen' = HandLen
      BY <3>1 DEF HandLen
    <3>3. HandLen \in Int /\ KeptLen \in Int /\ Len(delivered) \in Int
      BY DEF HandLen, KeptLen, ReadersTyped
    <3>4. KeptLen' = KeptLen
      BY <1>2 DEF KeptLen
    <3>q. QED BY <1>2, <2>0, <2>2, <3>1, <3>2, <3>3, <3>4 DEF Chain, Run
  <2>5. Chained'
    BY <1>2, <2>4 DEF Chained
  <2>6. LastLook' /\ ReadersTyped'
    BY <1>1, <1>2 DEF LastLook, ReadersTyped
  <2>q. QED BY <2>3, <2>5, <2>6
<1>q. QED BY <1>3, <1>4, <1>5

(* The reader moves on, with what it has.                                   *)
LEMMA MovesRead ==
  ASSUME CInv, FInv, RInv,
         \/ PollCall \/ PollCheck \/ PollLook \/ PollTimeout \/ PollHave
         \/ AsyncCancel \/ StopSettled
  PROVE  RInv'
<1> USE DEF RInv, PollCall, PollCheck, PollLook, PollTimeout, PollHave,
    AsyncCancel, StopSettled, SeesStop, Goto
<1>1. ReadersTyped'
  BY ObservationConstants DEF ReadersTyped, ConsumerLabels, FlagsTyped, flags,
      queues, facade, history, threads, FInv, FlowTyped, CInv, ControlTyped,
      LabelsTyped
<1>2. Ordered'
  BY DEF Ordered, Run, queues, history
<1>3. Chained'
  BY DEF Chained, Chain, Holding, HandLen, KeptLen, Run, Polling,
      ReadersTyped, ConsumerLabels, FlagsTyped, flags, queues, facade,
      history, threads, FInv, FlowTyped, CInv, ControlTyped, LabelsTyped
<1>4. LastLook'
  BY ObservationConstants DEF LastLook, ReadersTyped, ConsumerLabels,
      FlagsTyped, flags, queues, facade, history, threads, FInv, FlowTyped,
      CInv, ControlTyped, LabelsTyped
<1>q. QED BY <1>1, <1>2, <1>3, <1>4

(* What the application is given is the next observation.                   *)
LEMMA Delivers ==
  ASSUME Chain, ReadersTyped, NEW x \in Packets, delivered' = Append(delivered, x),
         UNCHANGED <<queue, published>>, pending' = None,
         \/ pending # None /\ x = pending /\ (Holding' <=> Holding) /\ ~Holding
         \/ pending = None /\ Holding /\ x = at["consumer"] /\ ~Holding'
  PROVE  Chain' /\ delivered' \in Seq(Packets)
<1>1. delivered \in Seq(Packets) /\ Len(delivered) \in Nat /\ Run(delivered, 0)
  BY DEF ReadersTyped, Chain
<1>2. x = 0 + Len(delivered) + 1
  BY <1>1 DEF Chain, KeptLen
<1>3. Run(delivered', 0) /\ delivered' \in Seq(Packets) /\ Len(delivered') = Len(delivered) + 1
  BY <1>1, <1>2, RunAppend
<1>4. /\ KeptLen' = 0 /\ HandLen' = 0 /\ KeptLen + HandLen = 1
     /\ KeptLen \in Int /\ HandLen \in Int
  BY DEF KeptLen, HandLen
<1>5. Len(delivered') + KeptLen' + HandLen' + Len(queue') = Len(published')
  <2>1. Len(delivered) + KeptLen + HandLen + Len(queue) = Len(published)
    BY DEF Chain
  <2>2. Len(queue') = Len(queue) /\ Len(published') = Len(published)
    OBVIOUS
  <2>q. QED BY <1>1, <1>3, <1>4, <2>1, <2>2
<1>6. pending' = None /\ ~Holding'
  OBVIOUS
<1>q. QED BY <1>3, <1>5, <1>6 DEF Chain

(* Nothing of the chain moves.                                              *)
LEMMA Stays ==
  ASSUME Chain, UNCHANGED <<delivered, pending, queue, published>>, Holding' <=> Holding,
         Holding => at'["consumer"] = at["consumer"]
  PROVE  Chain'
<1>1. KeptLen' = KeptLen /\ HandLen' = HandLen
  BY DEF KeptLen, HandLen
<1>q. QED BY <1>1 DEF Chain, Run

LEMMA PollGetRead ==
  ASSUME CInv, FInv, RInv, PollGet
  PROVE  RInv'
<1> USE DEF RInv
<1>1. /\ UNCHANGED <<delivered, pending, published, task, ending, stopped, failed>>
      /\ pc["consumer"] \in {"get", "wait"} /\ at["consumer"] = None /\ ~Holding
  BY DEF PollGet, flags, facade, history, ReadersTyped, Holding
<1>2. CASE TakeEvent
  <2>1. /\ at'["consumer"] = Head(queue) /\ queue' = Tail(queue) /\ pc'["consumer"] = "have"
        /\ Head(queue) \in Packets /\ Len(queue') = Len(queue) - 1 /\ queue # <<>>
        /\ queue \in Seq(Packets) /\ Len(queue) \in Nat
    BY <1>2, HeadTail DEF TakeEvent, Goto, FInv, FlowTyped, CInv, ControlTyped, LabelsTyped
  <2>2. at'["consumer"] # None /\ Holding'
    BY <2>1, ObservationConstants DEF Holding, Packets
  <2>3. Ordered'
    <3>1. published \in Seq(Packets) /\ Run(queue, Len(published) - Len(queue))
          /\ Len(queue) <= Len(published)
      BY DEF FInv, FlowTyped, Ordered
    <3>2. Run(Tail(queue), Len(published) - Len(queue) + 1)
      BY <2>1, <3>1, RunTail
    <3>q. QED BY <1>1, <2>1, <3>1, <3>2 DEF Ordered
  <2>4. Chain => Chain'
    <3>1. Chain => Head(queue) = Len(delivered) + KeptLen + 1
      <4>1. published \in Seq(Packets) /\ Run(queue, Len(published) - Len(queue))
        BY DEF FInv, FlowTyped, Ordered
      <4>2. Head(queue) = Len(published) - Len(queue) + 1
        BY <2>1, <4>1, RunTail
      <4>3. HandLen = 0 /\ KeptLen \in Int /\ Len(delivered) \in Int
        BY <1>1 DEF HandLen, KeptLen, ReadersTyped
      <4>q. QED BY <2>1, <4>2, <4>3 DEF Chain
    <3>2. HandLen = 0 /\ HandLen' = 1 /\ KeptLen' = KeptLen /\ KeptLen \in Int
          /\ Len(delivered) \in Int
      BY <1>1, <2>2 DEF HandLen, KeptLen, ReadersTyped
    <3>q. QED BY <1>1, <2>1, <2>2, <3>1, <3>2 DEF Chain, Run
  <2>5. Chained'
    BY <1>1, <2>4 DEF Chained, Polling
  <2>6. ReadersTyped' /\ LastLook'
    BY <1>1, <2>1, <2>2 DEF ReadersTyped, LastLook
  <2>q. QED BY <2>3, <2>5, <2>6
<1>3. CASE ~TakeEvent
  <2>1. /\ UNCHANGED <<at, queue>> /\ queue = <<>>
        /\ pc'["consumer"] \in {"look", "check"}
    BY <1>3 DEF PollGet, Goto, CInv, ControlTyped, LabelsTyped
  <2>2. ~Holding'
    BY <2>1 DEF Holding
  <2>3. Chain => Chain'
    BY <1>1, <2>1, <2>2, Stays
  <2>4. Chained'
    BY <1>1, <2>3 DEF Chained, Polling
  <2>5. ReadersTyped' /\ LastLook' /\ Ordered'
    BY <1>1, <2>1 DEF ReadersTyped, LastLook, Ordered, Run
  <2>q. QED BY <2>4, <2>5
<1>q. QED BY <1>2, <1>3

(* events(): the observation in hand is given out, once.                    *)
LEMMA IterateRead ==
  ASSUME CInv, FInv, RInv, Iterate
  PROVE  RInv'
<1> USE DEF RInv
<1>1. /\ UNCHANGED <<pending, queue, published, task, stopped, failed>>
      /\ task = "none" /\ pending = None
  BY DEF Iterate, flags, queues, facade, ReadersTyped
<1>2. pc \in [Threads -> Labels] /\ at \in [Threads -> Packets \cup {None}]
  BY DEF FInv, FlowTyped, CInv, ControlTyped, LabelsTyped
<1>3. Ordered' /\ LastLook'
  BY <1>1 DEF Ordered, Run, LastLook
<1>4. CASE pc'["consumer"] = "ended" /\ ending' # None /\ UNCHANGED <<at, delivered>>
           /\ (failed \/ at["consumer"] = None)
  <2>1. ReadersTyped'
    BY <1>1, <1>4 DEF ReadersTyped
  <2>2. at["consumer"] = None => (Chain => Chain')
    BY <1>1, <1>4, Stays DEF Holding
  <2>3. Chained'
    BY <1>1, <1>4, <2>2 DEF Chained
  <2>q. QED BY <1>3, <2>1, <2>3
<1>5. CASE pc["consumer"] = "returned" /\ Answered("check") /\ ending' = ending
  <2>1. pc'["consumer"] = "check" /\ at'["consumer"] = None /\ ~Holding'
    BY <1>2, <1>5 DEF Answered, Holding
  <2>2. CASE at["consumer"] # None
    <3>1. at["consumer"] \in Packets /\ Holding /\ delivered' = Append(delivered, at["consumer"])
      BY <1>2, <1>5, <2>2 DEF Answered, Holding
    <3>2. delivered' \in Seq(Packets)
      BY <3>1 DEF ReadersTyped
    <3>3. Chain => Chain'
      BY <1>1, <2>1, <3>1, Delivers
    <3>4. Chained' /\ ReadersTyped'
      BY <1>1, <1>5, <2>1, <3>2, <3>3 DEF Chained, ReadersTyped
    <3>q. QED BY <1>3, <3>4
  <2>3. CASE at["consumer"] = None
    <3>1. delivered' = delivered /\ ~Holding
      BY <1>5, <2>3 DEF Answered, Holding
    <3>2. Chain => Chain'
      BY <1>1, <2>1, <3>1, Stays
    <3>3. Chained' /\ ReadersTyped'
      BY <1>1, <1>5, <2>1, <3>1, <3>2 DEF Chained, ReadersTyped
    <3>q. QED BY <1>3, <3>3
  <2>q. QED BY <2>2, <2>3
<1>q. QED
  BY <1>2, <1>4, <1>5, ObservationConstants DEF Iterate, Ends, Goto, ReadersTyped

(* poll() of the facade: what a cancelled poll had taken is given out first. *)
LEMMA AsyncPollRead ==
  ASSUME CInv, FInv, RInv, AsyncPoll
  PROVE  RInv'
<1> USE DEF RInv
<1>1. /\ UNCHANGED <<queue, published, stopped, failed, at>>
      /\ task = "idle" /\ pc["consumer"] = "idle" /\ ~Holding /\ ending = None
      /\ at["consumer"] = None
  BY DEF AsyncPoll, flags, queues, ReadersTyped, Holding
<1>2. pc \in [Threads -> Labels]
  BY DEF CInv, ControlTyped, LabelsTyped
<1>3. Ordered'
  BY <1>1 DEF Ordered, Run
<1>4. CASE /\ failed /\ task' = "ended" /\ Ends("raised") /\ UNCHANGED <<pending, delivered>>
  <2>1. pc'["consumer"] = "ended" /\ ending' = "raised" /\ ending' # None
    BY <1>2, <1>4, ObservationConstants DEF Ends, Goto
  <2>2. ReadersTyped' /\ LastLook' /\ Chained'
    BY <1>1, <1>4, <2>1 DEF ReadersTyped, LastLook, Chained
  <2>q. QED BY <1>3, <2>2
<1>5. CASE /\ ~failed /\ pending # None /\ delivered' = Append(delivered, pending)
           /\ pending' = None /\ UNCHANGED <<task, pc, ending>>
  <2>1. Chain /\ pending \in Packets /\ ~Holding'
    BY <1>1, <1>5 DEF Chained, ReadersTyped, Holding
  <2>2. Chain' /\ delivered' \in Seq(Packets)
    BY <1>1, <1>5, <2>1, Delivers
  <2>3. ReadersTyped' /\ LastLook' /\ Chained'
    BY <1>1, <1>5, <2>2 DEF ReadersTyped, LastLook, Chained
  <2>q. QED BY <1>3, <2>3
<1>6. CASE /\ ~failed /\ pending = None /\ task' = (IF stopped THEN "last" ELSE "slice")
           /\ Goto("consumer", "check") /\ UNCHANGED <<pending, delivered, ending>>
  <2>1. pc'["consumer"] = "check" /\ ~Holding'
    BY <1>2, <1>6 DEF Goto, Holding
  <2>2. Chain'
    BY <1>1, <1>6, <2>1, Stays DEF Chained
  <2>3. ReadersTyped' /\ LastLook' /\ Chained'
    BY <1>1, <1>6, <2>1, <2>2 DEF ReadersTyped, LastLook, Chained
  <2>q. QED BY <1>3, <2>3
<1>q. QED BY <1>4, <1>5, <1>6 DEF AsyncPoll

(* A poll of the facade raises, gives out an observation, or has none.      *)
LEMMA AsyncEndsRead ==
  ASSUME CInv, FInv, RInv, AsyncSlice \/ AsyncLast
  PROVE  RInv'
<1> USE DEF RInv
<1>1. /\ UNCHANGED <<queue, published, stopped, failed, pending>>
      /\ task \in {"slice", "last"} /\ ending = None
      /\ pc["consumer"] = "raised" \/ failed \/ pending = None
  BY DEF AsyncSlice, AsyncLast, SliceLooksAgain, flags, queues, ReadersTyped
<1>2. pc \in [Threads -> Labels] /\ at \in [Threads -> Packets \cup {None}]
  BY DEF FInv, FlowTyped, CInv, ControlTyped, LabelsTyped
<1>3. Ordered'
  BY <1>1 DEF Ordered, Run
<1>4. CASE /\ failed /\ task' = "ended" /\ Ends("raised") /\ UNCHANGED <<at, delivered>>
  <2>1. pc'["consumer"] = "ended" /\ ending' = "raised" /\ ending' # None
    BY <1>2, <1>4, ObservationConstants DEF Ends, Goto
  <2>2. ReadersTyped' /\ LastLook' /\ Chained'
    BY <1>1, <1>4, <2>1 DEF ReadersTyped, LastLook, Chained
  <2>q. QED BY <1>3, <2>2
<1>5. CASE /\ pc["consumer"] = "returned" /\ at["consumer"] # None
           /\ task' = "idle" /\ Answered("idle") /\ ending' = ending
  <2>1. /\ pc'["consumer"] = "idle" /\ at'["consumer"] = None /\ ~Holding'
        /\ at["consumer"] \in Packets /\ Holding /\ delivered' = Append(delivered, at["consumer"])
    BY <1>2, <1>5 DEF Answered, Holding
  <2>2. Chain /\ pending = None
    BY <1>1, <1>5 DEF Chained, Polling
  <2>3. Chain' /\ delivered' \in Seq(Packets)
    BY <1>1, <2>1, <2>2, Delivers
  <2>4. ReadersTyped' /\ LastLook' /\ Chained'
    BY <1>1, <1>5, <2>1, <2>2, <2>3 DEF ReadersTyped, LastLook, Chained
  <2>q. QED BY <1>3, <2>4
<1>6. CASE /\ task = "slice" /\ pc["consumer"] = "returned" /\ at["consumer"] = None
           /\ task' = (IF stopped THEN "last" ELSE "slice")
           /\ Goto("consumer", "check") /\ UNCHANGED <<at, delivered, ending>>
  <2>1. pc'["consumer"] = "check" /\ ~Holding' /\ ~Holding
    BY <1>2, <1>6 DEF Goto, Holding
  <2>2. Chain' /\ pending = None
    BY <1>1, <1>6, <2>1, Stays DEF Chained, Polling
  <2>3. ReadersTyped' /\ LastLook' /\ Chained'
    BY <1>1, <1>6, <2>1, <2>2 DEF ReadersTyped, LastLook, Chained
  <2>q. QED BY <1>3, <2>3
<1>7. CASE /\ task = "last" /\ pc["consumer"] = "returned" /\ at["consumer"] = None
           /\ task' = "ended" /\ Ends("drained") /\ UNCHANGED <<at, delivered>>
  <2>1. /\ pc'["consumer"] = "ended" /\ ending' = "drained" /\ ending' # None
        /\ ~Holding' /\ ~Holding
    BY <1>2, <1>7, ObservationConstants DEF Ends, Goto, Holding
  <2>2. stopped /\ queue = <<>> /\ Chain /\ pending = None
    BY <1>7 DEF LastLook, Chained, Polling
  <2>3. Chain'
    BY <1>1, <1>7, <2>1, <2>2, Stays
  <2>4. delivered = published
    <3>1. Len(delivered) = Len(published) /\ Run(delivered, 0)
      BY <2>1, <2>2 DEF Chain, KeptLen, HandLen, ReadersTyped
    <3>2. delivered \in Seq(Packets) /\ published \in Seq(Packets) /\ Run(published, 0)
      BY DEF ReadersTyped, FInv, FlowTyped, Decoding
    <3>q. QED BY <3>1, <3>2, RunEqual
  <2>5. ReadersTyped' /\ LastLook' /\ Chained'
    BY <1>1, <1>7, <2>1, <2>2, <2>3, <2>4 DEF ReadersTyped, LastLook, Chained
  <2>q. QED BY <1>3, <2>5
<1>q. QED
  BY <1>4, <1>5, <1>6, <1>7 DEF AsyncSlice, AsyncLast, SliceLooksAgain, ReadersTyped

(* What a cancelled poll has taken from the queue is kept for the next.     *)
LEMMA PollSettledRead ==
  ASSUME CInv, FInv, RInv, PollSettled
  PROVE  RInv'
<1> USE DEF RInv
<1>1. /\ UNCHANGED <<queue, published, stopped, failed, delivered, ending>>
      /\ task = "settlePoll" /\ ending = None /\ task' = "idle"
      /\ pending = None \/ failed
      /\ pc["consumer"] = "returned" \/ failed
      /\ pending' = (IF pc["consumer"] = "returned" THEN at["consumer"] ELSE pending)
  BY DEF PollSettled, Taken, flags, queues, history, ReadersTyped
<1>2. pc \in [Threads -> Labels] /\ at \in [Threads -> Packets \cup {None}]
  BY DEF FInv, FlowTyped, CInv, ControlTyped, LabelsTyped
<1>3. pc'["consumer"] = "idle" /\ at'["consumer"] = None /\ ~Holding'
  BY <1>2 DEF PollSettled, Goto, Holding
<1>4. Ordered' /\ LastLook'
  BY <1>1 DEF Ordered, Run, LastLook
<1>5. ReadersTyped'
  BY <1>1, <1>2, <1>3 DEF ReadersTyped
<1>6. ~failed => Chain'
  <2> SUFFICES ASSUME ~failed PROVE Chain'
    OBVIOUS
  <2>1. Chain /\ pending = None /\ pc["consumer"] = "returned" /\ pending' = at["consumer"]
    BY <1>1 DEF Chained
  <2>2. KeptLen = 0 /\ HandLen' = 0 /\ KeptLen' = HandLen
        /\ (pending' # None <=> Holding)
    BY <1>3, <2>1 DEF KeptLen, HandLen, Holding
  <2>3. KeptLen \in Int /\ HandLen \in Int /\ Len(delivered) \in Int
    BY DEF KeptLen, HandLen, ReadersTyped
  <2>q. QED BY <1>1, <1>3, <2>1, <2>2, <2>3 DEF Chain, Run
<1>7. Chained'
  BY <1>1, <1>3, <1>6 DEF Chained
<1>q. QED BY <1>4, <1>5, <1>7

-----------------------------------------------------------------------------
LEMMA FlowInit == Init => FInv
<1> SUFFICES ASSUME Init PROVE FInv
  OBVIOUS
<1> USE DEF Init
<1>1. FlowTyped
  BY ObservationConstants DEF FlowTyped
<1>2. ~InProcess /\ Hand = 0 /\ Dequeued = 0
  BY DEF InProcess, Hand, Dequeued
<1>3. Arrivals
  BY <1>2 DEF Arrivals, Run
<1>4. Decoding /\ Draining
  BY <1>2 DEF Decoding, Run, Draining, Emptied
<1>5. Raw /\ RawStart
  BY DEF Raw, RawOwed, RawStart, Opening
<1>q. QED BY <1>1, <1>3, <1>4, <1>5 DEF FInv

LEMMA FlowNext == CInv /\ CInv' /\ FInv /\ [Next]_vars => FInv'
<1> SUFFICES ASSUME CInv, CInv', FInv, [Next]_vars PROVE FInv'
  OBVIOUS
<1>1. CASE PacketArrives \/ PutPacket \/ SourceEnds
  BY <1>1, ArrivesFlows, PutFlows, SourceFlows
<1>2. ASSUME NEW t \in Deciders, Shutdown(t) \/ Process(t) \/ Publish(t)
      PROVE  FInv'
  BY <1>2, ShutCaptureFlows, StatsFlows, DrainFlows, FinishFlows, CloseFlows, SettleFlows,
      ProcessFlows, PublishFlows DEF Shutdown
<1>3. CASE Work
  BY <1>2, <1>3, BootFlows, OpenFlows, OpenedFlows, LoopFlows, ClockFlows DEF Work, Worker
<1>4. CASE Main \/ Stop("stopper") \/ \E t \in Callers : StopCall(t)
  BY <1>2, <1>4, StartFlows, StopFlows DEF Main, Stop
<1>5. CASE Consume \/ AsyncCancel
  BY <1>5, ReaderFlows, GetFlows, FacadeFlows DEF Consume, Poll
<1>6. CASE Rest \/ UNCHANGED vars
  <2>1. UNCHANGED vars
    BY <1>6 DEF Rest
  <2> USE DEF vars, captureVars, flags, queues, threads, bounds, history
  <2>2. QuietData
    BY <2>1 DEF QuietData, FInv, FlowTyped
  <2>3. QuietLabels /\ QuietFlags
    BY <2>1 DEF QuietLabels, QuietFlags, Cut, FInv, FlowTyped
  <2>4. QuietRaw /\ QuietEnd
    BY <2>1 DEF QuietRaw, RawOwed, Released, QuietEnd, FInv, Draining, Emptied
  <2>q. QED
    BY <2>2, <2>3, <2>4, QuietFlows DEF CInv, ControlTyped
<1>q. QED BY <1>1, <1>3, <1>4, <1>5, <1>6 DEF Next

LEMMA Flow == Spec => []FInv
  BY Control, FlowInit, FlowNext, PTL DEF Spec

LEMMA ReadersInit == Init => RInv
<1> SUFFICES ASSUME Init PROVE RInv
  OBVIOUS
<1> USE DEF Init
<1>1. ReadersTyped /\ Ordered /\ LastLook
  BY DEF ReadersTyped, Ordered, Run, LastLook
<1>2. ~Holding /\ HandLen = 0 /\ KeptLen = 0
  BY DEF Holding, HandLen, KeptLen
<1>3. Chain
  BY <1>2 DEF Chain, Run
<1>q. QED BY <1>1, <1>3 DEF RInv, Chained

LEMMA ReadersNext == CInv /\ FInv /\ RInv /\ [Next]_vars => RInv'
<1> SUFFICES ASSUME CInv, FInv, RInv, [Next]_vars PROVE RInv'
  OBVIOUS
<1>1. CASE PacketArrives \/ PutPacket \/ SourceEnds
  BY <1>1, OthersRead
<1>2. CASE Work
  BY <1>2, OthersRead, PublishRead DEF Work
<1>3. CASE Main \/ Stop("stopper") \/ \E t \in Callers : StopCall(t)
  BY <1>3, OthersRead, PublishRead DEF Main, Stop
<1>4. CASE Consume \/ AsyncCancel
  BY <1>4, MovesRead, PollGetRead, IterateRead, AsyncPollRead, AsyncEndsRead, PollSettledRead
     DEF Consume, Poll
<1>5. CASE Rest \/ UNCHANGED vars
  <2>1. UNCHANGED vars
    BY <1>5 DEF Rest
  <2>q. QED
    BY <2>1, ReadersFrame
       DEF vars, ReaderVars, captureVars, flags, queues, threads, facade, history
<1>q. QED BY <1>1, <1>2, <1>3, <1>4, <1>5 DEF Next

LEMMA Readers == Spec => []RInv
  BY Control, Flow, ReadersInit, ReadersNext, PTL DEF Spec

-----------------------------------------------------------------------------
(***************************************************************************)
(* The properties of the run.                                              *)
(***************************************************************************)
(* Whatever the number of packets, failures and repeated stops, decoder,    *)
(* raw file and capture are with one thread at a time, and what a shutdown  *)
(* could not release stays with a session that says so (stop, _shutdown).   *)
THEOREM OneOwner == Spec => []OwnedAlone
<1>1. CInv /\ FInv /\ RInv => TypeOK
  BY DEF CInv, FInv, RInv, ControlTyped, FlagsTyped, LabelsTyped, Tasks, FinishedOnce,
      FlowTyped, ReadersTyped, TypeOK
<1>2. CInv => NativeOwned
  BY DEF CInv, CaptureInTurn
<1>3. CInv /\ FInv /\ RInv => OwnedAlone
  BY <1>1, <1>2, OneInside DEF OwnedAlone
<1>q. QED BY <1>3, Control, Flow, Readers, PTL

(* A session publishes a gapless prefix of its observations, and one that   *)
(* stopped without an error has decoded and published every packet that it  *)
(* accepted (_record_error, _process_packet, _drain_packets, finish).       *)
THEOREM ClosedOrComplete == Spec => []FailsClosedOrCompletes
<1>1. CInv /\ FInv => FailsClosed
  BY DEF FInv, Decoding, FailsClosed, Run, FlowTyped
<1>2. CInv /\ FInv => CleanStopComplete
  <2> SUFFICES ASSUME CInv, FInv, stopped, ~failed, started = "ok"
               PROVE  published = accepted /\ finished = 1 /\ packetQueue = <<>> /\ held = <<>>
    BY DEF CleanStopComplete
  <2>1. pc["worker"] = "dead"
    BY DEF CInv, CaptureInTurn, WorkerDead, AfterStart
  <2>2. packetQueue = <<>> /\ held = <<>> /\ finished = 1
    BY <2>1 DEF FInv, Draining
  <2>3. Hand = 0
    BY <2>1 DEF Hand, InProcess, CInv, StopsInTurn
  <2>4. Len(published) = Len(accepted)
    BY <2>2, <2>3 DEF FInv, Decoding, Dequeued, FlowTyped
  <2>5. published = accepted
    BY <2>4, RunEqual DEF FInv, FlowTyped, Decoding, Arrivals
  <2>q. QED BY <2>2, <2>5
<1>q. QED BY <1>1, <1>2, Control, Flow, PTL DEF FailsClosedOrCompletes

(* Runs one after the other are a run.                                      *)
LEMMA RunConcat ==
  ASSUME NEW S, NEW s \in Seq(S), NEW u \in Seq(S), Run(s, 0), Run(u, Len(s))
  PROVE  Run(s \o u, 0) /\ s \o u \in Seq(S) /\ Len(s \o u) = Len(s) + Len(u)
  BY DEF Run

LEMMA FourRuns ==
  ASSUME NEW S, NEW s \in Seq(S), NEW u \in Seq(S), NEW v \in Seq(S), NEW w \in Seq(S),
         NEW p \in Seq(S), Run(p, 0), Len(p) = Len(s) + Len(u) + Len(v) + Len(w),
         Run(s, 0), Run(u, Len(s)), Run(v, Len(s) + Len(u)), Run(w, Len(s) + Len(u) + Len(v))
  PROVE  s \o u \o v \o w = p
<1>1. PICK x \in Seq(S) : x = s \o u /\ Run(x, 0) /\ Len(x) = Len(s) + Len(u)
  BY RunConcat
<1>2. Run(v, Len(x))
  BY <1>1
<1>3. PICK y \in Seq(S) : y = x \o v /\ Run(y, 0) /\ Len(y) = Len(x) + Len(v)
  BY <1>1, <1>2, RunConcat
<1>4. Run(w, Len(y))
  BY <1>1, <1>3
<1>5. PICK z \in Seq(S) : z = y \o w /\ Run(z, 0) /\ Len(z) = Len(y) + Len(w)
  BY <1>3, <1>4, RunConcat
<1>6. Len(z) = Len(p)
  BY <1>1, <1>3, <1>5
<1>7. z = p
  <2>1. Run(z, 0) /\ Run(p, 0)
    BY <1>5
  <2>q. QED BY <2>1, <1>6, RunEqual
<1>q. QED BY <1>1, <1>3, <1>5, <1>7

(* The raw file of a stopped session holds every packet it accepted, also   *)
(* those after an error, and no interleaving of polls, stops and cancelled  *)
(* polls loses, repeats or reorders an observation (_write_packet, poll,    *)
(* the facade's pending balance).                                           *)
THEOREM Lossless == Spec => []ReadersLoseNothing
<1>1. CInv /\ FInv => RawKept
  <2> SUFFICES ASSUME CInv, FInv, stopped, SaveRaw, ~writeFailed, started = "ok"
               PROVE  written = accepted
    BY DEF RawKept
  <2>1. pc["worker"] = "dead" /\ ~writerOpen /\ RawOwed
    BY DEF CInv, CaptureInTurn, NativeOwned, WorkerDead, AfterStart, RawOwed, Opening
  <2>2. packetQueue = <<>> /\ ~InProcess /\ Run(written, 0) /\ Len(written) + Hand = Dequeued
    BY <2>1 DEF FInv, Raw
  <2>3. Len(written) = Len(accepted)
    BY <2>2 DEF Hand, Dequeued, FInv, FlowTyped
  <2>q. QED BY <2>2, <2>3, RunEqual DEF FInv, FlowTyped, Arrivals
<1>2. FInv /\ RInv => NothingLost
  <2> SUFFICES ASSUME FInv, RInv, ~failed
               PROVE  delivered \o Kept \o InHand \o queue = published
    BY DEF NothingLost
  <2>1. Chain /\ Ordered
    BY DEF RInv, Chained
  <2>2. /\ delivered \in Seq(Packets) /\ queue \in Seq(Packets) /\ published \in Seq(Packets)
        /\ Run(published, 0)
    BY DEF RInv, ReadersTyped, FInv, FlowTyped, Decoding
  <2>3. Kept \in Seq(Packets) /\ Len(Kept) = KeptLen /\ Run(Kept, Len(delivered))
    BY <2>1, <2>2 DEF Kept, KeptLen, Chain, RInv, ReadersTyped, Run
  <2>4. /\ InHand \in Seq(Packets) /\ Len(InHand) = HandLen
        /\ Run(InHand, Len(delivered) + KeptLen)
    BY <2>1, <2>2 DEF InHand, HandLen, Holding, Chain, FInv, FlowTyped, Run
  <2>5. KeptLen \in Nat /\ HandLen \in Nat /\ Len(delivered) \in Nat /\ Len(queue) \in Nat
        /\ Len(published) \in Nat
    BY <2>2 DEF KeptLen, HandLen
  <2>6. /\ Len(delivered) + KeptLen + HandLen + Len(queue) = Len(published)
        /\ Run(delivered, 0) /\ Run(queue, Len(published) - Len(queue))
    BY <2>1 DEF Chain, Ordered
  <2>7. Run(queue, Len(delivered) + KeptLen + HandLen)
    <3>1. Len(published) - Len(queue) = Len(delivered) + KeptLen + HandLen
      BY <2>5, <2>6
    <3>q. QED BY <2>6, <3>1
  <2>q. QED BY <2>2, <2>3, <2>4, <2>5, <2>6, <2>7, FourRuns
<1>q. QED BY <1>1, <1>2, Control, Flow, Readers, PTL DEF ReadersLoseNothing

(* The facade's iteration ends without an error only when the application   *)
(* has been given every observation (AsyncLiveAgrisSession.poll).           *)
THEOREM Drains == Spec => []AsyncDrains
<1>1. RInv => AsyncDrains
  BY DEF RInv, LastLook, AsyncDrains
<1>q. QED BY <1>1, Readers, PTL
=============================================================================
