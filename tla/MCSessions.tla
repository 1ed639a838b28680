------------------------------ MODULE MCSessions ------------------------------
(***************************************************************************)
(* The sessions and asynchronous facades that share no state: Solare,      *)
(* calibration, and the asyncio facades of items and of calibration.  A    *)
(* behaviour is one of one part; the others keep None, and two parts use   *)
(* one variable where their names agree.  A Solare session that more       *)
(* packets reach is checked for safety alone, in the part "burst".         *)
(***************************************************************************)
EXTENDS Integers, FiniteSets, Sequences

CONSTANTS
    Windows, PacketQueueSize, UpdateQueueSize, SavePcap, MaxPackets, BurstPackets,
    Clients, MaxRetained, MaxFrames, CalibrationCalls,
    MaxEvents, ItemFailures, MaxStops, ItemCancels,
    MaxRuns, MaxCancels, MaxCalls,
    MaxFailures,     \* for every part but the items
    None

VARIABLES
    part,
    \* Solare
    startAttempted, captureStarted, captureStopped, captureIncomplete, sniffer, socket,
    captureError, sent, accepted,
    stopOnComplete, session, pipe, snapshot, back, hand, written, finals, finalSeen,
    announced, rawFailed,
    \* Solare and calibration
    lock, pc, failures,
    \* calibration
    options, held, native, error, frames, finalLoss, live, why, ready, seen, calls,
    \* asynchronous items, and asynchronous calibration
    sync, facade, task, budget,
    future, stops, received,
    start, work, wait, wrong

Solare == INSTANCE SolareSession
Burst == INSTANCE SolareSession WITH MaxPackets <- BurstPackets
Calibration == INSTANCE CalibrationSession
                   WITH Callers <- Clients, MaxCalls <- CalibrationCalls
Items == INSTANCE AsyncItemSession WITH MaxFailures <- ItemFailures, MaxCancels <- ItemCancels
Async == INSTANCE AsyncCalibration

ASSUME SessionsConstants ==
    /\ Solare!SolareConstants /\ Calibration!CalibrationConstants
    /\ Items!AsyncItemConstants /\ Async!AsyncCalibrationConstants

capture == <<startAttempted, captureStarted, captureStopped, captureIncomplete, sniffer, socket,
             captureError, sent, accepted>>
solareOnly == <<stopOnComplete, session, pipe, snapshot, back, hand, written, finals, finalSeen,
                announced, rawFailed>>
threads == <<lock, pc, failures>>
calibrationOnly == <<options, held, native, error, frames, finalLoss, live, why, ready, seen, calls>>
coroutines == <<sync, facade, task, budget>>
itemsOnly == <<future, stops, received>>
asyncOnly == <<start, work, wait, wrong>>

outOfSolare == <<calibrationOnly, coroutines, itemsOnly, asyncOnly>>
outOfCalibration == <<capture, solareOnly, coroutines, itemsOnly, asyncOnly>>
outOfItems == <<capture, solareOnly, threads, calibrationOnly, asyncOnly>>
outOfAsync == <<capture, solareOnly, threads, calibrationOnly, itemsOnly>>

NoCapture ==
    /\ startAttempted = None /\ captureStarted = None /\ captureStopped = None
    /\ captureIncomplete = None /\ sniffer = None /\ socket = None /\ captureError = None
    /\ sent = None /\ accepted = None
NoSolare ==
    /\ stopOnComplete = None /\ session = None /\ pipe = None /\ snapshot = None
    /\ back = None /\ hand = None /\ written = None /\ finals = None
    /\ finalSeen = None /\ announced = None /\ rawFailed = None
NoThreads == lock = None /\ pc = None /\ failures = None
NoCalibration ==
    /\ options = None /\ held = None /\ native = None /\ error = None /\ frames = None
    /\ finalLoss = None /\ live = None /\ why = None /\ ready = None /\ seen = None
    /\ calls = None
NoCoroutines == sync = None /\ facade = None /\ task = None /\ budget = None
NoItems == future = None /\ stops = None /\ received = None
NoAsync == start = None /\ work = None /\ wait = None /\ wrong = None

Init ==
    \/ part \in {"solare", "burst"} /\ Solare!Init
          /\ NoCalibration /\ NoCoroutines /\ NoItems /\ NoAsync
    \/ part = "calibration" /\ Calibration!Init
          /\ NoCapture /\ NoSolare /\ NoCoroutines /\ NoItems /\ NoAsync
    \/ part = "items" /\ Items!Init
          /\ NoCapture /\ NoSolare /\ NoThreads /\ NoCalibration /\ NoAsync
    \/ part = "async" /\ Async!Init
          /\ NoCapture /\ NoSolare /\ NoThreads /\ NoCalibration /\ NoItems

SolareStep == part = "solare" /\ Solare!Next /\ UNCHANGED <<part, outOfSolare>>
BurstStep == part = "burst" /\ Burst!Next /\ UNCHANGED <<part, outOfSolare>>
CalibrationStep ==
    part = "calibration" /\ Calibration!Next /\ UNCHANGED <<part, outOfCalibration>>
ItemsStep == part = "items" /\ Items!Next /\ UNCHANGED <<part, outOfItems>>
AsyncStep == part = "async" /\ Async!Next /\ UNCHANGED <<part, outOfAsync>>

Next == SolareStep \/ BurstStep \/ CalibrationStep \/ ItemsStep \/ AsyncStep

vars == <<part, capture, solareOnly, threads, calibrationOnly, coroutines, itemsOnly, asyncOnly>>
Spec == Init /\ [][Next]_vars

InSolare == part \in {"solare", "burst"}

(* Who may be in a call: two threads or three coroutines, by number.        *)
Caller == CHOOSE f \in [1..2 -> Clients] : f[1] # f[2]
Task == <<"control", "other", "waiter">>

(* The fairness each part states.  Only one part runs, so that one of its   *)
(* fair actions shares a condition with one of each of the others; and so   *)
(* do the stops the pool still owes, of which there is a bounded number.    *)
SolareFair(n) ==
    \/ n = 1 /\ Solare!PutPacket
    \/ n = 2 /\ Solare!Worker
    \/ n = 3 /\ Solare!Main
    \/ n = 4 /\ Solare!Caller("stopper")
    \/ n = 5 /\ Solare!Retry
CalibrationFair(n) ==
    \/ n \in 1..2 /\ Calibration!Caller(Caller[n])
    \/ n = 3 /\ Calibration!Worker
    \/ n = 4 /\ Calibration!Poll
ItemsFair(n) ==
    \/ n \in 1..2 /\ Items!Resumes(Task[n])
    \/ n = 3 /\ Items!StartRuns
    \/ n = 4 /\ Items!PollRuns
    \/ n = 5 /\ (Items!StartReturns \/ Items!StartSettles)
    \/ n = 6 /\ \E k \in 1..MaxStops : Items!StopRuns(k)
AsyncFair(n) ==
    \/ n \in 1..2 /\ Async!Resumes(Task[n])
    \/ n = 3 /\ Async!StartRuns
    \/ n = 4 /\ Async!WaitRuns
    \/ n = 5 /\ (Async!StartReturns \/ Async!StartSettles \/ Async!StartAborts)
    \/ n = 6 /\ \E k \in DOMAIN work :
                   Async!StopRuns(k) \/ Async!AbortRuns(k) \/ Async!WorkEnds(k)
    \/ n = 7 /\ Async!WaitReturns

Fair(n) ==
    \/ part = "solare" /\ SolareFair(n) /\ UNCHANGED <<part, outOfSolare>>
    \/ part = "calibration" /\ CalibrationFair(n) /\ UNCHANGED <<part, outOfCalibration>>
    \/ part = "items" /\ ItemsFair(n) /\ UNCHANGED <<part, outOfItems>>
    \/ part = "async" /\ AsyncFair(n) /\ UNCHANGED <<part, outOfAsync>>

FairSpec == Spec /\ \A n \in 1..7 : WF_vars(Fair(n))

-----------------------------------------------------------------------------
(* What user code was told when a leaderboard was confirmed is what the     *)
(* result says, complete exactly when nothing was lost up to then           *)
(* (solare/session.py _emit).                                               *)
ConfirmedKept == InSolare => Solare!ConfirmedKept

(* Nothing produced is lost on the way to its reader: the raw file of a     *)
(* Solare session holds every accepted packet in order, its last update     *)
(* stays in the bounded queue until it is taken, and no cancelled poll of   *)
(* the item facade loses, repeats or reorders an event                      *)
(* (solare/session.py _finish_worker, _queue_update; _async_sessions.py     *)
(* poll).                                                                   *)
NothingDropped ==
    /\ InSolare => Solare!RawKept /\ Solare!FinalUpdateKept
    /\ part = "items" => Items!EventsKept

(* No decoder is finished while a thread may still call it, no capture that *)
(* runs is forgotten, and what says it is over has released everything      *)
(* (solare/session.py stop; _calibration/capture.py:504, live.py:228); and  *)
(* Solare keeps its types.                                                  *)
CaptureOwned ==
    /\ InSolare => Solare!SolareTypeOK /\ Solare!FinishedAlone
    /\ part = "calibration" => Calibration!CaptureOwned

(* A calibration result means that nothing failed and that the drained      *)
(* flows still prove everything, and the facade hands out the result of the *)
(* run it was asked for (_calibration/live.py:197-228, _async_sessions.py   *)
(* AsyncCalibrationSession.stop).                                           *)
ResultCertified ==
    /\ part = "calibration" => Calibration!ResultCertified
    /\ part = "async" => Async!OwnRun

(* A capture that is still owned can be stopped through its facade: a task  *)
(* or a future that failed is replaced, the pool is open, and a thread is   *)
(* free (_async_sessions.py stop, _ensure_stop_future, abort).              *)
CanBeStopped ==
    /\ part = "items" => Items!CanBeStopped
    /\ part = "async" => Async!Reachable

(* Calls end: a requested stop of a Solare session is carried out or told   *)
(* to be incomplete; who asks a calibration for a stop gets a result or an  *)
(* error, unless the stop had to be given up and owes a retry; and no call  *)
(* of stop, abort, poll or __exit__ hangs, in a thread or a coroutine,      *)
(* whatever others cancel (solare/session.py stop, _calibration/live.py     *)
(* stop, _async_utils.py, _async_sessions.py:286-308, 515-527).  Calls are  *)
(* bounded, so that one that hangs leaves its part waiting for ever.        *)
Waiting ==
    \/ /\ part = "solare"
       /\ session.requested /\ ~session.stopped /\ ~session.incomplete
    \/ /\ part = "calibration"
       /\ \/ live.requested /\ ~live.done /\ ~error /\ ~live.cancelled
          \/ \E t \in Clients : pc[t] # "idle"
    \/ /\ part = "items"
       /\ \E t \in Items!Tasks : task[t].at \notin {"idle", "polling"}
    \/ /\ part = "async"
       /\ \E t \in Async!Callers : Async!Waiting(t)
CallsEnd == Waiting ~> ~Waiting
===============================================================================
