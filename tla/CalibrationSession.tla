-------------------------- MODULE CalibrationSession --------------------------
(***************************************************************************)
(* CalibrationSession of _calibration/capture.py with the LiveCalibration  *)
(* worker of _calibration/live.py.  The worker assesses snapshots of the   *)
(* retained frames and may finish the run by itself; callers start, stop,  *)
(* leave the with-block, and ask for a stop.  Everything that finishes a   *)
(* run goes through finish() under _finish_lock.                           *)
(*                                                                         *)
(* What the retained frames prove is one of "partial", "complete" and      *)
(* "broken" (calibrate_frames raises); which one a frame leads to is the   *)
(* environment's choice.  The native capture is reduced to its thread; its *)
(* own lifecycle is PacketCapture's.                                       *)
(***************************************************************************)
EXTENDS Naturals, FiniteSets

CONSTANTS
    Callers,       \* application threads
    MaxRetained,   \* max_retained_frames
    MaxFrames,     \* bound: frames of one run
    MaxCalls,      \* bound: calls of start, stop and __exit__
    MaxFailures,   \* bound: failures, losses and expired deadlines
    None

CalibrationConstants ==
    /\ MaxRetained \in Nat \ {0} /\ MaxFrames \in Nat /\ MaxCalls \in Nat
    /\ MaxFailures \in Nat
    /\ "worker" \notin Callers
    /\ None \notin Callers \cup {"worker", "manual", "discarded", "error", "requested", "complete"}

Threads == Callers \cup {"worker"}

VARIABLES
    options,    \* stop_on_complete, and whether on_update is given
    held,       \* _capture and _manager are owned
    native,     \* the capture's thread: "none", "on" or "dead"
    error,      \* _error is set
    frames,     \* observed, what the retained ones prove, bytes known lost
    finalLoss,  \* _final_integrity_issues is not empty
    live,       \* the LiveCalibration of the run, or none
    lock,       \* owner of _finish_lock
    pc, why,    \* where each thread is; the reason it finishes for
    ready,      \* the worker's last assessment
    seen,       \* the revision it was made of
    calls, failures   \* bounds

vars == <<options, held, native, error, frames, finalLoss, live, lock, pc, why,
          ready, seen, calls, failures>>

NoFrames == [observed |-> 0, proof |-> "partial", lost |-> FALSE]
NewRun == [exists |-> TRUE, cancelled |-> FALSE, requested |-> FALSE, done |-> FALSE,
           result |-> FALSE, reason |-> None, incomplete |-> FALSE]

Init ==
    /\ options \in [auto : BOOLEAN, update : BOOLEAN]
    /\ held = FALSE /\ native = "none" /\ error = FALSE
    /\ frames = NoFrames /\ finalLoss = FALSE
    /\ live = [NewRun EXCEPT !.exists = FALSE]
    /\ lock = None
    /\ pc = [t \in Threads |-> IF t = "worker" THEN "absent" ELSE "idle"]
    /\ why = [t \in Threads |-> None]
    /\ ready = FALSE /\ seen = None
    /\ calls = 0 /\ failures = 0

Goto(t, label) == pc' = [pc EXCEPT ![t] = label]
Leave(t) ==
    /\ Goto(t, IF t = "worker" THEN "absent" ELSE "idle")
    /\ why' = [why EXCEPT ![t] = None]
MayFail == failures < MaxFailures /\ failures' = failures + 1

Enabled == options.auto \/ options.update
WorkerGone == pc["worker"] = "absent"

(* _integrity_issues, and retention.truncated.                              *)
Lost == finalLoss \/ (held /\ frames.lost)
Truncated == frames.observed > MaxRetained

(* readiness_issues, _integrity_issues and the truncation: no issue at all. *)
NoIssues == frames.proof = "complete" /\ ~Lost /\ ~Truncated

-----------------------------------------------------------------------------
(* _retain_frame: a frame may complete, spoil or break what is proven; the  *)
(* oldest one leaves when there are too many.                               *)
Retained(f) ==
    {[f EXCEPT !.observed = @ + 1, !.proof = p] : p \in {"partial", "complete", "broken"}}

FrameArrives ==
    /\ native = "on" /\ frames.observed < MaxFrames
    /\ frames' \in Retained(frames)
    /\ UNCHANGED <<options, held, native, error, finalLoss, live, lock, pc, why,
                   ready, seen, calls, failures>>

(* A gap reset, an evicted flow, or packets the backend dropped.            *)
LoseBytes ==
    /\ native = "on" /\ MayFail
    /\ frames' = [frames EXCEPT !.lost = TRUE]
    /\ UNCHANGED <<options, held, native, error, finalLoss, live, lock, pc, why,
                   ready, seen, calls>>

CaptureDies ==
    /\ native = "on" /\ MayFail /\ native' = "dead"
    /\ UNCHANGED <<options, held, error, frames, finalLoss, live, lock, pc, why,
                   ready, seen, calls>>

-----------------------------------------------------------------------------
(* _finish_capture.  A stop that is not verified keeps the capture and the  *)
(* flows; a verified one feeds the tail of the flows and drops them, and    *)
(* raises what failed before or now.                                        *)
StopUnverifiedDrops ==
    /\ MayFail /\ error' = TRUE /\ held' = FALSE
    /\ UNCHANGED <<native, frames, finalLoss>>

StopUnverified ==
    /\ MayFail /\ error' = TRUE
    /\ UNCHANGED <<held, native, frames, finalLoss>>

StopVerified ==
    /\ native' = IF native = "on" THEN "dead" ELSE native
    /\ held' = FALSE
    /\ frames' \in {frames} \cup (IF frames.observed < MaxFrames THEN Retained(frames) ELSE {})
    /\ finalLoss' = frames.lost
    /\ \/ error' = error /\ UNCHANGED failures
       \/ error' = TRUE /\ MayFail

(* start: reset, capture, worker.  A capture that fails to start is undone  *)
(* or, when it cannot be, kept; so is one whose worker cannot be started.   *)
StartRun(t) ==
    /\ pc[t] = "idle" /\ calls < MaxCalls /\ calls' = calls + 1
    /\ WorkerGone /\ lock = None /\ ~held
    /\ \A other \in Callers : pc[other] = "idle"
    /\ frames' = NoFrames /\ finalLoss' = FALSE
    /\ seen' = None /\ ready' = FALSE
    /\ \/ /\ held' = TRUE /\ native' = "on" /\ error' = FALSE /\ live' = NewRun
          /\ pc' = [pc EXCEPT !["worker"] = "loop"]
          /\ UNCHANGED failures
       \/ /\ MayFail /\ error' = TRUE /\ live' = [NewRun EXCEPT !.exists = FALSE]
          /\ \E kept \in BOOLEAN :
                held' = kept /\ native' = IF kept THEN "on" ELSE "dead"
          /\ UNCHANGED pc
       \/ /\ MayFail /\ error' = TRUE /\ live' = NewRun
          /\ held' = FALSE /\ native' = "dead"
          /\ UNCHANGED pc
    /\ UNCHANGED <<options, lock, why>>

-----------------------------------------------------------------------------
(* _run.  One turn looks at the requests and at the capture; it assesses    *)
(* only what has changed.                                                   *)
Fails(t) == Goto(t, "lock") /\ why' = [why EXCEPT ![t] = "error"]

WorkerTurn ==
    /\ pc["worker"] = "loop"
    /\ \/ live.cancelled /\ Leave("worker") /\ UNCHANGED error
       \/ /\ ~live.cancelled /\ live.requested
          /\ Goto("worker", "lock") /\ why' = [why EXCEPT !["worker"] = "requested"]
          /\ UNCHANGED error
       \/ /\ ~live.cancelled /\ ~live.requested /\ Enabled
          /\ IF error \/ native # "on"
             THEN error' = TRUE /\ Fails("worker")
             ELSE /\ seen # <<frames.observed, Lost>>
                  /\ Goto("worker", "assess") /\ UNCHANGED <<error, why>>
    /\ UNCHANGED <<options, held, native, frames, finalLoss, live, lock, ready, seen,
                   calls, failures>>

Assess ==
    /\ pc["worker"] = "assess"
    /\ ready' = NoIssues /\ seen' = <<frames.observed, Lost>>
    /\ IF live.cancelled THEN Leave("worker") ELSE Goto("worker", "emit") /\ UNCHANGED why
    /\ UNCHANGED <<options, held, native, error, frames, finalLoss, live, lock,
                   calls, failures>>

(* _emit to on_update, which may raise; a ready assessment is announced a   *)
(* second time as finalizing.                                               *)
Emit ==
    /\ pc["worker"] \in {"emit", "finalizing"}
    /\ \/ /\ options.update /\ MayFail /\ error' = TRUE /\ Fails("worker")
       \/ /\ UNCHANGED <<error, failures>>
          /\ \/ /\ pc["worker"] = "emit" /\ live.requested
                /\ Goto("worker", "lock") /\ why' = [why EXCEPT !["worker"] = "requested"]
             \/ /\ pc["worker"] = "emit" /\ ~live.requested
                /\ Goto("worker", IF options.auto /\ ready THEN "finalizing" ELSE "loop")
                /\ UNCHANGED why
             \/ /\ pc["worker"] = "finalizing"
                /\ IF live.cancelled THEN Leave("worker")
                   ELSE /\ Goto("worker", "lock")
                        /\ why' = [why EXCEPT !["worker"] = "complete"]
    /\ UNCHANGED <<options, held, native, frames, finalLoss, live, lock, ready, seen, calls>>

-----------------------------------------------------------------------------
(* finish and _finish.                                                      *)
Discards(t) == why[t] \in {"error", "discarded"}

(* A run that has its result returns it.                                    *)
FinishEnter(t) ==
    /\ pc[t] = "lock" /\ lock = None
    /\ IF live.result THEN Leave(t) /\ UNCHANGED lock
       ELSE lock' = t /\ Goto(t, "work") /\ UNCHANGED why
    /\ UNCHANGED <<options, held, native, error, frames, finalLoss, live, ready, seen,
                   calls, failures>>

(* An exception out of _finish: the worker takes it to its handler, which   *)
(* discards; a run whose capture is gone is done.                           *)
FinishRaises(t) ==
    /\ error' = TRUE /\ lock' = None
    /\ live' = [live EXCEPT !.reason = "error", !.done = @ \/ ~held']
    /\ IF t = "worker" /\ ~Discards(t) THEN Fails(t) ELSE Leave(t)

FinishDiscards(t) ==
    /\ live' = [live EXCEPT !.reason = why[t], !.done = @ \/ ~held']
    /\ lock' = None /\ Leave(t)

CloseRun(t) ==
    /\ pc[t] = "work"
    /\ \/ /\ ~held /\ Discards(t)
          /\ UNCHANGED <<held, native, error, frames, finalLoss, failures>>
          /\ FinishDiscards(t)
       \/ /\ ~held /\ ~Discards(t)
          /\ UNCHANGED <<held, native, frames, finalLoss, failures>>
          /\ FinishRaises(t)
       \/ held /\ StopUnverified /\ FinishRaises(t)
       \/ /\ held /\ StopVerified
          /\ IF error' THEN FinishRaises(t)
             ELSE IF Discards(t) THEN FinishDiscards(t)
             ELSE Goto(t, "certify") /\ UNCHANGED <<live, lock, why>>
    /\ UNCHANGED <<options, ready, seen, calls>>

(* The final frames are calibrated; a run that ends because it was complete *)
(* must still be.                                                           *)
Certify(t) ==
    /\ pc[t] = "certify"
    /\ UNCHANGED <<options, held, native, frames, finalLoss, ready, seen, calls, failures>>
    /\ IF frames.proof = "broken" \/ (why[t] = "complete" /\ ~NoIssues)
       THEN FinishRaises(t)
       ELSE /\ live' = [live EXCEPT !.reason = why[t]]
            /\ Goto(t, "announce") /\ UNCHANGED <<error, lock, why>>

(* The finished update, then the result; a raising callback has none.       *)
AnnounceResult(t) ==
    /\ pc[t] = "announce"
    /\ UNCHANGED <<options, held, native, frames, finalLoss, ready, seen, calls>>
    /\ \/ options.update /\ MayFail /\ FinishRaises(t)
       \/ /\ live' = [live EXCEPT !.result = TRUE, !.done = TRUE]
          /\ lock' = None /\ Leave(t)
          /\ UNCHANGED <<error, failures>>

Finish(t) == FinishEnter(t) \/ CloseRun(t) \/ Certify(t) \/ AnnounceResult(t)

-----------------------------------------------------------------------------
JoinOnly(t) == UNCHANGED live
CancelRun(t) == live' = [live EXCEPT !.cancelled = TRUE]

(* stop and __exit__: the worker is cancelled and joined first.             *)
Ending(t, reason) ==
    /\ pc[t] = "idle" /\ calls < MaxCalls /\ calls' = calls + 1
    /\ why' = [why EXCEPT ![t] = reason]
    /\ IF live.exists
       THEN CancelRun(t) /\ Goto(t, "join")
       ELSE Goto(t, "bare") /\ UNCHANGED live
    /\ UNCHANGED <<options, held, native, error, frames, finalLoss, lock, ready, seen,
                   failures>>

StopCall(t) == Ending(t, "manual")
ExitCall(t) == calls > 0 /\ Ending(t, "discarded")

(* LiveCalibration.join, and what follows it.  A run that is done raises    *)
(* its error; a with-block has nothing to do without a capture.             *)
Joined(t) ==
    /\ pc[t] = "join"
    /\ \/ /\ WorkerGone /\ live' = [live EXCEPT !.incomplete = FALSE]
          /\ IF \/ why[t] = "manual" /\ Enabled /\ live.done /\ error
                \/ why[t] = "discarded" /\ ~held
             THEN Leave(t)
             ELSE Goto(t, "lock") /\ UNCHANGED why
          /\ UNCHANGED failures
       \/ /\ ~WorkerGone /\ MayFail
          /\ live' = [live EXCEPT !.incomplete = TRUE] /\ Leave(t)
    /\ UNCHANGED <<options, held, native, error, frames, finalLoss, lock, ready,
                   seen, calls>>

(* A start that failed left a capture behind: stop() only retries it.       *)
BareStop(t) ==
    /\ pc[t] = "bare" /\ Leave(t)
    /\ \/ ~held /\ UNCHANGED <<held, native, error, frames, finalLoss, failures>>
       \/ held /\ (StopUnverified \/ StopVerified)
    /\ UNCHANGED <<options, live, lock, ready, seen, calls>>

RequestStop ==
    /\ live.exists /\ live' = [live EXCEPT !.requested = TRUE]
    /\ UNCHANGED <<options, held, native, error, frames, finalLoss, lock, pc, why,
                   ready, seen, calls, failures>>

(* raise_if_failed by the application, as wait() and calibrate_live do.     *)
Poll ==
    /\ held /\ native # "on" /\ error' = TRUE
    /\ UNCHANGED <<options, held, native, frames, finalLoss, live, lock, pc, why,
                   ready, seen, calls, failures>>

Environment == FrameArrives \/ LoseBytes \/ CaptureDies
Worker == WorkerTurn \/ Assess \/ Emit \/ Finish("worker")
Caller(t) == Finish(t) \/ Joined(t) \/ BareStop(t)

Next ==
    \/ Environment \/ Worker \/ RequestStop \/ Poll
    \/ \E t \in Callers : Caller(t) \/ StartRun(t) \/ StopCall(t) \/ ExitCall(t)

Spec == Init /\ [][Next]_vars

(* Threads that run keep running, callbacks return, and the last poll of an *)
(* application that waits happens; nobody has to call anything.             *)
FairSpec == Spec /\ WF_vars(Worker) /\ WF_vars(Poll) /\ \A t \in Callers : WF_vars(Caller(t))

-----------------------------------------------------------------------------
(* A thread that may still call into the flows belongs to a session that    *)
(* can stop it, also after a stop or a start that failed (capture.py:504    *)
(* and :373); and a run is over, for wait() and for start(), only when its  *)
(* capture is gone (live.py:228).                                           *)
CaptureOwned ==
    /\ native = "on" => held
    /\ live.done => ~held

(* A result means that nothing failed, that the capture is gone, and, for a *)
(* run that stopped itself, that the frames of the drained flows still      *)
(* prove everything, with nothing known lost or evicted (live.py:210); and  *)
(* later calls of stop() do not turn it into a failure (live.py:197).       *)
ResultCertified ==
    live.result =>
        /\ live.done /\ ~error /\ ~held /\ native # "on"
        /\ live.reason = "complete" =>
              frames.proof = "complete" /\ ~frames.lost /\ ~Truncated

(* Who asks for a stop gets a result or an error, unless a stop() that had  *)
(* to be given up has cancelled the worker and owes a retry; and no call of *)
(* stop() or __exit__ hangs, for the worker it joins ends.                  *)
CallsEnd ==
    /\ live.requested ~> (live.done \/ error \/ live.cancelled)
    /\ \A t \in Callers : (pc[t] # "idle") ~> (pc[t] = "idle")
=============================================================================
