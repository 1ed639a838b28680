---------------------------- MODULE CalibrationProofs ----------------------------
(***************************************************************************)
(* Calibration and its asynchronous facade, for any number of callers,      *)
(* frames, runs and failures: a result certifies its run, no capture is     *)
(* forgotten, and what still runs can be stopped through the facade.        *)
(* MCSessions holds both; the other parts do not touch their state.         *)
(***************************************************************************)
EXTENDS MCSessions, TLAPS

-----------------------------------------------------------------------------
(* CalibrationSession.                                                      *)
Reasons == {None, "manual", "discarded", "error", "requested", "complete"}
CalibrationLabels ==
    {"absent", "idle", "loop", "assess", "emit", "finalizing", "lock", "work", "certify",
     "announce", "join", "bare"}
InFinish == {"work", "certify", "announce"}

CalibrationFlags ==
    /\ options \in [auto : BOOLEAN, update : BOOLEAN]
    /\ held \in BOOLEAN /\ error \in BOOLEAN /\ finalLoss \in BOOLEAN
    /\ native \in {"none", "on", "dead"}
CalibrationFrames ==
    frames \in [observed : Nat, proof : {"partial", "complete", "broken"}, lost : BOOLEAN]
CalibrationLive ==
    live \in [exists : BOOLEAN, cancelled : BOOLEAN, requested : BOOLEAN, done : BOOLEAN,
              result : BOOLEAN, reason : Reasons, incomplete : BOOLEAN]
CalibrationThreads ==
    /\ pc \in [Calibration!Threads -> CalibrationLabels]
    /\ why \in [Calibration!Threads -> Reasons]
CalibrationTypes ==
    CalibrationFlags /\ CalibrationFrames /\ CalibrationLive /\ CalibrationThreads

CalibrationPlaces ==
    /\ \A t \in Calibration!Threads : pc[t] \in InFinish => lock = t
    /\ \A t \in Calibration!Threads : pc[t] \in InFinish \cup {"lock", "join"} => live.exists
    /\ \A t \in Calibration!Threads : pc[t] = "bare" => ~live.exists
    /\ \A t \in Clients : pc[t] \in InFinish \cup {"lock"} => pc["worker"] = "absent"
    /\ pc["worker"] # "absent" => live.exists

CaptureGone == ~held /\ native # "on" /\ ~error
StillProven == frames.proof = "complete" /\ ~frames.lost /\ frames.observed <= MaxRetained

CalibrationCertificate ==
    /\ \A t \in Calibration!Threads :
          pc[t] \in {"certify", "announce"} => CaptureGone /\ finalLoss = frames.lost
    /\ \A t \in Calibration!Threads :
          pc[t] = "announce" /\ live.reason = "complete" => StillProven

CalibrationResult ==
    live.result =>
        /\ live.exists /\ live.done /\ CaptureGone
        /\ live.reason = "complete" => StillProven
        /\ pc["worker"] = "absent"
        /\ \A t \in Calibration!Threads : pc[t] \notin InFinish

CalibrationOwned == (native = "on" => held) /\ (live.done => ~held)

CalibrationInv ==
    /\ CalibrationFlags /\ CalibrationFrames /\ CalibrationLive /\ CalibrationThreads
    /\ CalibrationPlaces /\ CalibrationCertificate /\ CalibrationResult
    /\ CalibrationOwned

(* The threads are the callers and the worker.                              *)
LEMMA CalThreads ==
    /\ "worker" \in Calibration!Threads /\ "worker" \notin Clients
    /\ Clients \subseteq Calibration!Threads /\ None \notin Calibration!Threads
    /\ Calibration!Threads = Clients \cup {"worker"}
BY SessionsConstants DEF Calibration!CalibrationConstants, Calibration!Threads

(* What the constants allow, as the leaves use it.                          *)
LEMMA CalConst ==
    /\ MaxRetained \in Nat
    /\ None \notin {"manual", "discarded", "error", "requested", "complete"}
BY SessionsConstants DEF Calibration!CalibrationConstants

(* Thread t goes on at one of the labels, and no other moves.               *)
Moved(t, labels) ==
    /\ CalibrationThreads'
    /\ pc'[t] \in labels
    /\ \A u \in Calibration!Threads \ {t} : pc'[u] = pc[u]

(* A thread that goes to a label moves, and no other.                       *)
LEMMA CalMoved ==
    ASSUME CalibrationThreads, NEW t \in Calibration!Threads, NEW l \in CalibrationLabels,
           NEW r \in Reasons, pc' = [pc EXCEPT ![t] = l],
           why' = why \/ why' = [why EXCEPT ![t] = r]
    PROVE  Moved(t, {l})
BY DEF Moved, CalibrationThreads

(* What a thread leaves behind that fails in finish(), or discards.         *)
Ended(t) ==
    /\ lock' = None
    /\ Moved(t, {"idle", "absent", "lock"}) /\ (pc'[t] # "idle" => t = "worker")
    /\ CalibrationLive' /\ live'.exists = live.exists /\ live'.result = live.result
    /\ live'.done => live.done \/ ~held'

(* A finish that raises or discards ends the call.                          *)
LEMMA CalEnded ==
    ASSUME CalibrationLive, CalibrationThreads, NEW t \in Calibration!Threads, held' \in BOOLEAN,
           Calibration!FinishRaises(t) \/ Calibration!FinishDiscards(t)
    PROVE  Ended(t)
<1>1. /\ why[t] \in Reasons
      /\ (live.done \/ ~held') \in BOOLEAN
  BY DEF CalibrationThreads, CalibrationLive
<1>2. PICK r \in Reasons : live' = [live EXCEPT !.reason = r, !.done = live.done \/ ~held']
  BY <1>1 DEF Calibration!FinishRaises, Calibration!FinishDiscards, Reasons
<1>3. /\ CalibrationLive' /\ live'.exists = live.exists /\ live'.result = live.result
      /\ live'.done => live.done \/ ~held'
  BY <1>1, <1>2 DEF CalibrationLive
<1>4. PICK l \in {"idle", "absent", "lock"}, q \in Reasons :
         /\ pc' = [pc EXCEPT ![t] = l] /\ why' = [why EXCEPT ![t] = q]
         /\ l # "idle" => t = "worker"
  BY DEF Calibration!FinishRaises, Calibration!FinishDiscards, Calibration!Leave,
     Calibration!Fails, Calibration!Goto, Reasons
<1>5. Moved(t, {l})
  BY <1>4, CalMoved DEF CalibrationLabels
<1> QED
  BY <1>3, <1>4, <1>5
  DEF Ended, Moved, Calibration!FinishRaises, Calibration!FinishDiscards

(* The last frames of the adapter keep the record of what was lost.         *)
LEMMA CalRetained ==
    ASSUME CalibrationFrames, NEW f \in Calibration!Retained(frames)
    PROVE  /\ f \in [observed : Nat, proof : {"partial", "complete", "broken"}, lost : BOOLEAN]
           /\ f.lost = frames.lost
<1>1. PICK p \in {"partial", "complete", "broken"} :
         f = [frames EXCEPT !.observed = frames.observed + 1, !.proof = p]
  BY DEF Calibration!Retained
<1>2. frames.observed + 1 \in Nat
  BY DEF CalibrationFrames
<1> QED
  BY <1>1, <1>2 DEF CalibrationFrames

(* What _finish_capture leaves behind: the capture, or nothing of it.       *)
CaptureStops ==
    /\ CalibrationFlags' /\ CalibrationFrames'
    /\ \/ UNCHANGED <<held, native, frames, finalLoss>>
       \/ ~held' /\ native' # "on" /\ finalLoss' = frames'.lost

(* The capture stops, verified or not, or fails to.                         *)
LEMMA CalStops ==
    ASSUME CalibrationFlags, CalibrationFrames, UNCHANGED options,
           \/ Calibration!StopUnverified \/ Calibration!StopVerified
           \/ UNCHANGED <<held, native, frames, finalLoss>> /\ error' \in {error, TRUE}
    PROVE  CaptureStops
<1>1. ASSUME Calibration!StopVerified PROVE CalibrationFrames' /\ frames'.lost = frames.lost
  <2>1. frames' = frames \/ frames' \in Calibration!Retained(frames)
    BY <1>1 DEF Calibration!StopVerified
  <2> QED
    BY <2>1, CalRetained DEF CalibrationFrames
<1>2. CASE Calibration!StopVerified
  BY <1>1, <1>2 DEF CaptureStops, Calibration!StopVerified, CalibrationFlags, CalibrationFrames
<1>3. CASE ~Calibration!StopVerified
  BY <1>3 DEF CaptureStops, Calibration!StopUnverified, CalibrationFlags, CalibrationFrames
<1> QED
  BY <1>2, <1>3

(* CloseRun: it ends, or goes on to certify what the drained flows prove.   *)
Closed(t) ==
    /\ pc[t] = "work" /\ CaptureStops
    /\ \/ Ended(t)
       \/ /\ Moved(t, {"certify"}) /\ UNCHANGED <<live, lock>>
          /\ CaptureGone' /\ finalLoss' = frames'.lost

(* Closing the run ends it, or goes on to certify.                          *)
LEMMA CalClosed ==
    ASSUME CalibrationFlags, CalibrationFrames, CalibrationLive, CalibrationThreads,
           NEW t \in Calibration!Threads, Calibration!CloseRun(t)
    PROVE  Closed(t)
<1>1. CaptureStops
  BY CalStops DEF Calibration!CloseRun, Calibration!FinishRaises, CalibrationFlags
<1>2. held' \in BOOLEAN
  BY <1>1 DEF CaptureStops, CalibrationFlags
<1>3. CASE Calibration!FinishRaises(t) \/ Calibration!FinishDiscards(t)
  BY <1>1, <1>2, <1>3, CalEnded DEF Closed, Calibration!CloseRun
<1>4. CASE ~(Calibration!FinishRaises(t) \/ Calibration!FinishDiscards(t))
  <2>1. /\ Calibration!StopVerified /\ ~error'
        /\ Calibration!Goto(t, "certify") /\ UNCHANGED <<live, lock, why>>
    BY <1>4 DEF Calibration!CloseRun
  <2>2. frames' = frames \/ frames' \in Calibration!Retained(frames)
    BY <2>1 DEF Calibration!StopVerified
  <2>3. frames'.lost = frames.lost
    BY <2>2, CalRetained
  <2>4. Moved(t, {"certify"})
    BY <2>1, CalMoved DEF Calibration!Goto, CalibrationLabels, Reasons
  <2>5. ~held' /\ native' # "on" /\ finalLoss' = frames.lost
    BY <2>1 DEF Calibration!StopVerified, CalibrationFlags
  <2> QED
    BY <1>1, <2>1, <2>3, <2>4, <2>5 DEF Closed, Calibration!CloseRun, CaptureGone
<1> QED
  BY <1>3, <1>4

(* Certify: it ends, or what it announces is proven.                        *)
Certified(t) ==
    /\ pc[t] = "certify" /\ UNCHANGED <<options, held, native, frames, finalLoss>>
    /\ \/ Ended(t) /\ error'
       \/ /\ Moved(t, {"announce"}) /\ UNCHANGED <<error, lock>>
          /\ CalibrationLive' /\ live'.exists = live.exists /\ live'.done = live.done
          /\ live'.result = live.result
          /\ live'.reason = "complete" => Calibration!NoIssues

(* Certifying ends the run, or goes on to announce.                         *)
LEMMA CalCertified ==
    ASSUME CalibrationFlags, CalibrationLive, CalibrationThreads,
           NEW t \in Calibration!Threads, Calibration!Certify(t)
    PROVE  Certified(t)
<1>1. held' \in BOOLEAN
  BY DEF Calibration!Certify, CalibrationFlags
<1>2. CASE Calibration!FinishRaises(t)
  BY <1>1, <1>2, CalEnded DEF Calibration!Certify, Calibration!FinishRaises, Certified
<1>3. CASE ~Calibration!FinishRaises(t)
  <2>1. /\ live' = [live EXCEPT !.reason = why[t]] /\ why[t] \in Reasons
        /\ pc' = [pc EXCEPT ![t] = "announce"] /\ UNCHANGED <<error, lock, why>>
        /\ why[t] = "complete" => Calibration!NoIssues
    BY <1>3 DEF Calibration!Certify, Calibration!Goto, CalibrationThreads
  <2>2. Moved(t, {"announce"})
    BY <2>1, CalMoved DEF CalibrationLabels
  <2>3. /\ CalibrationLive' /\ live'.exists = live.exists /\ live'.done = live.done
        /\ live'.result = live.result /\ live'.reason = why[t]
    BY <2>1 DEF CalibrationLive
  <2> QED
    BY <2>1, <2>2, <2>3 DEF Certified, Calibration!Certify
<1> QED
  BY <1>2, <1>3

(* AnnounceResult: it ends, or the run has its result.                      *)
Announced(t) ==
    /\ pc[t] = "announce" /\ UNCHANGED <<options, held, native, frames, finalLoss>>
    /\ \/ Ended(t) /\ error'
       \/ /\ Moved(t, {IF t = "worker" THEN "absent" ELSE "idle"})
          /\ CalibrationLive' /\ live'.exists = live.exists
          /\ live'.done /\ live'.result /\ live'.reason = live.reason
          /\ lock' = None /\ UNCHANGED error

(* Announcing the result stores it, or ends the run.                        *)
LEMMA CalAnnounced ==
    ASSUME CalibrationFlags, CalibrationLive, CalibrationThreads,
           NEW t \in Calibration!Threads, Calibration!AnnounceResult(t)
    PROVE  Announced(t)
<1>1. held' \in BOOLEAN
  BY DEF Calibration!AnnounceResult, CalibrationFlags
<1>2. CASE Calibration!FinishRaises(t)
  BY <1>1, <1>2, CalEnded DEF Calibration!AnnounceResult, Calibration!FinishRaises, Announced
<1>3. CASE ~Calibration!FinishRaises(t)
  <2>1. /\ live' = [live EXCEPT !.result = TRUE, !.done = TRUE]
        /\ lock' = None /\ Calibration!Leave(t) /\ UNCHANGED error
    BY <1>3 DEF Calibration!AnnounceResult
  <2>2. Moved(t, {IF t = "worker" THEN "absent" ELSE "idle"})
    BY <2>1, CalMoved DEF CalibrationLabels, Calibration!Leave, Calibration!Goto, Reasons
  <2>3. /\ CalibrationLive' /\ live'.exists = live.exists /\ live'.done
        /\ live'.result /\ live'.reason = live.reason
    BY <2>1 DEF CalibrationLive
  <2> QED
    BY <2>1, <2>2, <2>3 DEF Announced, Calibration!AnnounceResult
<1> QED
  BY <1>2, <1>3

(* Nothing runs at first.                                                   *)
LEMMA CalInit == Calibration!Init => CalibrationInv
<1> SUFFICES ASSUME Calibration!Init PROVE CalibrationInv
  OBVIOUS
<1>1. CalibrationFlags /\ CalibrationFrames
  BY DEF Calibration!Init, CalibrationFlags, CalibrationFrames, Calibration!NoFrames
<1>2. CalibrationLive /\ ~live.exists /\ ~live.result /\ ~live.done
  BY DEF Calibration!Init, CalibrationLive, Calibration!NewRun, Reasons
<1>3. CalibrationThreads /\ \A t \in Calibration!Threads : pc[t] \in {"absent", "idle"}
  BY DEF Calibration!Init, CalibrationThreads, Reasons, CalibrationLabels
<1>4. CalibrationPlaces
  BY <1>3, CalThreads DEF Calibration!Init, CalibrationPlaces, InFinish
<1> QED
  BY <1>1, <1>2, <1>3, <1>4
  DEF CalibrationInv, CalibrationCertificate, CalibrationResult, CalibrationOwned,
     Calibration!Init

(* start begins with nothing of the last run, when no thread is in a call.  *)
LEMMA CalStart ==
    ASSUME CalibrationInv,
           NEW t \in Clients,
           Calibration!StartRun(t)
    PROVE  CalibrationInv'
<1>1. CalibrationFlags'
  BY CalThreads, CalConst
  DEF CalibrationInv, CalibrationFlags, Calibration!StartRun, Calibration!MayFail,
      Calibration!WorkerGone, Calibration!NoFrames, Calibration!NewRun
<1>2. CalibrationFrames'
  BY CalThreads, CalConst
  DEF CalibrationInv, CalibrationFlags, CalibrationFrames, Calibration!StartRun,
      Calibration!MayFail, Calibration!WorkerGone, Calibration!NoFrames, Calibration!NewRun
<1>3. CalibrationLive'
  <2>1. /\ Calibration!NewRun \in
              [exists : BOOLEAN, cancelled : BOOLEAN, requested : BOOLEAN, done : BOOLEAN,
               result : BOOLEAN, reason : Reasons, incomplete : BOOLEAN]
        /\ [Calibration!NewRun EXCEPT !.exists = FALSE] \in
              [exists : BOOLEAN, cancelled : BOOLEAN, requested : BOOLEAN, done : BOOLEAN,
               result : BOOLEAN, reason : Reasons, incomplete : BOOLEAN]
    BY DEF Calibration!NewRun, Reasons
  <2>2. live' \in {Calibration!NewRun, [Calibration!NewRun EXCEPT !.exists = FALSE]}
    BY DEF Calibration!StartRun
  <2> QED
    BY <2>1, <2>2 DEF CalibrationLive
<1>4. CalibrationThreads'
  BY CalThreads, CalConst
  DEF CalibrationInv, CalibrationThreads, Calibration!StartRun, Calibration!MayFail,
      Calibration!WorkerGone, Calibration!NoFrames, Calibration!NewRun, Reasons,
      CalibrationLabels
<1>5. CalibrationPlaces'
  BY CalThreads, CalConst
  DEF CalibrationInv, CalibrationFlags, CalibrationFrames, CalibrationLive, CalibrationThreads,
      CalibrationPlaces, Calibration!StartRun, Calibration!MayFail, Calibration!WorkerGone,
      Calibration!NoFrames, Calibration!NewRun, CalibrationLabels, InFinish
<1>6. CalibrationCertificate'
  <2>1. \A u \in Calibration!Threads : pc'[u] \in {"idle", "absent", "loop"}
    BY CalThreads
    DEF CalibrationInv, CalibrationThreads, Calibration!StartRun, Calibration!WorkerGone
  <2> QED
    BY <2>1 DEF CalibrationCertificate
<1>7. CalibrationResult'
  BY CalThreads, CalConst
  DEF CalibrationInv, CalibrationFlags, CalibrationFrames, CalibrationLive, CalibrationThreads,
      CalibrationPlaces, CalibrationCertificate, CalibrationResult, Calibration!StartRun,
      Calibration!MayFail, Calibration!WorkerGone, Calibration!NoFrames, Calibration!NewRun,
      CalibrationLabels, InFinish, CaptureGone, StillProven
<1>8. CalibrationOwned'
  BY CalThreads, CalConst
  DEF CalibrationInv, CalibrationFlags, CalibrationLive, CalibrationCertificate,
      CalibrationOwned, Calibration!StartRun, Calibration!MayFail, Calibration!WorkerGone,
      Calibration!NoFrames, Calibration!NewRun, CaptureGone
<1> QED
  BY <1>1, <1>2, <1>3, <1>4, <1>5, <1>6, <1>7, <1>8 DEF CalibrationInv

(* A frame, a loss, or the end of the capture, while its thread runs.       *)
LEMMA CalFrames ==
    ASSUME CalibrationInv,
           Calibration!FrameArrives \/ Calibration!LoseBytes \/ Calibration!CaptureDies
    PROVE  CalibrationInv'
<1>1. CalibrationFlags'
  BY CalThreads, CalConst
  DEF CalibrationInv, CalibrationFlags, Calibration!FrameArrives, Calibration!LoseBytes,
      Calibration!CaptureDies, Calibration!MayFail
<1>2. CalibrationFrames'
  <2>1. \/ frames' \in Calibration!Retained(frames)
        \/ frames' = [frames EXCEPT !.lost = TRUE] \/ frames' = frames
    BY DEF Calibration!FrameArrives, Calibration!LoseBytes, Calibration!CaptureDies
  <2> QED
    BY <2>1, CalRetained DEF CalibrationInv, CalibrationFrames
<1>3. CalibrationLive'
  BY CalThreads, CalConst
  DEF CalibrationInv, CalibrationLive, CalibrationThreads, Calibration!FrameArrives,
      Calibration!LoseBytes, Calibration!CaptureDies, Calibration!MayFail, Reasons
<1>4. CalibrationThreads'
  BY CalThreads, CalConst
  DEF CalibrationInv, CalibrationThreads, Calibration!FrameArrives, Calibration!LoseBytes,
      Calibration!CaptureDies, Calibration!MayFail, Reasons, CalibrationLabels
<1>5. CalibrationPlaces'
  BY CalThreads, CalConst
  DEF CalibrationInv, CalibrationFlags, CalibrationFrames, CalibrationLive, CalibrationThreads,
      CalibrationPlaces, Calibration!FrameArrives, Calibration!LoseBytes,
      Calibration!CaptureDies, Calibration!MayFail, CalibrationLabels, InFinish
<1>6. CalibrationCertificate'
  BY CalThreads, CalConst
  DEF CalibrationInv, CalibrationFlags, CalibrationFrames, CalibrationLive, CalibrationThreads,
      CalibrationPlaces, CalibrationCertificate, Calibration!FrameArrives,
      Calibration!LoseBytes, Calibration!CaptureDies, Calibration!MayFail, CalibrationLabels,
      InFinish, CaptureGone, StillProven
<1>7. CalibrationResult'
  BY CalThreads, CalConst
  DEF CalibrationInv, CalibrationFlags, CalibrationFrames, CalibrationLive, CalibrationThreads,
      CalibrationPlaces, CalibrationCertificate, CalibrationResult, Calibration!FrameArrives,
      Calibration!LoseBytes, Calibration!CaptureDies, Calibration!MayFail, CalibrationLabels,
      InFinish, CaptureGone, StillProven
<1>8. CalibrationOwned'
  BY CalThreads, CalConst
  DEF CalibrationInv, CalibrationFlags, CalibrationLive, CalibrationCertificate,
      CalibrationOwned, Calibration!FrameArrives, Calibration!LoseBytes,
      Calibration!CaptureDies, Calibration!MayFail, CaptureGone
<1> QED
  BY <1>1, <1>2, <1>3, <1>4, <1>5, <1>6, <1>7, <1>8 DEF CalibrationInv

(* What the application asks for, or finds, without entering a call.        *)
LEMMA CalOutside ==
    ASSUME CalibrationInv,
           Calibration!RequestStop \/ Calibration!Poll
    PROVE  CalibrationInv'
<1>1. CalibrationFlags'
  BY CalThreads, CalConst
  DEF CalibrationInv, CalibrationFlags, Calibration!RequestStop, Calibration!Poll
<1>2. CalibrationFrames'
  BY CalThreads, CalConst
  DEF CalibrationInv, CalibrationFlags, CalibrationFrames, Calibration!RequestStop,
      Calibration!Poll
<1>3. CalibrationLive'
  BY CalThreads, CalConst
  DEF CalibrationInv, CalibrationLive, CalibrationThreads, Calibration!RequestStop,
      Calibration!Poll, Reasons
<1>4. CalibrationThreads'
  BY CalThreads, CalConst
  DEF CalibrationInv, CalibrationThreads, Calibration!RequestStop, Calibration!Poll, Reasons,
      CalibrationLabels
<1>5. CalibrationPlaces'
  BY CalThreads, CalConst
  DEF CalibrationInv, CalibrationFlags, CalibrationFrames, CalibrationLive, CalibrationThreads,
      CalibrationPlaces, Calibration!RequestStop, Calibration!Poll, CalibrationLabels, InFinish
<1>6. CalibrationCertificate'
  BY CalThreads, CalConst
  DEF CalibrationInv, CalibrationFlags, CalibrationFrames, CalibrationLive, CalibrationThreads,
      CalibrationPlaces, CalibrationCertificate, Calibration!RequestStop, Calibration!Poll,
      CalibrationLabels, InFinish, CaptureGone, StillProven
<1>7. CalibrationResult'
  BY CalThreads, CalConst
  DEF CalibrationInv, CalibrationFlags, CalibrationFrames, CalibrationLive, CalibrationThreads,
      CalibrationPlaces, CalibrationCertificate, CalibrationResult, Calibration!RequestStop,
      Calibration!Poll, CalibrationLabels, InFinish, CaptureGone, StillProven
<1>8. CalibrationOwned'
  BY CalThreads, CalConst
  DEF CalibrationInv, CalibrationFlags, CalibrationLive, CalibrationCertificate,
      CalibrationOwned, Calibration!RequestStop, Calibration!Poll, CaptureGone
<1> QED
  BY <1>1, <1>2, <1>3, <1>4, <1>5, <1>6, <1>7, <1>8 DEF CalibrationInv

(* A turn of the worker.                                                    *)
LEMMA CalTurn ==
    ASSUME CalibrationInv,
           Calibration!WorkerTurn
    PROVE  CalibrationInv'
<1>1. CalibrationFlags'
  BY CalThreads, CalConst
  DEF CalibrationInv, CalibrationFlags, Calibration!WorkerTurn, Calibration!Leave,
      Calibration!Goto, Calibration!Fails, Calibration!Enabled
<1>2. CalibrationFrames'
  BY CalThreads, CalConst
  DEF CalibrationInv, CalibrationFlags, CalibrationFrames, Calibration!WorkerTurn,
      Calibration!Leave, Calibration!Goto, Calibration!Fails, Calibration!Enabled
<1>3. CalibrationLive'
  BY CalThreads, CalConst
  DEF CalibrationInv, CalibrationLive, CalibrationThreads, Calibration!WorkerTurn,
      Calibration!Leave, Calibration!Goto, Calibration!Fails, Calibration!Enabled, Reasons
<1>4. CalibrationThreads'
  BY CalThreads, CalConst
  DEF CalibrationInv, CalibrationThreads, Calibration!WorkerTurn, Calibration!Leave,
      Calibration!Goto, Calibration!Fails, Calibration!Enabled, Reasons, CalibrationLabels
<1>5. CalibrationPlaces'
  BY CalThreads, CalConst
  DEF CalibrationInv, CalibrationFlags, CalibrationFrames, CalibrationLive, CalibrationThreads,
      CalibrationPlaces, Calibration!WorkerTurn, Calibration!Leave, Calibration!Goto,
      Calibration!Fails, Calibration!Enabled, CalibrationLabels, InFinish
<1>6. CalibrationCertificate'
  BY CalThreads, CalConst
  DEF CalibrationInv, CalibrationFlags, CalibrationFrames, CalibrationLive, CalibrationThreads,
      CalibrationPlaces, CalibrationCertificate, Calibration!WorkerTurn, Calibration!Leave,
      Calibration!Goto, Calibration!Fails, Calibration!Enabled, CalibrationLabels, InFinish,
      CaptureGone, StillProven
<1>7. CalibrationResult'
  BY CalThreads, CalConst
  DEF CalibrationInv, CalibrationFlags, CalibrationFrames, CalibrationLive, CalibrationThreads,
      CalibrationPlaces, CalibrationCertificate, CalibrationResult, Calibration!WorkerTurn,
      Calibration!Leave, Calibration!Goto, Calibration!Fails, Calibration!Enabled,
      CalibrationLabels, InFinish, CaptureGone, StillProven
<1>8. CalibrationOwned'
  BY CalThreads, CalConst
  DEF CalibrationInv, CalibrationFlags, CalibrationLive, CalibrationCertificate,
      CalibrationOwned, Calibration!WorkerTurn, Calibration!Leave, Calibration!Goto,
      Calibration!Fails, Calibration!Enabled, CaptureGone
<1> QED
  BY <1>1, <1>2, <1>3, <1>4, <1>5, <1>6, <1>7, <1>8 DEF CalibrationInv

(* The worker assesses what the frames prove.                               *)
LEMMA CalAssess ==
    ASSUME CalibrationInv,
           Calibration!Assess
    PROVE  CalibrationInv'
<1>1. CalibrationFlags'
  BY CalThreads, CalConst
  DEF CalibrationInv, CalibrationFlags, Calibration!Assess, Calibration!Leave, Calibration!Goto
<1>2. CalibrationFrames'
  BY CalThreads, CalConst
  DEF CalibrationInv, CalibrationFlags, CalibrationFrames, Calibration!Assess,
      Calibration!Leave, Calibration!Goto
<1>3. CalibrationLive'
  BY CalThreads, CalConst
  DEF CalibrationInv, CalibrationLive, CalibrationThreads, Calibration!Assess,
      Calibration!Leave, Calibration!Goto, Reasons
<1>4. CalibrationThreads'
  BY CalThreads, CalConst
  DEF CalibrationInv, CalibrationThreads, Calibration!Assess, Calibration!Leave,
      Calibration!Goto, Reasons, CalibrationLabels
<1>5. CalibrationPlaces'
  BY CalThreads, CalConst
  DEF CalibrationInv, CalibrationFlags, CalibrationFrames, CalibrationLive, CalibrationThreads,
      CalibrationPlaces, Calibration!Assess, Calibration!Leave, Calibration!Goto,
      CalibrationLabels, InFinish
<1>6. CalibrationCertificate'
  BY CalThreads, CalConst
  DEF CalibrationInv, CalibrationFlags, CalibrationFrames, CalibrationLive, CalibrationThreads,
      CalibrationPlaces, CalibrationCertificate, Calibration!Assess, Calibration!Leave,
      Calibration!Goto, CalibrationLabels, InFinish, CaptureGone, StillProven
<1>7. CalibrationResult'
  BY CalThreads, CalConst
  DEF CalibrationInv, CalibrationFlags, CalibrationFrames, CalibrationLive, CalibrationThreads,
      CalibrationPlaces, CalibrationCertificate, CalibrationResult, Calibration!Assess,
      Calibration!Leave, Calibration!Goto, CalibrationLabels, InFinish, CaptureGone, StillProven
<1>8. CalibrationOwned'
  BY CalThreads, CalConst
  DEF CalibrationInv, CalibrationFlags, CalibrationLive, CalibrationCertificate,
      CalibrationOwned, Calibration!Assess, Calibration!Leave, Calibration!Goto, CaptureGone
<1> QED
  BY <1>1, <1>2, <1>3, <1>4, <1>5, <1>6, <1>7, <1>8 DEF CalibrationInv

(* The worker announces it, and may go on to finish the run.                *)
LEMMA CalEmit ==
    ASSUME CalibrationInv,
           Calibration!Emit
    PROVE  CalibrationInv'
<1>1. CalibrationFlags'
  BY CalThreads, CalConst
  DEF CalibrationInv, CalibrationFlags, Calibration!Emit, Calibration!Leave, Calibration!Goto,
      Calibration!Fails, Calibration!MayFail
<1>2. CalibrationFrames'
  BY CalThreads, CalConst
  DEF CalibrationInv, CalibrationFlags, CalibrationFrames, Calibration!Emit, Calibration!Leave,
      Calibration!Goto, Calibration!Fails, Calibration!MayFail
<1>3. CalibrationLive'
  BY CalThreads, CalConst
  DEF CalibrationInv, CalibrationLive, CalibrationThreads, Calibration!Emit, Calibration!Leave,
      Calibration!Goto, Calibration!Fails, Calibration!MayFail, Reasons
<1>4. CalibrationThreads'
  BY CalThreads, CalConst
  DEF CalibrationInv, CalibrationThreads, Calibration!Emit, Calibration!Leave, Calibration!Goto,
      Calibration!Fails, Calibration!MayFail, Reasons, CalibrationLabels
<1>5. CalibrationPlaces'
  BY CalThreads, CalConst
  DEF CalibrationInv, CalibrationFlags, CalibrationFrames, CalibrationLive, CalibrationThreads,
      CalibrationPlaces, Calibration!Emit, Calibration!Leave, Calibration!Goto,
      Calibration!Fails, Calibration!MayFail, CalibrationLabels, InFinish
<1>6. CalibrationCertificate'
  BY CalThreads, CalConst
  DEF CalibrationInv, CalibrationFlags, CalibrationFrames, CalibrationLive, CalibrationThreads,
      CalibrationPlaces, CalibrationCertificate, Calibration!Emit, Calibration!Leave,
      Calibration!Goto, Calibration!Fails, Calibration!MayFail, CalibrationLabels, InFinish,
      CaptureGone, StillProven
<1>7. CalibrationResult'
  BY CalThreads, CalConst
  DEF CalibrationInv, CalibrationFlags, CalibrationFrames, CalibrationLive, CalibrationThreads,
      CalibrationPlaces, CalibrationCertificate, CalibrationResult, Calibration!Emit,
      Calibration!Leave, Calibration!Goto, Calibration!Fails, Calibration!MayFail,
      CalibrationLabels, InFinish, CaptureGone, StillProven
<1>8. CalibrationOwned'
  BY CalThreads, CalConst
  DEF CalibrationInv, CalibrationFlags, CalibrationLive, CalibrationCertificate,
      CalibrationOwned, Calibration!Emit, Calibration!Leave, Calibration!Goto,
      Calibration!Fails, Calibration!MayFail, CaptureGone
<1> QED
  BY <1>1, <1>2, <1>3, <1>4, <1>5, <1>6, <1>7, <1>8 DEF CalibrationInv

(* finish takes its lock unless there is a result.                          *)
LEMMA CalEnter ==
    ASSUME CalibrationInv,
           NEW t \in Calibration!Threads,
           Calibration!FinishEnter(t)
    PROVE  CalibrationInv'
<1>1. CalibrationFlags'
  BY CalThreads, CalConst
  DEF CalibrationInv, CalibrationFlags, Calibration!FinishEnter, Calibration!Leave,
      Calibration!Goto
<1>2. CalibrationFrames'
  BY CalThreads, CalConst
  DEF CalibrationInv, CalibrationFlags, CalibrationFrames, Calibration!FinishEnter,
      Calibration!Leave, Calibration!Goto
<1>3. CalibrationLive'
  BY CalThreads, CalConst
  DEF CalibrationInv, CalibrationLive, CalibrationThreads, Calibration!FinishEnter,
      Calibration!Leave, Calibration!Goto, Reasons
<1>4. CalibrationThreads'
  BY CalThreads, CalConst
  DEF CalibrationInv, CalibrationThreads, Calibration!FinishEnter, Calibration!Leave,
      Calibration!Goto, Reasons, CalibrationLabels
<1>5. CalibrationPlaces'
  BY CalThreads, CalConst
  DEF CalibrationInv, CalibrationFlags, CalibrationFrames, CalibrationLive, CalibrationThreads,
      CalibrationPlaces, Calibration!FinishEnter, Calibration!Leave, Calibration!Goto,
      CalibrationLabels, InFinish
<1>6. CalibrationCertificate'
  BY CalThreads, CalConst
  DEF CalibrationInv, CalibrationFlags, CalibrationFrames, CalibrationLive, CalibrationThreads,
      CalibrationPlaces, CalibrationCertificate, Calibration!FinishEnter, Calibration!Leave,
      Calibration!Goto, CalibrationLabels, InFinish, CaptureGone, StillProven
<1>7. CalibrationResult'
  BY CalThreads, CalConst
  DEF CalibrationInv, CalibrationFlags, CalibrationFrames, CalibrationLive, CalibrationThreads,
      CalibrationPlaces, CalibrationCertificate, CalibrationResult, Calibration!FinishEnter,
      Calibration!Leave, Calibration!Goto, CalibrationLabels, InFinish, CaptureGone, StillProven
<1>8. CalibrationOwned'
  BY CalThreads, CalConst
  DEF CalibrationInv, CalibrationFlags, CalibrationLive, CalibrationCertificate,
      CalibrationOwned, Calibration!FinishEnter, Calibration!Leave, Calibration!Goto,
      CaptureGone
<1> QED
  BY <1>1, <1>2, <1>3, <1>4, <1>5, <1>6, <1>7, <1>8 DEF CalibrationInv

(* The capture is stopped, and the run ends or is certified.                *)
LEMMA CalClose ==
    ASSUME CalibrationInv,
           NEW t \in Calibration!Threads,
           Closed(t)
    PROVE  CalibrationInv'
<1>1. CalibrationFlags'
  BY CalThreads, CalConst
  DEF CalibrationInv, CalibrationFlags, Closed, CaptureStops, Moved, Ended
<1>2. CalibrationFrames'
  BY CalThreads, CalConst
  DEF CalibrationInv, CalibrationFlags, CalibrationFrames, Closed, CaptureStops, Moved, Ended
<1>3. CalibrationLive'
  BY CalThreads, CalConst
  DEF CalibrationInv, CalibrationLive, CalibrationThreads, Closed, CaptureStops, Moved, Ended,
      Reasons
<1>4. CalibrationThreads'
  BY CalThreads, CalConst
  DEF CalibrationInv, CalibrationThreads, Closed, CaptureStops, Moved, Ended, Reasons,
      CalibrationLabels
<1>5. CalibrationPlaces'
  BY CalThreads, CalConst
  DEF CalibrationInv, CalibrationFlags, CalibrationFrames, CalibrationLive, CalibrationThreads,
      CalibrationPlaces, Closed, CaptureStops, Moved, Ended, CalibrationLabels, InFinish
<1>6. CalibrationCertificate'
  BY CalThreads, CalConst
  DEF CalibrationInv, CalibrationFlags, CalibrationFrames, CalibrationLive, CalibrationThreads,
      CalibrationPlaces, CalibrationCertificate, Closed, CaptureStops, Moved, Ended,
      CalibrationLabels, InFinish, CaptureGone, StillProven
<1>7. CalibrationResult'
  BY CalThreads, CalConst
  DEF CalibrationInv, CalibrationFlags, CalibrationFrames, CalibrationLive, CalibrationThreads,
      CalibrationPlaces, CalibrationCertificate, CalibrationResult, Closed, CaptureStops, Moved,
      Ended, CalibrationLabels, InFinish, CaptureGone, StillProven
<1>8. CalibrationOwned'
  BY CalThreads, CalConst
  DEF CalibrationInv, CalibrationFlags, CalibrationLive, CalibrationCertificate,
      CalibrationOwned, Closed, CaptureStops, Moved, Ended, CaptureGone
<1> QED
  BY <1>1, <1>2, <1>3, <1>4, <1>5, <1>6, <1>7, <1>8 DEF CalibrationInv

(* The final frames are certified.                                          *)
LEMMA CalCertify ==
    ASSUME CalibrationInv,
           NEW t \in Calibration!Threads,
           Certified(t)
    PROVE  CalibrationInv'
<1>1. CalibrationFlags'
  BY CalThreads, CalConst
  DEF CalibrationInv, CalibrationFlags, Certified, Moved, Ended, Calibration!NoIssues,
      Calibration!Lost, Calibration!Truncated
<1>2. CalibrationFrames'
  BY CalThreads, CalConst
  DEF CalibrationInv, CalibrationFlags, CalibrationFrames, Certified, Moved, Ended,
      Calibration!NoIssues, Calibration!Lost, Calibration!Truncated
<1>3. CalibrationLive'
  BY CalThreads, CalConst
  DEF CalibrationInv, CalibrationLive, CalibrationThreads, Certified, Moved, Ended,
      Calibration!NoIssues, Calibration!Lost, Calibration!Truncated, Reasons
<1>4. CalibrationThreads'
  BY CalThreads, CalConst
  DEF CalibrationInv, CalibrationThreads, Certified, Moved, Ended, Calibration!NoIssues,
      Calibration!Lost, Calibration!Truncated, Reasons, CalibrationLabels
<1>5. CalibrationPlaces'
  BY CalThreads, CalConst
  DEF CalibrationInv, CalibrationFlags, CalibrationFrames, CalibrationLive, CalibrationThreads,
      CalibrationPlaces, Certified, Moved, Ended, Calibration!NoIssues, Calibration!Lost,
      Calibration!Truncated, CalibrationLabels, InFinish
<1>6. CalibrationCertificate'
  BY CalThreads, CalConst
  DEF CalibrationInv, CalibrationFlags, CalibrationFrames, CalibrationLive, CalibrationThreads,
      CalibrationPlaces, CalibrationCertificate, Certified, Moved, Ended, Calibration!NoIssues,
      Calibration!Lost, Calibration!Truncated, CalibrationLabels, InFinish, CaptureGone,
      StillProven
<1>7. CalibrationResult'
  BY CalThreads, CalConst
  DEF CalibrationInv, CalibrationFlags, CalibrationFrames, CalibrationLive, CalibrationThreads,
      CalibrationPlaces, CalibrationCertificate, CalibrationResult, Certified, Moved, Ended,
      Calibration!NoIssues, Calibration!Lost, Calibration!Truncated, CalibrationLabels,
      InFinish, CaptureGone, StillProven
<1>8. CalibrationOwned'
  BY CalThreads, CalConst
  DEF CalibrationInv, CalibrationFlags, CalibrationLive, CalibrationCertificate,
      CalibrationOwned, Certified, Moved, Ended, Calibration!NoIssues, Calibration!Lost,
      Calibration!Truncated, CaptureGone
<1> QED
  BY <1>1, <1>2, <1>3, <1>4, <1>5, <1>6, <1>7, <1>8 DEF CalibrationInv

(* The result is announced and stored.                                      *)
LEMMA CalAnnounce ==
    ASSUME CalibrationInv,
           NEW t \in Calibration!Threads,
           Announced(t)
    PROVE  CalibrationInv'
<1>1. CalibrationFlags'
  BY CalThreads, CalConst
  DEF CalibrationInv, CalibrationFlags, Announced, Moved, Ended
<1>2. CalibrationFrames'
  BY CalThreads, CalConst
  DEF CalibrationInv, CalibrationFlags, CalibrationFrames, Announced, Moved, Ended
<1>3. CalibrationLive'
  BY CalThreads, CalConst
  DEF CalibrationInv, CalibrationLive, CalibrationThreads, Announced, Moved, Ended, Reasons
<1>4. CalibrationThreads'
  BY CalThreads, CalConst
  DEF CalibrationInv, CalibrationThreads, Announced, Moved, Ended, Reasons, CalibrationLabels
<1>5. CalibrationPlaces'
  BY CalThreads, CalConst
  DEF CalibrationInv, CalibrationFlags, CalibrationFrames, CalibrationLive, CalibrationThreads,
      CalibrationPlaces, Announced, Moved, Ended, CalibrationLabels, InFinish
<1>6. CalibrationCertificate'
  BY CalThreads, CalConst
  DEF CalibrationInv, CalibrationFlags, CalibrationFrames, CalibrationLive, CalibrationThreads,
      CalibrationPlaces, CalibrationCertificate, Announced, Moved, Ended, CalibrationLabels,
      InFinish, CaptureGone, StillProven
<1>7. CalibrationResult'
  BY ZenonT(60), CalThreads, CalConst
  DEF CalibrationInv, CalibrationFlags, CalibrationFrames, CalibrationLive, CalibrationThreads,
      CalibrationPlaces, CalibrationCertificate, CalibrationResult, Announced, Moved, Ended,
      CalibrationLabels, InFinish, CaptureGone, StillProven
<1>8. CalibrationOwned'
  BY CalThreads, CalConst
  DEF CalibrationInv, CalibrationFlags, CalibrationLive, CalibrationCertificate,
      CalibrationOwned, Announced, Moved, Ended, CaptureGone
<1> QED
  BY <1>1, <1>2, <1>3, <1>4, <1>5, <1>6, <1>7, <1>8 DEF CalibrationInv

(* A caller enters stop or __exit__.                                        *)
LEMMA CalEnding ==
    ASSUME CalibrationInv,
           NEW t \in Clients,
           Calibration!StopCall(t) \/ Calibration!ExitCall(t)
    PROVE  CalibrationInv'
<1>1. CalibrationFlags'
  BY CalThreads, CalConst
  DEF CalibrationInv, CalibrationFlags, Calibration!StopCall, Calibration!ExitCall,
      Calibration!Ending, Calibration!CancelRun, Calibration!Goto
<1>2. CalibrationFrames'
  BY CalThreads, CalConst
  DEF CalibrationInv, CalibrationFlags, CalibrationFrames, Calibration!StopCall,
      Calibration!ExitCall, Calibration!Ending, Calibration!CancelRun, Calibration!Goto
<1>3. CalibrationLive'
  BY ZenonT(60), CalThreads, CalConst
  DEF CalibrationInv, CalibrationLive, CalibrationThreads, Calibration!StopCall,
      Calibration!ExitCall, Calibration!Ending, Calibration!CancelRun, Calibration!Goto, Reasons
<1>4. CalibrationThreads'
  BY CalThreads, CalConst
  DEF CalibrationInv, CalibrationThreads, Calibration!StopCall, Calibration!ExitCall,
      Calibration!Ending, Calibration!CancelRun, Calibration!Goto, Reasons, CalibrationLabels
<1>5. CalibrationPlaces'
  BY CalThreads, CalConst
  DEF CalibrationInv, CalibrationFlags, CalibrationFrames, CalibrationLive, CalibrationThreads,
      CalibrationPlaces, Calibration!StopCall, Calibration!ExitCall, Calibration!Ending,
      Calibration!CancelRun, Calibration!Goto, CalibrationLabels, InFinish
<1>6. CalibrationCertificate'
  BY CalThreads, CalConst
  DEF CalibrationInv, CalibrationFlags, CalibrationFrames, CalibrationLive, CalibrationThreads,
      CalibrationPlaces, CalibrationCertificate, Calibration!StopCall, Calibration!ExitCall,
      Calibration!Ending, Calibration!CancelRun, Calibration!Goto, CalibrationLabels, InFinish,
      CaptureGone, StillProven
<1>7. CalibrationResult'
  BY CalThreads, CalConst
  DEF CalibrationInv, CalibrationFlags, CalibrationFrames, CalibrationLive, CalibrationThreads,
      CalibrationPlaces, CalibrationCertificate, CalibrationResult, Calibration!StopCall,
      Calibration!ExitCall, Calibration!Ending, Calibration!CancelRun, Calibration!Goto,
      CalibrationLabels, InFinish, CaptureGone, StillProven
<1>8. CalibrationOwned'
  BY CalThreads, CalConst
  DEF CalibrationInv, CalibrationFlags, CalibrationLive, CalibrationCertificate,
      CalibrationOwned, Calibration!StopCall, Calibration!ExitCall, Calibration!Ending,
      Calibration!CancelRun, Calibration!Goto, CaptureGone
<1> QED
  BY <1>1, <1>2, <1>3, <1>4, <1>5, <1>6, <1>7, <1>8 DEF CalibrationInv

(* It has joined the worker, or given up.                                   *)
LEMMA CalJoined ==
    ASSUME CalibrationInv,
           NEW t \in Clients,
           Calibration!Joined(t)
    PROVE  CalibrationInv'
<1>1. CalibrationFlags'
  BY CalThreads, CalConst
  DEF CalibrationInv, CalibrationFlags, Calibration!Joined, Calibration!WorkerGone,
      Calibration!Leave, Calibration!Goto, Calibration!MayFail
<1>2. CalibrationFrames'
  BY CalThreads, CalConst
  DEF CalibrationInv, CalibrationFlags, CalibrationFrames, Calibration!Joined,
      Calibration!WorkerGone, Calibration!Leave, Calibration!Goto, Calibration!MayFail
<1>3. CalibrationLive'
  BY ZenonT(60), CalThreads, CalConst
  DEF CalibrationInv, CalibrationLive, CalibrationThreads, Calibration!Joined,
      Calibration!WorkerGone, Calibration!Leave, Calibration!Goto, Calibration!MayFail, Reasons
<1>4. CalibrationThreads'
  BY CalThreads, CalConst
  DEF CalibrationInv, CalibrationThreads, Calibration!Joined, Calibration!WorkerGone,
      Calibration!Leave, Calibration!Goto, Calibration!MayFail, Reasons, CalibrationLabels
<1>5. CalibrationPlaces'
  BY CalThreads, CalConst
  DEF CalibrationInv, CalibrationFlags, CalibrationFrames, CalibrationLive, CalibrationThreads,
      CalibrationPlaces, Calibration!Joined, Calibration!WorkerGone, Calibration!Leave,
      Calibration!Goto, Calibration!MayFail, CalibrationLabels, InFinish
<1>6. CalibrationCertificate'
  BY CalThreads, CalConst
  DEF CalibrationInv, CalibrationFlags, CalibrationFrames, CalibrationLive, CalibrationThreads,
      CalibrationPlaces, CalibrationCertificate, Calibration!Joined, Calibration!WorkerGone,
      Calibration!Leave, Calibration!Goto, Calibration!MayFail, CalibrationLabels, InFinish,
      CaptureGone, StillProven
<1>7. CalibrationResult'
  BY CalThreads, CalConst
  DEF CalibrationInv, CalibrationFlags, CalibrationFrames, CalibrationLive, CalibrationThreads,
      CalibrationPlaces, CalibrationCertificate, CalibrationResult, Calibration!Joined,
      Calibration!WorkerGone, Calibration!Leave, Calibration!Goto, Calibration!MayFail,
      CalibrationLabels, InFinish, CaptureGone, StillProven
<1>8. CalibrationOwned'
  BY CalThreads, CalConst
  DEF CalibrationInv, CalibrationFlags, CalibrationLive, CalibrationCertificate,
      CalibrationOwned, Calibration!Joined, Calibration!WorkerGone, Calibration!Leave,
      Calibration!Goto, Calibration!MayFail, CaptureGone
<1> QED
  BY <1>1, <1>2, <1>3, <1>4, <1>5, <1>6, <1>7, <1>8 DEF CalibrationInv

(* A stop without a worker retries the capture alone.                       *)
LEMMA CalBare ==
    ASSUME CalibrationInv,
           NEW t \in Clients,
           Calibration!BareStop(t)
    PROVE  CalibrationInv'
<1>a. CaptureStops
  BY CalStops DEF CalibrationInv, Calibration!BareStop
<1>1. CalibrationFlags'
  BY CalThreads, CalConst, <1>a
  DEF CalibrationInv, CalibrationFlags, Calibration!BareStop, Calibration!Leave,
      Calibration!Goto, CaptureStops
<1>2. CalibrationFrames'
  BY CalThreads, CalConst, <1>a
  DEF CalibrationInv, CalibrationFlags, CalibrationFrames, Calibration!BareStop,
      Calibration!Leave, Calibration!Goto, CaptureStops
<1>3. CalibrationLive'
  BY CalThreads, CalConst, <1>a
  DEF CalibrationInv, CalibrationLive, CalibrationThreads, Calibration!BareStop,
      Calibration!Leave, Calibration!Goto, CaptureStops, Reasons
<1>4. CalibrationThreads'
  BY CalThreads, CalConst, <1>a
  DEF CalibrationInv, CalibrationThreads, Calibration!BareStop, Calibration!Leave,
      Calibration!Goto, CaptureStops, Reasons, CalibrationLabels
<1>5. CalibrationPlaces'
  BY CalThreads, CalConst, <1>a
  DEF CalibrationInv, CalibrationFlags, CalibrationFrames, CalibrationLive, CalibrationThreads,
      CalibrationPlaces, Calibration!BareStop, Calibration!Leave, Calibration!Goto,
      CaptureStops, CalibrationLabels, InFinish
<1>6. CalibrationCertificate'
  BY CalThreads, CalConst, <1>a
  DEF CalibrationInv, CalibrationFlags, CalibrationFrames, CalibrationLive, CalibrationThreads,
      CalibrationPlaces, CalibrationCertificate, Calibration!BareStop, Calibration!Leave,
      Calibration!Goto, CaptureStops, CalibrationLabels, InFinish, CaptureGone, StillProven
<1>7. CalibrationResult'
  BY CalThreads, CalConst, <1>a
  DEF CalibrationInv, CalibrationFlags, CalibrationFrames, CalibrationLive, CalibrationThreads,
      CalibrationPlaces, CalibrationCertificate, CalibrationResult, Calibration!BareStop,
      Calibration!Leave, Calibration!Goto, CaptureStops, CalibrationLabels, InFinish,
      CaptureGone, StillProven
<1>8. CalibrationOwned'
  BY CalThreads, CalConst, <1>a
  DEF CalibrationInv, CalibrationFlags, CalibrationLive, CalibrationCertificate,
      CalibrationOwned, Calibration!BareStop, Calibration!Leave, Calibration!Goto, CaptureStops,
      CaptureGone
<1> QED
  BY <1>1, <1>2, <1>3, <1>4, <1>5, <1>6, <1>7, <1>8 DEF CalibrationInv

(* Every step of a calibration preserves the invariant.                     *)
LEMMA CalNext == CalibrationInv /\ [Calibration!Next]_(Calibration!vars) => CalibrationInv'
<1> SUFFICES ASSUME CalibrationInv, [Calibration!Next]_(Calibration!vars) PROVE CalibrationInv'
  OBVIOUS
<1>1. ASSUME NEW t \in Calibration!Threads, Calibration!Finish(t) PROVE CalibrationInv'
  <2>1. CASE Calibration!FinishEnter(t)
    BY <2>1, CalEnter
  <2>2. CASE Calibration!CloseRun(t)
    BY <2>2, CalClosed, CalClose DEF CalibrationInv
  <2>3. CASE Calibration!Certify(t)
    BY <2>3, CalCertified, CalCertify DEF CalibrationInv
  <2>4. CASE Calibration!AnnounceResult(t)
    BY <2>4, CalAnnounced, CalAnnounce DEF CalibrationInv
  <2> QED
    BY <1>1, <2>1, <2>2, <2>3, <2>4 DEF Calibration!Finish
<1>2. CASE Calibration!Environment
  BY <1>2, CalFrames DEF Calibration!Environment
<1>3. CASE Calibration!Worker
  BY <1>1, <1>3, CalTurn, CalAssess, CalEmit, CalThreads DEF Calibration!Worker
<1>4. CASE Calibration!RequestStop \/ Calibration!Poll
  BY <1>4, CalOutside
<1>5. ASSUME NEW t \in Clients,
             \/ Calibration!Caller(t) \/ Calibration!StartRun(t)
             \/ Calibration!StopCall(t) \/ Calibration!ExitCall(t)
      PROVE CalibrationInv'
  <2>1. CASE Calibration!Caller(t)
    BY <1>1, <2>1, CalJoined, CalBare, CalThreads DEF Calibration!Caller
  <2>2. CASE ~Calibration!Caller(t)
    BY <1>5, <2>2, CalStart, CalEnding
  <2> QED
    BY <2>1, <2>2
<1>6. CASE UNCHANGED Calibration!vars
  BY <1>6
  DEF Calibration!vars, CalibrationInv, CalibrationFlags, CalibrationFrames, CalibrationLive,
     CalibrationThreads, CalibrationPlaces, CalibrationCertificate, CalibrationResult,
     CalibrationOwned, CaptureGone, StillProven
<1> QED
  BY <1>2, <1>3, <1>4, <1>5, <1>6 DEF Calibration!Next
-----------------------------------------------------------------------------
(* AsyncCalibrationSession.                                                 *)
AsyncLabels ==
    {"idle", "starting", "start settles", "start aborts", "stopping", "stop settles", "waiting"}
WorkRecords ==
    [kind : {"stop", "abort", "undo"}, result : Nat,
     state : {"busy", "returned", "raised", "done", "failed"}]

AsyncSync ==
    /\ sync \in [run : Nat, state : {"idle", "running", "done", "failed", "discarded"},
                 incomplete : BOOLEAN]
    /\ start \in {None, "busy", "ok", "failed"}
AsyncWork == work \in Seq(WorkRecords)
AsyncFacade ==
    facade \in [active : BOOLEAN, terminal : {None, "stop", "abort"}, stop : Nat, abort : Nat,
                result : Nat, run : Nat, outlived : BOOLEAN]
AsyncTasks == task \in [Async!Callers -> [at : AsyncLabels, work : Nat, run : Nat]]
AsyncWait ==
    wait \in [future : {None, "busy", "result", "failed", "empty"}, terminal : BOOLEAN,
              result : Nat]

(* A stop or an abort whose coroutine has not ended.                        *)
Unfinished(k) ==
    work[k].kind # "undo" /\ work[k].state # "done" /\ work[k].state # "failed"
Stopping(t) == task[t].at = "stopping" \/ task[t].at = "stop settles"
Awaits(t, k) == Stopping(t) /\ task[t].work = k
Awaited(k) == Awaits("control", k) \/ Awaits("other", k)
Returned(k) == work[k].state = "returned" \/ work[k].state = "done"
Starting == task["control"].at = "starting" \/ task["control"].at = "start settles"
Running == sync.state = "running"

(* The tasks the facade remembers, and the task each caller awaits.         *)
AsyncStopLink ==
    facade.stop # 0 =>
        facade.stop \in DOMAIN work /\ work[facade.stop].kind = "stop" /\ facade.terminal = "stop"
AsyncAbortLink ==
    facade.abort # 0 =>
        facade.abort \in DOMAIN work /\ work[facade.abort].kind = "abort"
            /\ facade.terminal = "abort"
AsyncTaskLinks ==
    \A t \in Async!Tasks : Stopping(t) =>
        task[t].work \in DOMAIN work /\ work[task[t].work].kind # "undo"
AsyncUndoLink ==
    task["control"].at = "start aborts" =>
        task["control"].work \in DOMAIN work /\ work[task["control"].work].kind = "undo"

(* A stop that returns has the result of the run it was called in, or of a  *)
(* later one.                                                               *)
AsyncLastRun == facade.run <= sync.run
AsyncCalledIn == \A t \in Async!Callers : task[t].run <= facade.run
AsyncStopResult ==
    facade.stop # 0 /\ Returned(facade.stop) => facade.run <= work[facade.stop].result
AsyncTaskResults ==
    \A t \in Async!Tasks :
        Stopping(t) /\ work[task[t].work].kind = "stop" /\ Returned(task[t].work) =>
            task[t].run <= work[task[t].work].result
AsyncOwnRun == ~wrong

(* What is left of a session that failed to start or to be undone.          *)
AsyncStarting == start # None <=> Starting
AsyncRetains == sync.incomplete => Running
AsyncFailedStart == start = "failed" /\ Running => sync.incomplete
AsyncUndone ==
    task["control"].at = "start aborts" /\ work[task["control"].work].state # "busy" /\ Running
        => sync.incomplete

(* While stops come one after another, nothing runs before a start does,    *)
(* and what runs is active.                                                 *)
Orderly == ~facade.outlived
AsyncIdle == Orderly /\ start = "busy" => ~Running /\ ~facade.active
AsyncActive ==
    Orderly /\ Running /\ ~Starting /\ task["control"].at # "start aborts" => facade.active

(* The unfinished stop is the one the facade remembers, and a caller awaits *)
(* it; one that failed is remembered while a caller has to see that.        *)
Remembered(k) == k = facade.stop \/ k = facade.abort
Owned(k) ==
    /\ Remembered(k) /\ facade.active
    /\ Awaited(k)
    /\ Running => work[k].state # "returned"
    /\ Running /\ work[k].state = "raised" => sync.incomplete
AsyncOwned == Orderly => \A k \in DOMAIN work : Unfinished(k) => Owned(k)
Failed(k) == Remembered(k) /\ work[k].state = "failed"
AsyncForgotten ==
    Orderly /\ Running /\ ~Starting =>
        \A k \in DOMAIN work : Failed(k) => sync.incomplete /\ Awaited(k)

AsyncInv ==
    /\ AsyncSync /\ AsyncWork /\ AsyncFacade /\ AsyncTasks /\ AsyncWait
    /\ AsyncStopLink /\ AsyncAbortLink /\ AsyncTaskLinks /\ AsyncUndoLink
    /\ AsyncLastRun /\ AsyncCalledIn /\ AsyncStopResult /\ AsyncTaskResults /\ AsyncOwnRun
    /\ AsyncStarting /\ AsyncRetains /\ AsyncFailedStart /\ AsyncUndone
    /\ AsyncIdle /\ AsyncActive /\ AsyncOwned /\ AsyncForgotten

(* The threads, the tasks, and what None is not.                            *)
LEMMA AsyncSets ==
    /\ Async!Callers = {"control", "other", "waiter"} /\ Async!Tasks = {"control", "other"}
    /\ None \notin {"stop", "abort", "busy", "ok", "failed"}
BY SessionsConstants DEF Async!AsyncCalibrationConstants, Async!Callers, Async!Tasks

(* control is a task; the waiter is a caller only.                          *)
LEMMA AsyncControl ==
    /\ "control" \in Async!Tasks /\ Async!Tasks \subseteq Async!Callers
    /\ "waiter" \notin Async!Tasks /\ "waiter" \in Async!Callers
BY AsyncSets

(* Runs and task numbers are natural numbers.                               *)
LEMMA AsyncNats ==
    ASSUME AsyncInv
    PROVE  /\ facade.run \in Nat /\ sync.run \in Nat
           /\ \A t \in Async!Callers : task[t].run \in Nat /\ task[t].work \in Nat
           /\ \A k \in DOMAIN work : work[k].result \in Nat /\ k \in Nat \ {0}
<1>1. facade.run \in Nat /\ sync.run \in Nat
  BY DEF AsyncInv, AsyncFacade, AsyncSync
<1>2. \A t \in Async!Callers : task[t].run \in Nat /\ task[t].work \in Nat
  BY DEF AsyncInv, AsyncTasks
<1>3. ASSUME NEW k \in DOMAIN work PROVE work[k].result \in Nat /\ k \in Nat \ {0}
  <2>1. k \in 1..Len(work) /\ Len(work) \in Nat
    BY DEF AsyncInv, AsyncWork
  <2>2. work[k] \in WorkRecords
    BY <2>1 DEF AsyncInv, AsyncWork
  <2> QED
    BY <2>1, <2>2 DEF WorkRecords
<1> QED
  BY <1>1, <1>2, <1>3

(* The runs alone.                                                          *)
LEMMA AsyncRunNats ==
    ASSUME AsyncInv
    PROVE  /\ facade.run \in Nat /\ sync.run \in Nat
           /\ \A t \in Async!Callers : task[t].run \in Nat
BY AsyncNats

(* Zero is no task's number.                                                *)
LEMMA AsyncZero == AsyncInv => 0 \notin DOMAIN work
BY AsyncNats

(* Task t goes on at a label, with what it awaits and the run it was called *)
(* in; no other does.                                                       *)
TaskMoves(t, label, k, r) ==
    /\ AsyncTasks'
    /\ task'[t].at = label /\ task'[t].work = k /\ task'[t].run = r
    /\ \A u \in Async!Callers \ {t} : task'[u] = task[u]

(* A caller that changes its label alone moves there.                       *)
LEMMA AsyncAt ==
    ASSUME AsyncTasks, NEW t \in Async!Callers, NEW l \in AsyncLabels,
           task' = [task EXCEPT ![t].at = l]
    PROVE  TaskMoves(t, l, task[t].work, task[t].run)
BY DEF TaskMoves, AsyncTasks

(* A caller that is given a place moves there.                              *)
LEMMA AsyncGoes ==
    ASSUME AsyncTasks, NEW t \in Async!Callers, NEW l \in AsyncLabels, NEW k \in Nat, NEW r \in Nat,
           task' = [task EXCEPT ![t] = [at |-> l, work |-> k, run |-> r]]
    PROVE  TaskMoves(t, l, k, r)
BY DEF TaskMoves, AsyncTasks

(* One task of the facade changes its state, or a new one begins.           *)
WorkMoves(k, state, r) ==
    /\ AsyncWork' /\ DOMAIN work' = DOMAIN work
    /\ \A j \in DOMAIN work : work'[j].kind = work[j].kind
    /\ \A j \in DOMAIN work : j # k => work'[j] = work[j]
    /\ work'[k].state = state /\ work'[k].result = r

(* A task of the facade that changes its state, or its result too.          *)
LEMMA AsyncMoves ==
    ASSUME AsyncWork, NEW k \in DOMAIN work,
           NEW s \in {"busy", "returned", "raised", "done", "failed"}, NEW r \in Nat,
           \/ work' = [work EXCEPT ![k].state = s] /\ r = work[k].result
           \/ work' = [work EXCEPT ![k].state = s, ![k].result = r]
    PROVE  WorkMoves(k, s, r)
<1>1. /\ work \in [1..Len(work) -> WorkRecords] /\ Len(work) \in Nat
      /\ DOMAIN work = 1..Len(work)
  BY DEF AsyncWork
<1>2. work[k] \in WorkRecords
  BY <1>1
<1>3. PICK w : /\ work' = [work EXCEPT ![k] = w]
               /\ w \in WorkRecords /\ w.kind = work[k].kind /\ w.state = s /\ w.result = r
  <2>1. CASE work' = [work EXCEPT ![k].state = s] /\ r = work[k].result
    <3>1. /\ work' = [work EXCEPT ![k] = [work[k] EXCEPT !.state = s]]
          /\ [work[k] EXCEPT !.state = s] \in WorkRecords
          /\ [work[k] EXCEPT !.state = s].kind = work[k].kind
          /\ [work[k] EXCEPT !.state = s].state = s
          /\ [work[k] EXCEPT !.state = s].result = r
      BY <1>2, <2>1 DEF WorkRecords
    <3> QED
      BY <3>1
  <2>2. CASE work' = [work EXCEPT ![k].state = s, ![k].result = r]
    <3>1. /\ work' = [work EXCEPT ![k] = [work[k] EXCEPT !.state = s, !.result = r]]
          /\ [work[k] EXCEPT !.state = s, !.result = r] \in WorkRecords
          /\ [work[k] EXCEPT !.state = s, !.result = r].kind = work[k].kind
          /\ [work[k] EXCEPT !.state = s, !.result = r].state = s
          /\ [work[k] EXCEPT !.state = s, !.result = r].result = r
      BY <1>1, <1>2, <2>2 DEF WorkRecords
    <3> QED
      BY <3>1
  <2> QED
    BY <2>1, <2>2
<1>4. /\ work' \in [1..Len(work) -> WorkRecords]
      /\ work'[k] = w /\ \A j \in DOMAIN work : j # k => work'[j] = work[j]
  BY <1>1, <1>3
<1>5. AsyncWork' /\ DOMAIN work' = DOMAIN work
  BY <1>1, <1>4 DEF AsyncWork
<1> QED
  BY <1>3, <1>4, <1>5 DEF WorkMoves

WorkAdds(n, kind) ==
    /\ AsyncWork' /\ n \in Nat \ {0} /\ n \notin DOMAIN work /\ n \in DOMAIN work'
    /\ \A j \in DOMAIN work' : j = n \/ j \in DOMAIN work
    /\ \A j \in DOMAIN work : j \in DOMAIN work' /\ work'[j] = work[j]
    /\ work'[n].kind = kind /\ work'[n].state = "busy"

(* A task of the facade that begins is the last of them.                    *)
LEMMA AsyncAdds ==
    ASSUME AsyncWork, NEW kind \in {"stop", "abort", "undo"},
           work' = Append(work, [kind |-> kind, state |-> "busy", result |-> 0])
    PROVE  WorkAdds(Len(work) + 1, kind)
<1>1. [kind |-> kind, state |-> "busy", result |-> 0] \in WorkRecords
  BY DEF WorkRecords
<1> QED
  BY <1>1 DEF WorkAdds, AsyncWork

(* A start that returns, or that is to be undone, forgets the last run.     *)
LEMMA AsyncNewRun ==
    ASSUME AsyncSync, AsyncFacade, NEW a \in BOOLEAN, facade' = Async!NewRun(facade, a)
    PROVE  /\ AsyncFacade' /\ facade'.active = a /\ facade'.stop = 0 /\ facade'.abort = 0
           /\ facade'.run = sync.run
           /\ ~facade'.outlived => ~facade.outlived /\ \A k \in DOMAIN work : ~Unfinished(k)
<1>1. facade' = [active |-> a, terminal |-> None, stop |-> 0, abort |-> 0, result |-> 0,
                 run |-> sync.run, outlived |-> facade.outlived \/ Async!InFlight]
      /\ (facade.outlived \/ Async!InFlight) \in BOOLEAN
  BY DEF Async!NewRun, AsyncFacade, Async!InFlight
<1>2. Async!InFlight <=> \E k \in DOMAIN work :
                           work[k].kind # "undo" /\ work[k].state \notin {"done", "failed"}
  BY DEF Async!InFlight
<1>3. AsyncFacade'
  BY <1>1 DEF AsyncFacade, AsyncSync
<1>4. /\ facade'.active = a /\ facade'.stop = 0 /\ facade'.abort = 0 /\ facade'.run = sync.run
      /\ facade'.outlived = (facade.outlived \/ Async!InFlight)
  BY <1>1
<1>5. ASSUME ~Async!InFlight, NEW k \in DOMAIN work PROVE ~Unfinished(k)
  BY <1>2, <1>5 DEF Unfinished
<1> QED
  BY <1>3, <1>4, <1>5

(* What could not be cleaned up is active, and its task is forgotten.       *)
LEMMA AsyncRetained ==
    ASSUME AsyncFacade, AsyncSync, NEW k, facade' = Async!Retained(facade, k)
    PROVE  /\ AsyncFacade' /\ facade'.run = facade.run /\ facade'.terminal = facade.terminal
           /\ facade'.outlived = facade.outlived
           /\ facade'.active = (facade.active \/ sync.incomplete)
           /\ facade'.stop = IF sync.incomplete /\ facade.stop = k THEN 0 ELSE facade.stop
           /\ facade'.abort = IF sync.incomplete /\ facade.abort = k THEN 0 ELSE facade.abort
BY DEF Async!Retained, AsyncFacade, AsyncSync

(* Nothing runs at first.                                                   *)
LEMMA AsyncInit == Async!Init => AsyncInv
<1> SUFFICES ASSUME Async!Init PROVE AsyncInv
  OBVIOUS
<1>a. /\ sync = [run |-> 0, state |-> "idle", incomplete |-> FALSE] /\ start = None /\ ~wrong
      /\ work = <<>> /\ DOMAIN work = {} /\ facade.stop = 0 /\ facade.abort = 0
      /\ facade.run = 0 /\ facade.active = FALSE
      /\ \A t \in Async!Callers : task[t].at = "idle" /\ task[t].run = 0
      /\ "control" \in Async!Callers /\ Async!Tasks \subseteq Async!Callers
  BY DEF Async!Init, Async!Callers, Async!Tasks
<1>1. AsyncSync
  BY AsyncSets
  DEF Async!Init, AsyncSync
<1>2. AsyncWork
  BY AsyncSets
  DEF Async!Init, AsyncWork, WorkRecords
<1>3. AsyncFacade
  BY AsyncSets
  DEF Async!Init, AsyncFacade
<1>4. AsyncTasks
  BY AsyncSets
  DEF Async!Init, AsyncTasks, AsyncLabels
<1>5. AsyncWait
  BY AsyncSets
  DEF Async!Init, AsyncWait
<1>6. AsyncStopLink
  BY <1>a, AsyncSets
  DEF AsyncStopLink
<1>7. AsyncAbortLink
  BY <1>a, AsyncSets
  DEF AsyncAbortLink
<1>8. AsyncTaskLinks
  BY <1>a, AsyncSets
  DEF AsyncTaskLinks, Stopping
<1>9. AsyncUndoLink
  BY <1>a, AsyncSets
  DEF AsyncUndoLink
<1>10. AsyncLastRun
  BY <1>a, AsyncSets
  DEF AsyncLastRun
<1>11. AsyncCalledIn
  BY <1>a, AsyncSets
  DEF AsyncCalledIn
<1>12. AsyncStopResult
  BY <1>a, AsyncSets
  DEF AsyncStopResult, Returned
<1>13. AsyncTaskResults
  BY <1>a, AsyncSets
  DEF AsyncTaskResults, Stopping, Returned
<1>14. AsyncOwnRun
  BY <1>a, AsyncSets
  DEF AsyncOwnRun
<1>15. AsyncStarting
  BY <1>a, AsyncSets
  DEF AsyncStarting, Starting
<1>16. AsyncRetains
  BY <1>a, AsyncSets
  DEF AsyncRetains, Running
<1>17. AsyncFailedStart
  BY <1>a, AsyncSets
  DEF AsyncFailedStart, Running
<1>18. AsyncUndone
  BY <1>a, AsyncSets
  DEF AsyncUndone, Running
<1>19. AsyncIdle
  BY <1>a, AsyncSets
  DEF AsyncIdle, Starting, Running
<1>20. AsyncActive
  BY <1>a, AsyncSets
  DEF AsyncActive, Starting, Running
<1>21. AsyncOwned
  BY <1>a, AsyncSets
  DEF AsyncOwned, Running, Unfinished, Stopping, Awaits, Awaited, Remembered, Owned
<1>22. AsyncForgotten
  BY <1>a, AsyncSets
  DEF AsyncForgotten, Starting, Running, Stopping, Awaits, Awaited, Remembered, Failed
<1> QED
  BY <1>1, <1>2, <1>3, <1>4, <1>5, <1>6, <1>7, <1>8, <1>9, <1>10, <1>11, <1>12, <1>13, <1>14,
      <1>15, <1>16, <1>17, <1>18, <1>19, <1>20, <1>21, <1>22 DEF AsyncInv

(* start is called.                                                         *)
LEMMA AsyncStartCall ==
    ASSUME AsyncInv,
           Async!StartCall
    PROVE  AsyncInv'
<1>a. TaskMoves("control", "starting", task["control"].work, task["control"].run)
  BY AsyncAt, AsyncSets DEF AsyncInv, Async!StartCall, AsyncLabels
<1>b. /\ task["control"].at = "idle" /\ ~facade.active /\ start' = "busy" /\ start' # None
      /\ UNCHANGED <<sync, work, facade, wrong>>
  BY AsyncSets DEF Async!StartCall, Async!At
<1>1. UNCHANGED <<sync, work, facade, wait, wrong>>
  BY DEF Async!StartCall
<1>2. AsyncWork' /\ AsyncFacade' /\ AsyncWait' /\ AsyncStopLink' /\ AsyncAbortLink'
  BY <1>1
  DEF AsyncInv, AsyncWork, AsyncFacade, AsyncWait, AsyncStopLink, AsyncAbortLink, WorkRecords
<1>3. AsyncLastRun' /\ AsyncStopResult' /\ AsyncOwnRun' /\ AsyncRetains'
  BY <1>1
  DEF AsyncInv, AsyncLastRun, AsyncStopResult, AsyncOwnRun, AsyncRetains, Returned, Running
<1>4. AsyncSync'
  BY AsyncSets, <1>a, <1>b
  DEF AsyncInv, AsyncSync, Async!StartCall, TaskMoves
<1>5. AsyncTasks'
  BY AsyncSets, <1>a, <1>b
  DEF AsyncInv, AsyncFacade, AsyncTasks, Async!StartCall, TaskMoves, AsyncLabels
<1>6. AsyncTaskLinks'
  BY <1>a, <1>b
  DEF AsyncInv, AsyncTaskLinks, TaskMoves, Async!Callers, Async!Tasks, Stopping
<1>7. AsyncUndoLink'
  BY <1>a, <1>b
  DEF AsyncInv, AsyncUndoLink, TaskMoves, Async!Callers, Async!Tasks
<1>8. AsyncCalledIn'
  BY <1>a, <1>b
  DEF AsyncInv, AsyncCalledIn, TaskMoves, Async!Callers, Async!Tasks
<1>9. AsyncTaskResults'
  BY <1>a, <1>b
  DEF AsyncInv, AsyncTaskResults, TaskMoves, Async!Callers, Async!Tasks, Stopping, Returned
<1>10. AsyncStarting'
  BY <1>a, <1>b
  DEF AsyncInv, AsyncStarting, TaskMoves, Async!Callers, Async!Tasks, Starting
<1>11. AsyncFailedStart'
  BY <1>a, <1>b
  DEF AsyncInv, AsyncFailedStart, TaskMoves, Async!Callers, Async!Tasks, Running
<1>12. AsyncUndone'
  BY <1>a, <1>b
  DEF AsyncInv, AsyncUndone, TaskMoves, Async!Callers, Async!Tasks, Running
<1>13. AsyncIdle'
  BY <1>a, <1>b
  DEF AsyncInv, AsyncIdle, AsyncActive, TaskMoves, Async!Callers, Async!Tasks, Orderly,
      Starting, Running
<1>14. AsyncActive'
  BY <1>a, <1>b
  DEF AsyncInv, AsyncActive, TaskMoves, Async!Callers, Async!Tasks, Orderly, Starting, Running
<1>15. AsyncOwned'
  BY <1>a, <1>b
  DEF AsyncInv, AsyncOwned, TaskMoves, Async!Callers, Async!Tasks, Orderly, Running, Unfinished,
      Stopping, Awaits, Awaited, Remembered, Owned
<1>16. AsyncForgotten'
  BY <1>a, <1>b
  DEF AsyncInv, AsyncForgotten, TaskMoves, Async!Callers, Async!Tasks, Orderly, Starting,
      Running, Stopping, Awaits, Awaited, Remembered, Failed
<1> QED
  BY <1>2, <1>3, <1>4, <1>5, <1>6, <1>7, <1>8, <1>9, <1>10, <1>11, <1>12, <1>13, <1>14, <1>15,
      <1>16 DEF AsyncInv

(* A start is cancelled.                                                    *)
LEMMA AsyncStartCancelled ==
    ASSUME AsyncInv,
           Async!StartCancelled
    PROVE  AsyncInv'
<1>a. TaskMoves("control", "start settles", task["control"].work, task["control"].run)
  BY AsyncAt, AsyncSets DEF AsyncInv, Async!StartCancelled, AsyncLabels
<1>b. task["control"].at = "starting" /\ UNCHANGED <<sync, start, work, facade, wrong>>
  BY DEF Async!StartCancelled, Async!At
<1>1. UNCHANGED <<sync, start, work, facade, wait, wrong>>
  BY DEF Async!StartCancelled
<1>2. AsyncSync' /\ AsyncWork' /\ AsyncFacade' /\ AsyncWait' /\ AsyncStopLink' /\
      AsyncAbortLink'
  BY <1>1
  DEF AsyncInv, AsyncSync, AsyncWork, AsyncFacade, AsyncWait, AsyncStopLink, AsyncAbortLink,
      WorkRecords
<1>3. AsyncLastRun' /\ AsyncStopResult' /\ AsyncOwnRun' /\ AsyncRetains' /\ AsyncFailedStart' /\
      AsyncIdle'
  BY <1>1
  DEF AsyncInv, AsyncLastRun, AsyncStopResult, AsyncOwnRun, AsyncRetains, AsyncFailedStart,
      AsyncIdle, Returned, Running, Orderly, Starting
<1>4. AsyncTasks'
  BY AsyncSets, <1>a, <1>b
  DEF AsyncInv, AsyncFacade, AsyncTasks, Async!StartCancelled, TaskMoves, AsyncLabels
<1>5. AsyncTaskLinks'
  BY <1>a, <1>b
  DEF AsyncInv, AsyncTaskLinks, TaskMoves, Async!Callers, Async!Tasks, Stopping
<1>6. AsyncUndoLink'
  BY <1>a, <1>b
  DEF AsyncInv, AsyncUndoLink, TaskMoves, Async!Callers, Async!Tasks
<1>7. AsyncCalledIn'
  BY <1>a, <1>b
  DEF AsyncInv, AsyncCalledIn, TaskMoves, Async!Callers, Async!Tasks
<1>8. AsyncTaskResults'
  BY <1>a, <1>b
  DEF AsyncInv, AsyncTaskResults, TaskMoves, Async!Callers, Async!Tasks, Stopping, Returned
<1>9. AsyncStarting'
  BY <1>a, <1>b
  DEF AsyncInv, AsyncStarting, TaskMoves, Async!Callers, Async!Tasks, Starting
<1>10. AsyncUndone'
  BY <1>a, <1>b
  DEF AsyncInv, AsyncUndone, TaskMoves, Async!Callers, Async!Tasks, Running
<1>11. AsyncActive'
  BY <1>a, <1>b
  DEF AsyncInv, AsyncActive, TaskMoves, Async!Callers, Async!Tasks, Orderly, Starting, Running
<1>12. AsyncOwned'
  BY <1>a, <1>b
  DEF AsyncInv, AsyncOwned, TaskMoves, Async!Callers, Async!Tasks, Orderly, Running, Unfinished,
      Stopping, Awaits, Awaited, Remembered, Owned
<1>13. AsyncForgotten'
  BY <1>a, <1>b
  DEF AsyncInv, AsyncForgotten, TaskMoves, Async!Callers, Async!Tasks, Orderly, Starting,
      Running, Stopping, Awaits, Awaited, Remembered, Failed
<1> QED
  BY <1>2, <1>3, <1>4, <1>5, <1>6, <1>7, <1>8, <1>9, <1>10, <1>11, <1>12, <1>13 DEF AsyncInv

(* A start returns.                                                         *)
LEMMA AsyncStartReturns ==
    ASSUME AsyncInv,
           Async!StartReturns
    PROVE  AsyncInv'
<1>a. TaskMoves("control", "idle", 0, 0)
  BY AsyncGoes, AsyncSets DEF AsyncInv, Async!StartReturns, Async!Return, AsyncLabels
<1>b. IF start = "ok" \/ sync.incomplete
      THEN /\ AsyncFacade' /\ facade'.active /\ facade'.stop = 0 /\ facade'.abort = 0
           /\ facade'.run = sync.run
           /\ ~facade'.outlived => ~facade.outlived /\ \A k \in DOMAIN work : ~Unfinished(k)
      ELSE facade' = facade /\ (start = "failed" \/ start = None)
  BY AsyncNewRun DEF AsyncInv, AsyncSync, Async!StartReturns
<1>c. /\ task["control"].at = "starting" /\ start # "busy" /\ start' = None /\ start' # "busy"
      /\ start' # "failed" /\ UNCHANGED <<sync, work, wrong>>
  BY AsyncSets DEF Async!StartReturns, Async!At
<1>d. start = "failed"  \/ start = "ok" \/ sync.incomplete
  BY <1>c, AsyncSets DEF AsyncInv, AsyncSync, AsyncStarting, Starting
<1>1. UNCHANGED <<sync, work, wait, wrong>>
  BY DEF Async!StartReturns
<1>2. AsyncWork' /\ AsyncWait' /\ AsyncOwnRun' /\ AsyncRetains'
  BY <1>1
  DEF AsyncInv, AsyncWork, AsyncWait, AsyncOwnRun, AsyncRetains, WorkRecords, Running
<1>3. AsyncSync'
  BY AsyncSets, <1>a, <1>b, <1>c
  DEF AsyncInv, AsyncSync, Async!StartReturns, TaskMoves
<1>4. AsyncFacade'
  BY AsyncSets, <1>a, <1>b, <1>c
  DEF AsyncInv, AsyncSync, AsyncFacade, AsyncWait, Async!StartReturns, TaskMoves
<1>5. AsyncTasks'
  BY AsyncSets, <1>a, <1>b, <1>c
  DEF AsyncInv, AsyncFacade, AsyncTasks, Async!StartReturns, TaskMoves, AsyncLabels
<1>6. AsyncStopLink'
  BY <1>a, <1>b, <1>c
  DEF AsyncInv, AsyncStopLink, TaskMoves, Async!Callers, Async!Tasks
<1>7. AsyncAbortLink'
  BY <1>a, <1>b, <1>c
  DEF AsyncInv, AsyncAbortLink, TaskMoves, Async!Callers, Async!Tasks
<1>8. AsyncTaskLinks'
  BY <1>a, <1>b, <1>c
  DEF AsyncInv, AsyncTaskLinks, TaskMoves, Async!Callers, Async!Tasks, Stopping
<1>9. AsyncUndoLink'
  BY <1>a, <1>b, <1>c
  DEF AsyncInv, AsyncUndoLink, TaskMoves, Async!Callers, Async!Tasks
<1>10. AsyncLastRun'
  <2>1. facade.run <= sync.run /\ sync.run <= sync.run /\ sync' = sync
    <3>1. facade.run \in Nat /\ sync.run \in Nat
      BY AsyncRunNats
    <3>2. sync' = sync
      BY <1>c
    <3>3. facade.run <= sync.run
      BY DEF AsyncInv, AsyncLastRun
    <3> QED
      BY <3>1, <3>2, <3>3
  <2>2. facade'.run = facade.run \/ facade'.run = sync.run
    BY <1>b
  <2> QED
    BY <2>1, <2>2 DEF AsyncLastRun
<1>11. AsyncCalledIn'
  <2> SUFFICES ASSUME NEW u \in Async!Callers PROVE task'[u].run <= facade'.run
    BY DEF AsyncCalledIn
  <2>1. /\ task[u].run <= facade.run /\ facade.run <= sync.run
        /\ task[u].run \in Nat /\ facade.run \in Nat /\ sync.run \in Nat
    BY AsyncRunNats DEF AsyncInv, AsyncCalledIn, AsyncLastRun
  <2>2. task'[u].run = task[u].run \/ task'[u].run = 0
    BY <1>a DEF TaskMoves
  <2>3. facade'.run = facade.run \/ facade'.run = sync.run
    BY <1>b
  <2> QED
    BY <2>1, <2>2, <2>3
<1>12. AsyncStopResult'
  BY <1>a, <1>b, <1>c
  DEF AsyncInv, AsyncStopResult, TaskMoves, Async!Callers, Async!Tasks, Returned
<1>13. AsyncTaskResults'
  BY <1>a, <1>b, <1>c
  DEF AsyncInv, AsyncTaskResults, TaskMoves, Async!Callers, Async!Tasks, Stopping, Returned
<1>14. AsyncStarting'
  BY <1>a, <1>b, <1>c
  DEF AsyncInv, AsyncStarting, TaskMoves, Async!Callers, Async!Tasks, Starting
<1>15. AsyncFailedStart'
  BY <1>a, <1>b, <1>c
  DEF AsyncInv, AsyncFailedStart, TaskMoves, Async!Callers, Async!Tasks, Running
<1>16. AsyncUndone'
  BY <1>a, <1>b, <1>c
  DEF AsyncInv, AsyncUndone, TaskMoves, Async!Callers, Async!Tasks, Running
<1>17. AsyncIdle'
  BY <1>a, <1>b, <1>c
  DEF AsyncInv, AsyncIdle, TaskMoves, Async!Callers, Async!Tasks, Orderly, Starting, Running
<1>18. AsyncActive'
  <2>1. CASE start = "ok" \/ sync.incomplete
    BY <1>a, <1>b, <2>1 DEF AsyncActive, Starting, TaskMoves
  <2>2. CASE ~(start = "ok" \/ sync.incomplete)
    <3>1. ~Running
      BY <1>d, <2>2 DEF AsyncInv, AsyncFailedStart
    <3> QED
      BY <1>c, <3>1 DEF AsyncActive, Running
  <2> QED
    BY <2>1, <2>2
<1>19. AsyncOwned'
  BY <1>a, <1>b, <1>c
  DEF AsyncInv, AsyncOwned, TaskMoves, Async!Callers, Async!Tasks, Orderly, Running, Unfinished,
      Stopping, Awaits, Awaited, Remembered, Owned
<1>20. AsyncForgotten'
  <2>1. CASE start = "ok" \/ sync.incomplete
    <3>1. facade'.stop = 0 /\ facade'.abort = 0
      BY <1>b, <2>1
    <3>2. 0 \notin DOMAIN work'
      BY <1>c, AsyncZero
    <3> QED
      BY <3>1, <3>2 DEF AsyncForgotten, Failed, Remembered
  <2>2. CASE ~(start = "ok" \/ sync.incomplete)
    <3>1. ~Running
      BY <1>d, <2>2 DEF AsyncInv, AsyncFailedStart
    <3> QED
      BY <1>c, <3>1 DEF AsyncForgotten, Running
  <2> QED
    BY <2>1, <2>2
<1> QED
  BY <1>2, <1>3, <1>4, <1>5, <1>6, <1>7, <1>8, <1>9, <1>10, <1>11, <1>12, <1>13, <1>14, <1>15,
      <1>16, <1>17, <1>18, <1>19, <1>20 DEF AsyncInv

(* A cancelled start has settled.                                           *)
LEMMA AsyncStartSettles ==
    ASSUME AsyncInv,
           Async!StartSettles
    PROVE  AsyncInv'
<1>a. IF start = "ok" \/ sync.incomplete
      THEN /\ AsyncFacade' /\ facade'.active = facade.active /\ facade'.stop = 0
           /\ facade'.abort = 0 /\ facade'.run = sync.run
           /\ ~facade'.outlived => ~facade.outlived /\ \A k \in DOMAIN work : ~Unfinished(k)
      ELSE facade' = facade /\ (start = "failed" \/ start = None)
  BY AsyncNewRun DEF AsyncInv, AsyncSync, AsyncFacade, Async!StartSettles
<1>b. IF start = "ok" \/ sync.incomplete
      THEN WorkAdds(Len(work) + 1, "undo") /\ TaskMoves("control", "start aborts", Len(work) + 1, 0)
      ELSE work' = work /\ TaskMoves("control", "idle", 0, 0)
  <2>1. CASE start = "ok" \/ sync.incomplete
    <3>1. WorkAdds(Len(work) + 1, "undo")
      BY <2>1, AsyncAdds DEF AsyncInv, Async!StartSettles
    <3>2. Len(work) + 1 \in Nat
      BY DEF AsyncInv, AsyncWork
    <3> QED
      BY <2>1, <3>1, <3>2, AsyncGoes, AsyncSets DEF AsyncInv, Async!StartSettles, AsyncLabels
  <2>2. CASE ~(start = "ok" \/ sync.incomplete)
    BY <2>2, AsyncGoes, AsyncSets DEF AsyncInv, Async!StartSettles, Async!Return, AsyncLabels
  <2> QED
    BY <2>1, <2>2
<1>c. /\ task["control"].at = "start settles" /\ start # "busy" /\ start' = None /\ start' # "busy"
      /\ start' # "failed" /\ UNCHANGED <<sync, wrong>>
  BY AsyncSets DEF Async!StartSettles, Async!At
<1>d. start = "failed"  \/ start = "ok" \/ sync.incomplete
  BY <1>c, AsyncSets DEF AsyncInv, AsyncSync, AsyncStarting, Starting
<1>1. UNCHANGED <<sync, wait, wrong>>
  BY DEF Async!StartSettles
<1>2. AsyncWait' /\ AsyncOwnRun' /\ AsyncRetains'
  BY <1>1
  DEF AsyncInv, AsyncWait, AsyncOwnRun, AsyncRetains, Running
<1>3. AsyncSync'
  BY AsyncSets, <1>a, <1>b, <1>c
  DEF AsyncInv, AsyncSync, Async!StartSettles, TaskMoves, WorkAdds
<1>4. AsyncWork'
  BY AsyncSets, <1>a, <1>b, <1>c
  DEF AsyncInv, AsyncWork, Async!StartSettles, TaskMoves, WorkAdds, WorkRecords
<1>5. AsyncFacade'
  BY AsyncSets, <1>a, <1>b, <1>c
  DEF AsyncInv, AsyncSync, AsyncFacade, AsyncWait, Async!StartSettles, TaskMoves, WorkAdds
<1>6. AsyncTasks'
  BY AsyncSets, <1>a, <1>b, <1>c
  DEF AsyncInv, AsyncFacade, AsyncTasks, Async!StartSettles, TaskMoves, WorkAdds, AsyncLabels
<1>7. AsyncStopLink'
  BY <1>a, <1>b, <1>c
  DEF AsyncInv, AsyncStopLink, TaskMoves, WorkAdds, Async!Callers, Async!Tasks
<1>8. AsyncAbortLink'
  BY <1>a, <1>b, <1>c
  DEF AsyncInv, AsyncAbortLink, TaskMoves, WorkAdds, Async!Callers, Async!Tasks
<1>9. AsyncTaskLinks'
  <2> SUFFICES ASSUME NEW u \in Async!Tasks, Stopping(u)'
               PROVE  task'[u].work \in DOMAIN work' /\ work'[task'[u].work].kind # "undo"
    BY DEF AsyncTaskLinks
  <2>1. u # "control" /\ u \in Async!Callers
    BY <1>b DEF Stopping, TaskMoves, Async!Callers, Async!Tasks
  <2>2. task'[u] = task[u] /\ Stopping(u)
    BY <1>b, <2>1 DEF TaskMoves, Stopping
  <2>3. task[u].work \in DOMAIN work /\ work[task[u].work].kind # "undo"
    BY <2>2 DEF AsyncInv, AsyncTaskLinks
  <2> QED
    BY <1>b, <2>2, <2>3 DEF WorkAdds
<1>10. AsyncUndoLink'
  BY <1>a, <1>b, <1>c
  DEF AsyncInv, AsyncUndoLink, TaskMoves, WorkAdds, Async!Callers, Async!Tasks
<1>11. AsyncLastRun'
  <2>1. facade.run <= sync.run /\ sync.run <= sync.run /\ sync' = sync
    <3>1. facade.run \in Nat /\ sync.run \in Nat
      BY AsyncRunNats
    <3>2. sync' = sync
      BY <1>c
    <3>3. facade.run <= sync.run
      BY DEF AsyncInv, AsyncLastRun
    <3> QED
      BY <3>1, <3>2, <3>3
  <2>2. facade'.run = facade.run \/ facade'.run = sync.run
    BY <1>a
  <2> QED
    BY <2>1, <2>2 DEF AsyncLastRun
<1>12. AsyncCalledIn'
  <2> SUFFICES ASSUME NEW u \in Async!Callers PROVE task'[u].run <= facade'.run
    BY DEF AsyncCalledIn
  <2>1. /\ task[u].run <= facade.run /\ facade.run <= sync.run
        /\ task[u].run \in Nat /\ facade.run \in Nat /\ sync.run \in Nat
    BY AsyncRunNats DEF AsyncInv, AsyncCalledIn, AsyncLastRun
  <2>2. task'[u].run = task[u].run \/ task'[u].run = 0
    BY <1>b DEF TaskMoves
  <2>3. facade'.run = facade.run \/ facade'.run = sync.run
    BY <1>a
  <2> QED
    BY <2>1, <2>2, <2>3
<1>13. AsyncStopResult'
  BY <1>a, <1>b, <1>c
  DEF AsyncInv, AsyncStopResult, TaskMoves, WorkAdds, Async!Callers, Async!Tasks, Returned
<1>14. AsyncTaskResults'
  BY ZenonT(60), <1>a, <1>b, <1>c
  DEF AsyncInv, AsyncTaskResults, AsyncTaskLinks, TaskMoves, WorkAdds, Async!Callers,
      Async!Tasks, Stopping, Returned
<1>15. AsyncStarting'
  BY <1>a, <1>b, <1>c
  DEF AsyncInv, AsyncStarting, TaskMoves, WorkAdds, Async!Callers, Async!Tasks, Starting
<1>16. AsyncFailedStart'
  BY <1>a, <1>b, <1>c
  DEF AsyncInv, AsyncFailedStart, TaskMoves, WorkAdds, Async!Callers, Async!Tasks, Running
<1>17. AsyncUndone'
  BY <1>a, <1>b, <1>c
  DEF AsyncInv, AsyncUndone, TaskMoves, WorkAdds, Async!Callers, Async!Tasks, Running
<1>18. AsyncIdle'
  BY <1>a, <1>b, <1>c
  DEF AsyncInv, AsyncIdle, TaskMoves, WorkAdds, Async!Callers, Async!Tasks, Orderly, Starting,
      Running
<1>19. AsyncActive'
  <2>1. CASE start = "ok" \/ sync.incomplete
    BY <1>a, <1>b, <2>1 DEF AsyncActive, Starting, TaskMoves
  <2>2. CASE ~(start = "ok" \/ sync.incomplete)
    <3>1. ~Running
      BY <1>d, <2>2 DEF AsyncInv, AsyncFailedStart
    <3> QED
      BY <1>c, <3>1 DEF AsyncActive, Running
  <2> QED
    BY <2>1, <2>2
<1>20. AsyncOwned'
  BY ZenonT(60), <1>a, <1>b, <1>c
  DEF AsyncInv, AsyncOwned, TaskMoves, WorkAdds, Async!Callers, Async!Tasks, Orderly, Running,
      Unfinished, Stopping, Awaits, Awaited, Remembered, Owned
<1>21. AsyncForgotten'
  <2>1. CASE start = "ok" \/ sync.incomplete
    <3>1. facade'.stop = 0 /\ facade'.abort = 0
      BY <1>a, <2>1
    <3>2. 0 \notin DOMAIN work'
      BY <1>b, <2>1, AsyncZero DEF WorkAdds
    <3> QED
      BY <3>1, <3>2 DEF AsyncForgotten, Failed, Remembered
  <2>2. CASE ~(start = "ok" \/ sync.incomplete)
    <3>1. ~Running
      BY <1>d, <2>2 DEF AsyncInv, AsyncFailedStart
    <3> QED
      BY <1>c, <3>1 DEF AsyncForgotten, Running
  <2> QED
    BY <2>1, <2>2
<1> QED
  BY <1>2, <1>3, <1>4, <1>5, <1>6, <1>7, <1>8, <1>9, <1>10, <1>11, <1>12, <1>13, <1>14, <1>15,
      <1>16, <1>17, <1>18, <1>19, <1>20, <1>21 DEF AsyncInv

(* A start that was cancelled has been undone, or is still owned.           *)
LEMMA AsyncStartAborts ==
    ASSUME AsyncInv,
           Async!StartAborts
    PROVE  AsyncInv'
<1>a. TaskMoves("control", "idle", 0, 0)
  BY AsyncGoes, AsyncSets DEF AsyncInv, Async!StartAborts, Async!Return, AsyncLabels
<1>b. /\ AsyncFacade' /\ facade'.active = (facade.active \/ sync.incomplete)
      /\ facade'.stop = facade.stop /\ facade'.abort = facade.abort
      /\ facade'.terminal = facade.terminal
      /\ facade'.run = facade.run /\ facade'.outlived = facade.outlived
  BY DEF AsyncInv, AsyncFacade, AsyncSync, Async!StartAborts
<1>c. /\ task["control"].at = "start aborts" /\ work[task["control"].work].state # "busy"
      /\ UNCHANGED <<sync, start, work, wrong>>
  BY DEF Async!StartAborts, Async!At
<1>1. UNCHANGED <<sync, start, work, wait, wrong>>
  BY DEF Async!StartAborts
<1>2. AsyncSync' /\ AsyncWork' /\ AsyncWait' /\ AsyncOwnRun' /\ AsyncRetains' /\
      AsyncFailedStart'
  BY <1>1
  DEF AsyncInv, AsyncSync, AsyncWork, AsyncWait, AsyncOwnRun, AsyncRetains, AsyncFailedStart,
      WorkRecords, Running
<1>3. AsyncFacade'
  BY AsyncSets, <1>a, <1>b, <1>c
  DEF AsyncInv, AsyncSync, AsyncFacade, AsyncWait, Async!StartAborts, TaskMoves
<1>4. AsyncTasks'
  BY AsyncSets, <1>a, <1>b, <1>c
  DEF AsyncInv, AsyncFacade, AsyncTasks, Async!StartAborts, TaskMoves, AsyncLabels
<1>5. AsyncStopLink'
  BY <1>a, <1>b, <1>c
  DEF AsyncInv, AsyncStopLink, TaskMoves, Async!Callers, Async!Tasks
<1>6. AsyncAbortLink'
  BY <1>a, <1>b, <1>c
  DEF AsyncInv, AsyncAbortLink, TaskMoves, Async!Callers, Async!Tasks
<1>7. AsyncTaskLinks'
  BY <1>a, <1>b, <1>c
  DEF AsyncInv, AsyncTaskLinks, TaskMoves, Async!Callers, Async!Tasks, Stopping
<1>8. AsyncUndoLink'
  BY <1>a, <1>b, <1>c
  DEF AsyncInv, AsyncUndoLink, TaskMoves, Async!Callers, Async!Tasks
<1>9. AsyncLastRun'
  BY <1>a, <1>b, <1>c
  DEF AsyncInv, AsyncLastRun, TaskMoves, Async!Callers, Async!Tasks
<1>10. AsyncCalledIn'
  <2> SUFFICES ASSUME NEW u \in Async!Callers PROVE task'[u].run <= facade'.run
    BY DEF AsyncCalledIn
  <2>1. /\ task[u].run <= facade.run /\ facade.run <= sync.run
        /\ task[u].run \in Nat /\ facade.run \in Nat /\ sync.run \in Nat
    BY AsyncRunNats DEF AsyncInv, AsyncCalledIn, AsyncLastRun
  <2>2. task'[u].run = task[u].run \/ task'[u].run = 0
    BY <1>a DEF TaskMoves
  <2>3. facade'.run = facade.run
    BY <1>b
  <2> QED
    BY <2>1, <2>2, <2>3
<1>11. AsyncStopResult'
  BY <1>a, <1>b, <1>c
  DEF AsyncInv, AsyncStopResult, TaskMoves, Async!Callers, Async!Tasks, Returned
<1>12. AsyncTaskResults'
  BY ZenonT(60), <1>a, <1>b, <1>c
  DEF AsyncInv, AsyncTaskResults, TaskMoves, Async!Callers, Async!Tasks, Stopping, Returned
<1>13. AsyncStarting'
  BY <1>a, <1>b, <1>c
  DEF AsyncInv, AsyncStarting, TaskMoves, Async!Callers, Async!Tasks, Starting
<1>14. AsyncUndone'
  BY <1>a, <1>b, <1>c
  DEF AsyncInv, AsyncUndone, TaskMoves, Async!Callers, Async!Tasks, Running
<1>15. AsyncIdle'
  <2>1. start # "busy"
    BY <1>c, AsyncSets DEF AsyncInv, AsyncStarting, Starting
  <2> QED
    BY <1>c, <2>1 DEF AsyncIdle
<1>16. AsyncActive'
  BY <1>a, <1>b, <1>c
  DEF AsyncInv, AsyncActive, AsyncUndone, TaskMoves, Async!Callers, Async!Tasks, Orderly,
      Starting, Running
<1>17. AsyncOwned'
  BY <1>a, <1>b, <1>c
  DEF AsyncInv, AsyncOwned, TaskMoves, Async!Callers, Async!Tasks, Orderly, Running, Unfinished,
      Stopping, Awaits, Awaited, Remembered, Owned
<1>18. AsyncForgotten'
  BY <1>a, <1>b, <1>c
  DEF AsyncInv, AsyncForgotten, TaskMoves, Async!Callers, Async!Tasks, Orderly, Starting,
      Running, Stopping, Awaits, Awaited, Remembered, Failed
<1> QED
  BY <1>2, <1>3, <1>4, <1>5, <1>6, <1>7, <1>8, <1>9, <1>10, <1>11, <1>12, <1>13, <1>14, <1>15,
      <1>16, <1>17, <1>18 DEF AsyncInv

(* stop is called, and joins the task there is or makes one.                *)
LEMMA AsyncStopCall ==
    ASSUME AsyncInv,
           NEW t \in Async!Tasks,
           Async!StopCall(t)
    PROVE  AsyncInv'
<1>a. IF facade.stop = 0
      THEN /\ WorkAdds(Len(work) + 1, "stop") /\ AsyncFacade' /\ facade'.terminal = "stop"
           /\ facade'.stop = Len(work) + 1 /\ facade'.abort = facade.abort
           /\ facade'.active = facade.active /\ facade'.run = facade.run
           /\ facade'.outlived = facade.outlived
      ELSE facade' = facade /\ work' = work
  <2>1. CASE facade.stop = 0
    <3>1. WorkAdds(Len(work) + 1, "stop")
      BY <2>1, AsyncAdds DEF AsyncInv, Async!StopCall
    <3>2. Len(work) + 1 \in Nat
      BY DEF AsyncInv, AsyncWork
    <3> QED
      BY <2>1, <3>1, <3>2 DEF AsyncInv, AsyncFacade, Async!StopCall
  <2>2. CASE facade.stop # 0
    BY <2>2 DEF Async!StopCall
  <2> QED
    BY <2>1, <2>2
<1>b. TaskMoves(t, "stopping", facade'.stop, facade.run)
  BY <1>a, AsyncGoes, AsyncSets
  DEF AsyncInv, AsyncFacade, Async!StopCall, Async!Await, AsyncLabels
<1>c. /\ task[t].at = "idle" /\ facade.terminal # "abort" /\ (facade.active \/ facade.stop # 0)
      /\ UNCHANGED <<sync, start, wrong>>
  BY DEF Async!StopCall, Async!At
<1>1. UNCHANGED <<sync, start, wait, wrong>>
  BY DEF Async!StopCall
<1>2. AsyncSync' /\ AsyncWait' /\ AsyncOwnRun' /\ AsyncRetains' /\ AsyncFailedStart'
  BY <1>1
  DEF AsyncInv, AsyncSync, AsyncWait, AsyncOwnRun, AsyncRetains, AsyncFailedStart, Running
<1>3. AsyncWork'
  BY AsyncSets, <1>a, <1>b, <1>c
  DEF AsyncInv, AsyncWork, Async!StopCall, TaskMoves, WorkAdds, WorkRecords
<1>4. AsyncFacade'
  BY AsyncSets, <1>a, <1>b, <1>c
  DEF AsyncInv, AsyncSync, AsyncFacade, AsyncWait, Async!StopCall, TaskMoves, WorkAdds
<1>5. AsyncTasks'
  BY AsyncSets, <1>a, <1>b, <1>c
  DEF AsyncInv, AsyncFacade, AsyncTasks, Async!StopCall, TaskMoves, WorkAdds, AsyncLabels
<1>6. AsyncStopLink'
  BY <1>a, <1>b, <1>c
  DEF AsyncInv, AsyncStopLink, TaskMoves, WorkAdds, Async!Callers, Async!Tasks
<1>7. AsyncAbortLink'
  BY <1>a, <1>b, <1>c
  DEF AsyncInv, AsyncAbortLink, TaskMoves, WorkAdds, Async!Callers, Async!Tasks
<1>8. AsyncTaskLinks'
  <2> SUFFICES ASSUME NEW u \in Async!Tasks, Stopping(u)'
               PROVE  task'[u].work \in DOMAIN work' /\ work'[task'[u].work].kind # "undo"
    BY DEF AsyncTaskLinks
  <2>1. CASE u = t
    <3>1. task'[u].work = facade'.stop
      BY <2>1, <1>b DEF TaskMoves
    <3> QED
      BY <1>a, <3>1 DEF AsyncInv, AsyncStopLink, WorkAdds
  <2>2. CASE u # t
    <3>1. task'[u] = task[u] /\ Stopping(u)
      BY <2>2, <1>b DEF TaskMoves, Stopping, Async!Callers, Async!Tasks
    <3>2. task[u].work \in DOMAIN work /\ work[task[u].work].kind # "undo"
      BY <3>1 DEF AsyncInv, AsyncTaskLinks
    <3> QED
      BY <1>a, <3>1, <3>2 DEF WorkAdds
  <2> QED
    BY <2>1, <2>2
<1>9. AsyncUndoLink'
  BY ZenonT(60), <1>a, <1>b, <1>c
  DEF AsyncInv, AsyncUndoLink, TaskMoves, WorkAdds, Async!Callers, Async!Tasks
<1>10. AsyncLastRun'
  BY <1>a, <1>b, <1>c
  DEF AsyncInv, AsyncLastRun, TaskMoves, WorkAdds, Async!Callers, Async!Tasks
<1>11. AsyncCalledIn'
  BY AsyncRunNats, <1>a, <1>b, <1>c
  DEF AsyncInv, AsyncCalledIn, TaskMoves, WorkAdds, Async!Callers, Async!Tasks
<1>12. AsyncStopResult'
  BY <1>a, <1>b, <1>c
  DEF AsyncInv, AsyncStopResult, AsyncStopLink, TaskMoves, WorkAdds, Async!Callers, Async!Tasks,
      Returned
<1>13. AsyncTaskResults'
  <2> SUFFICES ASSUME NEW u \in Async!Tasks, Stopping(u)', work'[task'[u].work].kind = "stop",
                      work'[task'[u].work].state \in {"returned", "done"}
               PROVE  task'[u].run <= work'[task'[u].work].result
    BY DEF AsyncTaskResults, Returned
  <2>1. CASE u = t
    <3>1. task'[u].work = facade'.stop /\ task'[u].run = facade.run
      BY <2>1, <1>b DEF TaskMoves
    <3>2. facade.stop # 0
      BY <1>a, <3>1 DEF WorkAdds
    <3>3. task'[u].work = facade.stop /\ work' = work
      BY <1>a, <3>1, <3>2
    <3> QED
      BY <3>1, <3>2, <3>3 DEF AsyncInv, AsyncStopLink, AsyncStopResult, Returned
  <2>2. CASE u # t
    <3>1. task'[u] = task[u] /\ Stopping(u)
      BY <2>2, <1>b DEF TaskMoves, Stopping, Async!Callers, Async!Tasks
    <3>2. task[u].work \in DOMAIN work
      BY <3>1 DEF AsyncInv, AsyncTaskLinks
    <3>3. work'[task[u].work] = work[task[u].work]
      BY <1>a, <3>2 DEF WorkAdds
    <3> QED
      BY <3>1, <3>2, <3>3 DEF AsyncInv, AsyncTaskResults, Returned
  <2> QED
    BY <2>1, <2>2
<1>14. AsyncStarting'
  BY <1>a, <1>b, <1>c
  DEF AsyncInv, AsyncStarting, TaskMoves, WorkAdds, Async!Callers, Async!Tasks, Starting
<1>15. AsyncUndone'
  BY <1>a, <1>b, <1>c
  DEF AsyncInv, AsyncUndone, AsyncUndoLink, TaskMoves, WorkAdds, Async!Callers, Async!Tasks,
      Running
<1>16. AsyncIdle'
  BY <1>a, <1>b, <1>c
  DEF AsyncInv, AsyncIdle, TaskMoves, WorkAdds, Async!Callers, Async!Tasks, Orderly, Starting,
      Running
<1>17. AsyncActive'
  BY <1>a, <1>b, <1>c
  DEF AsyncInv, AsyncActive, TaskMoves, WorkAdds, Async!Callers, Async!Tasks, Orderly, Starting,
      Running
<1>18. AsyncOwned'
  <2> SUFFICES ASSUME Orderly', NEW j \in DOMAIN work', Unfinished(j)' PROVE Owned(j)'
    BY DEF AsyncOwned
  <2>1. Orderly
    BY <1>a DEF Orderly
  <2>3. CASE j \in DOMAIN work
    <3>1. Unfinished(j) /\ work'[j] = work[j]
      BY <1>a, <2>3 DEF Unfinished, WorkAdds
    <3>2. Owned(j)
      BY <2>1, <2>3, <3>1 DEF AsyncInv, AsyncOwned
    <3>3. Remembered(j)'
      BY <1>a, <2>3, <3>2, AsyncZero DEF Owned, Remembered
    <3>4. Awaited(j)'
      BY <1>b, <1>c, <3>2
      DEF Owned, Awaited, Awaits, Stopping, TaskMoves, Async!Callers, Async!Tasks
    <3>5. facade'.active
      BY <1>a, <3>2 DEF Owned
    <3> QED
      BY <1>c, <3>1, <3>2, <3>3, <3>4, <3>5 DEF Owned, Running
  <2>4. CASE j \notin DOMAIN work
    <3>1. j = facade'.stop /\ work'[j].state = "busy"
      BY <1>a, <2>4 DEF WorkAdds
    <3>2. Awaited(j)'
      BY <1>b, <3>1 DEF Awaited, Awaits, Stopping, TaskMoves, Async!Callers, Async!Tasks
    <3>3. facade'.active
      BY <1>a, <1>c, <2>4
    <3> QED
      BY <3>1, <3>2, <3>3 DEF Owned, Remembered
  <2> QED
    BY <2>3, <2>4
<1>19. AsyncForgotten'
  BY ZenonT(60), AsyncZero, <1>a, <1>b, <1>c
  DEF AsyncInv, AsyncForgotten, TaskMoves, WorkAdds, Async!Callers, Async!Tasks, Orderly,
      Starting, Running, Stopping, Awaits, Awaited, Remembered, Failed
<1> QED
  BY <1>2, <1>3, <1>4, <1>5, <1>6, <1>7, <1>8, <1>9, <1>10, <1>11, <1>12, <1>13, <1>14, <1>15,
      <1>16, <1>17, <1>18, <1>19 DEF AsyncInv

(* abort is called, and joins the task there is or makes one.               *)
LEMMA AsyncAbortCall ==
    ASSUME AsyncInv,
           NEW t \in Async!Tasks,
           Async!AbortCall(t)
    PROVE  AsyncInv'
<1>a. IF facade.abort = 0
      THEN /\ WorkAdds(Len(work) + 1, "abort") /\ AsyncFacade' /\ facade'.terminal = "abort"
           /\ facade'.abort = Len(work) + 1 /\ facade'.stop = facade.stop
           /\ facade'.active = facade.active /\ facade'.run = facade.run
           /\ facade'.outlived = facade.outlived
      ELSE facade' = facade /\ work' = work
  <2>1. CASE facade.abort = 0
    <3>1. WorkAdds(Len(work) + 1, "abort")
      BY <2>1, AsyncAdds DEF AsyncInv, Async!AbortCall
    <3>2. Len(work) + 1 \in Nat
      BY DEF AsyncInv, AsyncWork
    <3> QED
      BY <2>1, <3>1, <3>2 DEF AsyncInv, AsyncFacade, Async!AbortCall
  <2>2. CASE facade.abort # 0
    BY <2>2 DEF Async!AbortCall
  <2> QED
    BY <2>1, <2>2
<1>b. TaskMoves(t, "stopping", facade'.abort, facade.run)
  BY <1>a, AsyncGoes, AsyncSets
  DEF AsyncInv, AsyncFacade, Async!AbortCall, Async!Await, AsyncLabels
<1>c. /\ task[t].at = "idle" /\ facade.terminal # "stop" /\ (facade.active \/ facade.abort # 0)
      /\ UNCHANGED <<sync, start, wrong>>
  BY DEF Async!AbortCall, Async!At
<1>1. UNCHANGED <<sync, start, wait, wrong>>
  BY DEF Async!AbortCall
<1>2. AsyncSync' /\ AsyncWait' /\ AsyncOwnRun' /\ AsyncRetains' /\ AsyncFailedStart'
  BY <1>1
  DEF AsyncInv, AsyncSync, AsyncWait, AsyncOwnRun, AsyncRetains, AsyncFailedStart, Running
<1>3. AsyncWork'
  BY AsyncSets, <1>a, <1>b, <1>c
  DEF AsyncInv, AsyncWork, Async!AbortCall, TaskMoves, WorkAdds, WorkRecords
<1>4. AsyncFacade'
  BY AsyncSets, <1>a, <1>b, <1>c
  DEF AsyncInv, AsyncSync, AsyncFacade, AsyncWait, Async!AbortCall, TaskMoves, WorkAdds
<1>5. AsyncTasks'
  BY AsyncSets, <1>a, <1>b, <1>c
  DEF AsyncInv, AsyncFacade, AsyncTasks, Async!AbortCall, TaskMoves, WorkAdds, AsyncLabels
<1>6. AsyncStopLink'
  BY <1>a, <1>b, <1>c
  DEF AsyncInv, AsyncStopLink, TaskMoves, WorkAdds, Async!Callers, Async!Tasks
<1>7. AsyncAbortLink'
  BY <1>a, <1>b, <1>c
  DEF AsyncInv, AsyncAbortLink, TaskMoves, WorkAdds, Async!Callers, Async!Tasks
<1>8. AsyncTaskLinks'
  <2> SUFFICES ASSUME NEW u \in Async!Tasks, Stopping(u)'
               PROVE  task'[u].work \in DOMAIN work' /\ work'[task'[u].work].kind # "undo"
    BY DEF AsyncTaskLinks
  <2>1. CASE u = t
    <3>1. task'[u].work = facade'.abort
      BY <2>1, <1>b DEF TaskMoves
    <3> QED
      BY <1>a, <3>1 DEF AsyncInv, AsyncAbortLink, WorkAdds
  <2>2. CASE u # t
    <3>1. task'[u] = task[u] /\ Stopping(u)
      BY <2>2, <1>b DEF TaskMoves, Stopping, Async!Callers, Async!Tasks
    <3>2. task[u].work \in DOMAIN work /\ work[task[u].work].kind # "undo"
      BY <3>1 DEF AsyncInv, AsyncTaskLinks
    <3> QED
      BY <1>a, <3>1, <3>2 DEF WorkAdds
  <2> QED
    BY <2>1, <2>2
<1>9. AsyncUndoLink'
  BY ZenonT(60), <1>a, <1>b, <1>c
  DEF AsyncInv, AsyncUndoLink, TaskMoves, WorkAdds, Async!Callers, Async!Tasks
<1>10. AsyncLastRun'
  BY <1>a, <1>b, <1>c
  DEF AsyncInv, AsyncLastRun, TaskMoves, WorkAdds, Async!Callers, Async!Tasks
<1>11. AsyncCalledIn'
  BY AsyncRunNats, <1>a, <1>b, <1>c
  DEF AsyncInv, AsyncCalledIn, TaskMoves, WorkAdds, Async!Callers, Async!Tasks
<1>12. AsyncStopResult'
  BY <1>a, <1>b, <1>c
  DEF AsyncInv, AsyncStopResult, AsyncStopLink, TaskMoves, WorkAdds, Async!Callers, Async!Tasks,
      Returned
<1>13. AsyncTaskResults'
  <2> SUFFICES ASSUME NEW u \in Async!Tasks, Stopping(u)', work'[task'[u].work].kind = "stop",
                      work'[task'[u].work].state \in {"returned", "done"}
               PROVE  task'[u].run <= work'[task'[u].work].result
    BY DEF AsyncTaskResults, Returned
  <2>1. CASE u = t
    <3>1. task'[u].work = facade'.abort /\ task'[u].run = facade.run
      BY <2>1, <1>b DEF TaskMoves
    <3>2. facade.abort # 0
      BY <1>a, <3>1 DEF WorkAdds
    <3>3. task'[u].work = facade.abort /\ work' = work
      BY <1>a, <3>1, <3>2
    <3> QED
      BY <3>1, <3>2, <3>3 DEF AsyncInv, AsyncAbortLink, AsyncStopResult, Returned
  <2>2. CASE u # t
    <3>1. task'[u] = task[u] /\ Stopping(u)
      BY <2>2, <1>b DEF TaskMoves, Stopping, Async!Callers, Async!Tasks
    <3>2. task[u].work \in DOMAIN work
      BY <3>1 DEF AsyncInv, AsyncTaskLinks
    <3>3. work'[task[u].work] = work[task[u].work]
      BY <1>a, <3>2 DEF WorkAdds
    <3> QED
      BY <3>1, <3>2, <3>3 DEF AsyncInv, AsyncTaskResults, Returned
  <2> QED
    BY <2>1, <2>2
<1>14. AsyncStarting'
  BY <1>a, <1>b, <1>c
  DEF AsyncInv, AsyncStarting, TaskMoves, WorkAdds, Async!Callers, Async!Tasks, Starting
<1>15. AsyncUndone'
  BY <1>a, <1>b, <1>c
  DEF AsyncInv, AsyncUndone, AsyncUndoLink, TaskMoves, WorkAdds, Async!Callers, Async!Tasks,
      Running
<1>16. AsyncIdle'
  BY <1>a, <1>b, <1>c
  DEF AsyncInv, AsyncIdle, TaskMoves, WorkAdds, Async!Callers, Async!Tasks, Orderly, Starting,
      Running
<1>17. AsyncActive'
  BY <1>a, <1>b, <1>c
  DEF AsyncInv, AsyncActive, TaskMoves, WorkAdds, Async!Callers, Async!Tasks, Orderly, Starting,
      Running
<1>18. AsyncOwned'
  <2> SUFFICES ASSUME Orderly', NEW j \in DOMAIN work', Unfinished(j)' PROVE Owned(j)'
    BY DEF AsyncOwned
  <2>1. Orderly
    BY <1>a DEF Orderly
  <2>3. CASE j \in DOMAIN work
    <3>1. Unfinished(j) /\ work'[j] = work[j]
      BY <1>a, <2>3 DEF Unfinished, WorkAdds
    <3>2. Owned(j)
      BY <2>1, <2>3, <3>1 DEF AsyncInv, AsyncOwned
    <3>3. Remembered(j)'
      BY <1>a, <2>3, <3>2, AsyncZero DEF Owned, Remembered
    <3>4. Awaited(j)'
      BY <1>b, <1>c, <3>2
      DEF Owned, Awaited, Awaits, Stopping, TaskMoves, Async!Callers, Async!Tasks
    <3>5. facade'.active
      BY <1>a, <3>2 DEF Owned
    <3> QED
      BY <1>c, <3>1, <3>2, <3>3, <3>4, <3>5 DEF Owned, Running
  <2>4. CASE j \notin DOMAIN work
    <3>1. j = facade'.abort /\ work'[j].state = "busy"
      BY <1>a, <2>4 DEF WorkAdds
    <3>2. Awaited(j)'
      BY <1>b, <3>1 DEF Awaited, Awaits, Stopping, TaskMoves, Async!Callers, Async!Tasks
    <3>3. facade'.active
      BY <1>a, <1>c, <2>4
    <3> QED
      BY <3>1, <3>2, <3>3 DEF Owned, Remembered
  <2> QED
    BY <2>3, <2>4
<1>19. AsyncForgotten'
  BY ZenonT(60), AsyncZero, <1>a, <1>b, <1>c
  DEF AsyncInv, AsyncForgotten, TaskMoves, WorkAdds, Async!Callers, Async!Tasks, Orderly,
      Starting, Running, Stopping, Awaits, Awaited, Remembered, Failed
<1> QED
  BY <1>2, <1>3, <1>4, <1>5, <1>6, <1>7, <1>8, <1>9, <1>10, <1>11, <1>12, <1>13, <1>14, <1>15,
      <1>16, <1>17, <1>18, <1>19 DEF AsyncInv

(* A call of stop or abort is cancelled.                                    *)
LEMMA AsyncStopCancelled ==
    ASSUME AsyncInv,
           NEW t \in Async!Tasks,
           Async!StopCancelled(t)
    PROVE  AsyncInv'
<1>a. TaskMoves(t, "stop settles", task[t].work, task[t].run)
  BY AsyncAt, AsyncSets DEF AsyncInv, Async!StopCancelled, AsyncLabels
<1>b. task[t].at = "stopping" /\ UNCHANGED <<sync, start, work, facade, wrong>>
  BY DEF Async!StopCancelled, Async!At
<1>1. UNCHANGED <<sync, start, work, facade, wait, wrong>>
  BY DEF Async!StopCancelled
<1>2. AsyncSync' /\ AsyncWork' /\ AsyncFacade' /\ AsyncWait' /\ AsyncStopLink' /\
      AsyncAbortLink'
  BY <1>1
  DEF AsyncInv, AsyncSync, AsyncWork, AsyncFacade, AsyncWait, AsyncStopLink, AsyncAbortLink,
      WorkRecords
<1>3. AsyncLastRun' /\ AsyncStopResult' /\ AsyncOwnRun' /\ AsyncRetains' /\ AsyncFailedStart' /\
      AsyncIdle'
  BY <1>1
  DEF AsyncInv, AsyncLastRun, AsyncStopResult, AsyncOwnRun, AsyncRetains, AsyncFailedStart,
      AsyncIdle, Returned, Running, Orderly, Starting
<1>4. AsyncTasks'
  BY AsyncSets, <1>a, <1>b
  DEF AsyncInv, AsyncFacade, AsyncTasks, Async!StopCancelled, TaskMoves, AsyncLabels
<1>5. AsyncTaskLinks'
  BY <1>a, <1>b
  DEF AsyncInv, AsyncTaskLinks, TaskMoves, Async!Callers, Async!Tasks, Stopping
<1>6. AsyncUndoLink'
  BY <1>a, <1>b
  DEF AsyncInv, AsyncUndoLink, TaskMoves, Async!Callers, Async!Tasks
<1>7. AsyncCalledIn'
  BY <1>a, <1>b
  DEF AsyncInv, AsyncCalledIn, TaskMoves, Async!Callers, Async!Tasks
<1>8. AsyncTaskResults'
  BY ZenonT(60), <1>a, <1>b
  DEF AsyncInv, AsyncTaskResults, TaskMoves, Async!Callers, Async!Tasks, Stopping, Returned
<1>9. AsyncStarting'
  BY <1>a, <1>b
  DEF AsyncInv, AsyncStarting, TaskMoves, Async!Callers, Async!Tasks, Starting
<1>10. AsyncUndone'
  BY <1>a, <1>b
  DEF AsyncInv, AsyncUndone, TaskMoves, Async!Callers, Async!Tasks, Running
<1>11. AsyncActive'
  BY <1>a, <1>b
  DEF AsyncInv, AsyncActive, TaskMoves, Async!Callers, Async!Tasks, Orderly, Starting, Running
<1>12. AsyncOwned'
  BY ZenonT(60), <1>a, <1>b
  DEF AsyncInv, AsyncOwned, TaskMoves, Async!Callers, Async!Tasks, Orderly, Running, Unfinished,
      Stopping, Awaits, Awaited, Remembered, Owned
<1>13. AsyncForgotten'
  BY ZenonT(60), <1>a, <1>b
  DEF AsyncInv, AsyncForgotten, TaskMoves, Async!Callers, Async!Tasks, Orderly, Starting,
      Running, Stopping, Awaits, Awaited, Remembered, Failed
<1> QED
  BY <1>2, <1>3, <1>4, <1>5, <1>6, <1>7, <1>8, <1>9, <1>10, <1>11, <1>12, <1>13 DEF AsyncInv

(* Who awaits a task goes on when it is over.                               *)
LEMMA AsyncResumes ==
    ASSUME AsyncInv,
           NEW t \in Async!Tasks,
           Async!Resumes(t)
    PROVE  AsyncInv'
<1>a. TaskMoves(t, "idle", 0, 0)
  BY AsyncGoes, AsyncSets DEF AsyncInv, Async!Resumes, Async!StopReturns, Async!StopSettles,
     Async!Return, AsyncLabels
<1>b. \/ facade' = facade /\ work[task[t].work].state = "done"
      \/ /\ AsyncFacade' /\ facade'.run = facade.run /\ facade'.terminal = facade.terminal
         /\ facade'.outlived = facade.outlived
         /\ facade'.active = (facade.active \/ sync.incomplete)
         /\ facade'.stop = IF sync.incomplete /\ facade.stop = task[t].work THEN 0 ELSE facade.stop
         /\ facade'.abort = IF sync.incomplete /\ facade.abort = task[t].work THEN 0
                            ELSE facade.abort
  BY AsyncRetained DEF AsyncInv, Async!Resumes, Async!StopReturns, Async!StopSettles
<1>c. /\ Stopping(t) /\ work[task[t].work].state \in {"done", "failed"}
      /\ UNCHANGED <<sync, start, work>>
  BY DEF Async!Resumes, Async!StopReturns, Async!StopSettles, Async!At, Async!Settled, Stopping
<1>d. wrong' = (wrong \/ (/\ work[task[t].work].state = "done"
                          /\ work[task[t].work].kind = "stop"
                          /\ work[task[t].work].result < task[t].run)) \/ wrong' = wrong
  BY DEF Async!Resumes, Async!StopReturns, Async!StopSettles
<1>e. (Starting' <=> Starting) /\ (task'["control"].at = "start aborts" <=>
                                      task["control"].at = "start aborts")
  BY <1>a, <1>c DEF Starting, Stopping, TaskMoves, Async!Callers, Async!Tasks
<1>1. UNCHANGED <<sync, start, work, wait>>
  BY DEF Async!Resumes, Async!StopReturns, Async!StopSettles
<1>2. AsyncSync' /\ AsyncWork' /\ AsyncWait' /\ AsyncRetains' /\ AsyncFailedStart'
  BY <1>1
  DEF AsyncInv, AsyncSync, AsyncWork, AsyncWait, AsyncRetains, AsyncFailedStart, WorkRecords,
      Running
<1>3. AsyncFacade'
  BY AsyncSets, <1>a, <1>b, <1>c, <1>d
  DEF AsyncInv, AsyncSync, AsyncFacade, AsyncWait, Async!Resumes, Async!StopReturns,
      Async!StopSettles, TaskMoves
<1>4. AsyncTasks'
  BY AsyncSets, <1>a, <1>b, <1>c, <1>d
  DEF AsyncInv, AsyncFacade, AsyncTasks, Async!Resumes, Async!StopReturns, Async!StopSettles,
      TaskMoves, AsyncLabels
<1>5. AsyncStopLink'
  BY <1>a, <1>b, <1>c, <1>d
  DEF AsyncInv, AsyncStopLink, TaskMoves, Async!Callers, Async!Tasks
<1>6. AsyncAbortLink'
  BY <1>a, <1>b, <1>c, <1>d
  DEF AsyncInv, AsyncAbortLink, TaskMoves, Async!Callers, Async!Tasks
<1>7. AsyncTaskLinks'
  BY <1>a, <1>b, <1>c, <1>d
  DEF AsyncInv, AsyncTaskLinks, TaskMoves, Async!Callers, Async!Tasks, Stopping
<1>8. AsyncUndoLink'
  BY <1>a, <1>b, <1>c, <1>d
  DEF AsyncInv, AsyncUndoLink, TaskMoves, Async!Callers, Async!Tasks
<1>9. AsyncLastRun'
  BY <1>a, <1>b, <1>c, <1>d
  DEF AsyncInv, AsyncLastRun, TaskMoves, Async!Callers, Async!Tasks
<1>10. AsyncCalledIn'
  BY AsyncRunNats, <1>a, <1>b, <1>c, <1>d
  DEF AsyncInv, AsyncCalledIn, TaskMoves, Async!Callers, Async!Tasks
<1>11. AsyncStopResult'
  BY <1>a, <1>b, <1>c, <1>d
  DEF AsyncInv, AsyncStopResult, TaskMoves, Async!Callers, Async!Tasks, Returned
<1>12. AsyncTaskResults'
  BY ZenonT(60), <1>a, <1>b, <1>c, <1>d
  DEF AsyncInv, AsyncTaskResults, TaskMoves, Async!Callers, Async!Tasks, Stopping, Returned
<1>13. AsyncOwnRun'
  <2>1. CASE work[task[t].work].state = "done" /\ work[task[t].work].kind = "stop"
    <3>1. /\ task[t].run <= work[task[t].work].result
          /\ task[t].run \in Int /\ work[task[t].work].result \in Int
      BY <1>c, <2>1, AsyncNats, AsyncControl
      DEF AsyncInv, AsyncTaskLinks, AsyncTaskResults, Returned
    <3>2. ~(work[task[t].work].result < task[t].run)
      BY <3>1
    <3> QED
      BY <1>d, <3>2 DEF AsyncInv, AsyncOwnRun
  <2>2. CASE ~(work[task[t].work].state = "done" /\ work[task[t].work].kind = "stop")
    BY <1>d, <2>2 DEF AsyncInv, AsyncOwnRun
  <2> QED
    BY <2>1, <2>2
<1>14. AsyncStarting'
  BY <1>c, <1>e DEF AsyncInv, AsyncStarting
<1>15. AsyncUndone'
  BY <1>a, <1>b, <1>c, <1>d
  DEF AsyncInv, AsyncUndone, TaskMoves, Async!Callers, Async!Tasks, Running
<1>16. AsyncIdle'
  <2>1. Orderly' <=> Orderly
    BY <1>b DEF Orderly
  <2>3. Orderly /\ start = "busy" => ~Running /\ ~facade.active /\ ~sync.incomplete
    BY DEF AsyncInv, AsyncIdle, AsyncRetains
  <2> QED
    BY <1>b, <1>c, <2>1, <2>3 DEF AsyncIdle, Running
<1>17. AsyncActive'
  <2>1. (Orderly' <=> Orderly) /\ (facade.active => facade'.active)
    BY <1>b DEF Orderly
  <2>2. task'["control"].at # "start aborts" /\ ~Starting' =>
            task["control"].at # "start aborts" /\ ~Starting
    BY <1>e
  <2> QED
    BY <1>c, <2>1, <2>2 DEF AsyncInv, AsyncActive, Running
<1>18. AsyncOwned'
  BY ZenonT(60), <1>a, <1>b, <1>c, <1>d
  DEF AsyncInv, AsyncOwned, TaskMoves, Async!Callers, Async!Tasks, Orderly, Running, Unfinished,
      Stopping, Awaits, Awaited, Remembered, Owned
<1>19. AsyncForgotten'
  <2> SUFFICES ASSUME Orderly', Running', ~Starting', NEW j \in DOMAIN work', Failed(j)'
               PROVE  sync'.incomplete /\ Awaited(j)'
    BY DEF AsyncForgotten
  <2>1. Orderly /\ Running /\ ~Starting /\ j \in DOMAIN work
    BY <1>b, <1>c, <1>e DEF Orderly, Running
  <2>2. j # 0
    BY <2>1, AsyncZero
  <2>3. Remembered(j) /\ work[j].state = "failed"
    BY <1>b, <1>c, <2>2 DEF Failed, Remembered
  <2>4. sync.incomplete /\ Awaited(j)
    BY <2>1, <2>3 DEF AsyncInv, AsyncForgotten, Failed
  <2>5. j # task[t].work
    BY <1>b, <1>c, <2>2, <2>3, <2>4 DEF Failed, Remembered
  <2>6. Awaited(j)'
    BY <1>a, <2>4, <2>5 DEF Awaited, Awaits, Stopping, TaskMoves, Async!Callers, Async!Tasks
  <2> QED
    BY <1>c, <2>4, <2>6
<1> QED
  BY <1>2, <1>3, <1>4, <1>5, <1>6, <1>7, <1>8, <1>9, <1>10, <1>11, <1>12, <1>13, <1>14, <1>15,
      <1>16, <1>17, <1>18, <1>19 DEF AsyncInv

(* _finish or _discard ends.                                                *)
LEMMA AsyncEnds ==
    ASSUME AsyncInv,
           NEW k \in DOMAIN work,
           Async!WorkEnds(k)
    PROVE  AsyncInv'
<1>a. WorkMoves(k, IF work[k].state = "raised" THEN "failed" ELSE "done", work[k].result)
  BY AsyncNats, AsyncMoves DEF AsyncInv, Async!WorkEnds
<1>b. /\ AsyncFacade' /\ facade'.run = facade.run /\ facade'.terminal = facade.terminal
      /\ facade'.outlived = facade.outlived
      /\ facade'.active = (work[k].state = "raised" /\ sync.incomplete)
      /\ facade'.stop = facade.stop /\ facade'.abort = facade.abort
  <2>1. /\ facade.result \in Nat /\ work[k].result \in Nat /\ Async!ResultOf(sync) \in Nat
    BY AsyncNats DEF AsyncInv, AsyncFacade, Async!ResultOf
  <2>2. PICK r \in Nat : facade' = [facade EXCEPT !.active = Async!StillActive(k), !.result = r]
    BY <2>1 DEF Async!WorkEnds
  <2>3. /\ Async!StillActive(k) \in BOOLEAN
        /\ Async!StillActive(k) = (work[k].state = "raised" /\ sync.incomplete)
    BY DEF AsyncInv, AsyncSync, Async!StillActive
  <2> QED
    BY <2>2, <2>3 DEF AsyncInv, AsyncFacade
<1>c. /\ work[k].kind \in {"stop", "abort"} /\ work[k].state \in {"returned", "raised"}
      /\ UNCHANGED <<sync, start, task, wrong>>
  BY DEF Async!WorkEnds
<1>1. UNCHANGED <<sync, start, task, wait, wrong>>
  BY DEF Async!WorkEnds
<1>2. AsyncSync' /\ AsyncTasks' /\ AsyncWait' /\ AsyncOwnRun'
  BY <1>1
  DEF AsyncInv, AsyncSync, AsyncTasks, AsyncWait, AsyncOwnRun, AsyncLabels
<1>3. AsyncStarting' /\ AsyncRetains' /\ AsyncFailedStart'
  BY <1>1
  DEF AsyncInv, AsyncStarting, AsyncRetains, AsyncFailedStart, Starting, Running
<1>4. AsyncWork'
  BY AsyncSets, <1>a, <1>b, <1>c
  DEF AsyncInv, AsyncWork, Async!WorkEnds, WorkMoves, WorkRecords
<1>5. AsyncFacade'
  BY AsyncSets, <1>a, <1>b, <1>c
  DEF AsyncInv, AsyncSync, AsyncFacade, AsyncWait, Async!WorkEnds, WorkMoves
<1>6. AsyncStopLink'
  BY <1>a, <1>b, <1>c
  DEF AsyncInv, AsyncStopLink, WorkMoves, Async!Callers, Async!Tasks
<1>7. AsyncAbortLink'
  BY <1>a, <1>b, <1>c
  DEF AsyncInv, AsyncAbortLink, WorkMoves, Async!Callers, Async!Tasks
<1>8. AsyncTaskLinks'
  BY <1>a, <1>b, <1>c
  DEF AsyncInv, AsyncTaskLinks, WorkMoves, Async!Callers, Async!Tasks, Stopping
<1>9. AsyncUndoLink'
  BY <1>a, <1>b, <1>c
  DEF AsyncInv, AsyncUndoLink, WorkMoves, Async!Callers, Async!Tasks
<1>10. AsyncLastRun'
  BY <1>a, <1>b, <1>c
  DEF AsyncInv, AsyncLastRun, WorkMoves, Async!Callers, Async!Tasks
<1>11. AsyncCalledIn'
  BY <1>a, <1>b, <1>c
  DEF AsyncInv, AsyncCalledIn, WorkMoves, Async!Callers, Async!Tasks
<1>12. AsyncStopResult'
  <2> SUFFICES ASSUME facade'.stop # 0, Returned(facade.stop)'
               PROVE  facade'.run <= work'[facade'.stop].result
    BY DEF AsyncStopResult
  <2>1. facade.stop # 0 /\ facade.stop \in DOMAIN work /\ work[facade.stop].kind = "stop"
    BY <1>a, <1>b, <1>c DEF AsyncInv, AsyncStopLink
  <2>2. CASE facade.stop = k
    BY <1>a, <1>b, <1>c, <2>1, <2>2, AsyncRunNats
    DEF AsyncInv, AsyncStopResult, AsyncLastRun, Returned, WorkMoves
  <2>3. CASE facade.stop # k
    BY <1>a, <1>b, <1>c, <2>1, <2>3 DEF AsyncInv, AsyncStopResult, Returned, WorkMoves
  <2> QED
    BY <2>2, <2>3
<1>13. AsyncTaskResults'
  <2> SUFFICES ASSUME NEW u \in Async!Tasks, Stopping(u)', work'[task'[u].work].kind = "stop",
                      work'[task'[u].work].state \in {"returned", "done"}
               PROVE  task'[u].run <= work'[task'[u].work].result
    BY DEF AsyncTaskResults, Returned
  <2>1. Stopping(u) /\ task'[u] = task[u]
    BY <1>c DEF Stopping
  <2>2. task[u].work \in DOMAIN work
    BY <2>1 DEF AsyncInv, AsyncTaskLinks
  <2>3. work[task[u].work].kind = "stop"
    BY <1>a, <2>1, <2>2 DEF WorkMoves
  <2>4. /\ task[u].run <= facade.run /\ facade.run <= sync.run
        /\ task[u].run \in Nat /\ facade.run \in Nat /\ sync.run \in Nat
    BY AsyncRunNats, AsyncControl DEF AsyncInv, AsyncCalledIn, AsyncLastRun
  <2>5. CASE task[u].work = k
    BY <1>a, <1>c, <2>1, <2>2, <2>3, <2>4, <2>5
    DEF AsyncInv, AsyncTaskResults, Returned, WorkMoves
  <2>6. CASE task[u].work # k
    <3>1. work'[task[u].work] = work[task[u].work]
      BY <1>a, <2>2, <2>6 DEF WorkMoves
    <3> QED
      BY <2>1, <2>3, <3>1 DEF AsyncInv, AsyncTaskResults, Returned
  <2> QED
    BY <2>5, <2>6
<1>14. AsyncUndone'
  BY <1>a, <1>b, <1>c
  DEF AsyncInv, AsyncUndone, AsyncUndoLink, WorkMoves, Async!Callers, Async!Tasks, Running
<1>15. AsyncIdle'
  BY <1>a, <1>b, <1>c
  DEF AsyncInv, AsyncIdle, AsyncRetains, WorkMoves, Async!Callers, Async!Tasks, Orderly,
      Starting, Running
<1>16. AsyncActive'
  BY <1>a, <1>b, <1>c
  DEF AsyncInv, AsyncActive, AsyncOwned, Unfinished, Remembered, Owned, WorkMoves,
      Async!Callers, Async!Tasks, Orderly, Starting, Running
<1>17. AsyncOwned'
  <2> SUFFICES ASSUME Orderly', NEW j \in DOMAIN work', Unfinished(j)' PROVE FALSE
    BY DEF AsyncOwned
  <2>1. Orderly /\ j \in DOMAIN work
    BY <1>a, <1>b DEF Orderly, WorkMoves
  <2>2. j # k /\ work'[j] = work[j]
    BY <1>a, <2>1 DEF Unfinished, WorkMoves
  <2>3. Unfinished(j) /\ Unfinished(k)
    BY <1>c, <2>2 DEF Unfinished
  <2>4. Remembered(j) /\ Remembered(k)
    BY <2>1, <2>3 DEF AsyncInv, AsyncOwned, Owned
  <2> QED
    BY <2>1, <2>2, <2>4, AsyncZero DEF AsyncInv, AsyncStopLink, AsyncAbortLink, Remembered
<1>18. AsyncForgotten'
  <2> SUFFICES ASSUME Orderly', Running', ~Starting', NEW j \in DOMAIN work', Failed(j)'
               PROVE  sync'.incomplete /\ Awaited(j)'
    BY DEF AsyncForgotten
  <2>1. Orderly /\ Running /\ ~Starting /\ j \in DOMAIN work
    BY <1>a, <1>b, <1>c DEF Orderly, Running, Starting, WorkMoves
  <2>2. CASE j = k
    <3>1. Owned(k)
      BY <1>c, <2>1 DEF AsyncInv, AsyncOwned, Unfinished
    <3>2. work[k].state = "raised"
      BY <1>a, <2>2 DEF Failed, WorkMoves
    <3>3. sync.incomplete /\ Awaited(k)
      BY <2>1, <3>1, <3>2 DEF Owned
    <3> QED
      BY <1>c, <2>2, <3>3 DEF Awaited, Awaits, Stopping
  <2>3. CASE j # k
    <3>1. Failed(j)
      BY <1>a, <1>b, <2>1, <2>3 DEF Failed, Remembered, WorkMoves
    <3>2. sync.incomplete /\ Awaited(j)
      BY <2>1, <3>1 DEF AsyncInv, AsyncForgotten
    <3> QED
      BY <1>c, <3>2 DEF Awaited, Awaits, Stopping
  <2> QED
    BY <2>2, <2>3
<1> QED
  BY <1>2, <1>3, <1>4, <1>5, <1>6, <1>7, <1>8, <1>9, <1>10, <1>11, <1>12, <1>13, <1>14, <1>15,
      <1>16, <1>17, <1>18 DEF AsyncInv

(* The thread of a stop.                                                    *)
LEMMA AsyncStopRuns ==
    ASSUME AsyncInv,
           NEW k \in DOMAIN work,
           Async!StopRuns(k)
    PROVE  AsyncInv'
<1>a. \/ WorkMoves(k, "returned", sync.run) /\ ~Running'
      \/ WorkMoves(k, "raised", work[k].result)
  BY AsyncNats, AsyncMoves DEF AsyncInv, AsyncSync, Running, Async!StopRuns, Async!Ended
<1>b. /\ sync'.run = sync.run /\ AsyncSync' /\ (Running' => Running)
      /\ sync'.incomplete => Running'
      /\ Running' => sync'.incomplete
  BY DEF AsyncInv, AsyncSync, AsyncStarting, AsyncRetains, AsyncFailedStart, Running,
     Async!StopRuns, Async!Ended, Async!Incomplete
<1>c. /\ work[k].state = "busy" /\ work[k].kind \in {"stop"}
      /\ UNCHANGED <<start, facade, task, wrong>>
  BY DEF Async!StopRuns
<1>1. UNCHANGED <<start, facade, task, wait, wrong>>
  BY DEF Async!StopRuns
<1>2. AsyncFacade' /\ AsyncTasks' /\ AsyncWait' /\ AsyncCalledIn' /\ AsyncOwnRun' /\
      AsyncStarting'
  BY <1>1
  DEF AsyncInv, AsyncFacade, AsyncTasks, AsyncWait, AsyncCalledIn, AsyncOwnRun, AsyncStarting,
      AsyncLabels, Starting
<1>3. AsyncSync'
  BY AsyncSets, <1>a, <1>b, <1>c
  DEF AsyncInv, AsyncSync, Async!StopRuns, WorkMoves
<1>4. AsyncWork'
  BY AsyncSets, <1>a, <1>b, <1>c
  DEF AsyncInv, AsyncWork, Async!StopRuns, WorkMoves, WorkRecords
<1>5. AsyncStopLink'
  BY <1>a, <1>b, <1>c
  DEF AsyncInv, AsyncStopLink, WorkMoves, Async!Callers, Async!Tasks
<1>6. AsyncAbortLink'
  BY <1>a, <1>b, <1>c
  DEF AsyncInv, AsyncAbortLink, WorkMoves, Async!Callers, Async!Tasks
<1>7. AsyncTaskLinks'
  BY <1>a, <1>b, <1>c
  DEF AsyncInv, AsyncTaskLinks, WorkMoves, Async!Callers, Async!Tasks, Stopping
<1>8. AsyncUndoLink'
  BY <1>a, <1>b, <1>c
  DEF AsyncInv, AsyncUndoLink, WorkMoves, Async!Callers, Async!Tasks
<1>9. AsyncLastRun'
  BY <1>a, <1>b, <1>c
  DEF AsyncInv, AsyncLastRun, WorkMoves, Async!Callers, Async!Tasks
<1>10. AsyncStopResult'
  <2> SUFFICES ASSUME facade'.stop # 0, Returned(facade.stop)'
               PROVE  facade'.run <= work'[facade'.stop].result
    BY DEF AsyncStopResult
  <2>1. facade.stop # 0 /\ facade.stop \in DOMAIN work /\ work[facade.stop].kind = "stop"
    BY <1>a, <1>b, <1>c DEF AsyncInv, AsyncStopLink
  <2>2. CASE facade.stop = k
    BY <1>a, <1>b, <1>c, <2>1, <2>2, AsyncRunNats
    DEF AsyncInv, AsyncStopResult, AsyncLastRun, Returned, WorkMoves
  <2>3. CASE facade.stop # k
    BY <1>a, <1>b, <1>c, <2>1, <2>3 DEF AsyncInv, AsyncStopResult, Returned, WorkMoves
  <2> QED
    BY <2>2, <2>3
<1>11. AsyncTaskResults'
  <2> SUFFICES ASSUME NEW u \in Async!Tasks, Stopping(u)', work'[task'[u].work].kind = "stop",
                      work'[task'[u].work].state \in {"returned", "done"}
               PROVE  task'[u].run <= work'[task'[u].work].result
    BY DEF AsyncTaskResults, Returned
  <2>1. Stopping(u) /\ task'[u] = task[u]
    BY <1>c DEF Stopping
  <2>2. task[u].work \in DOMAIN work
    BY <2>1 DEF AsyncInv, AsyncTaskLinks
  <2>3. work[task[u].work].kind = "stop"
    BY <1>a, <2>1, <2>2 DEF WorkMoves
  <2>4. /\ task[u].run <= facade.run /\ facade.run <= sync.run
        /\ task[u].run \in Nat /\ facade.run \in Nat /\ sync.run \in Nat
    BY AsyncRunNats, AsyncControl DEF AsyncInv, AsyncCalledIn, AsyncLastRun
  <2>5. CASE task[u].work = k
    BY <1>a, <1>c, <2>1, <2>2, <2>3, <2>4, <2>5
    DEF AsyncInv, AsyncTaskResults, Returned, WorkMoves
  <2>6. CASE task[u].work # k
    <3>1. work'[task[u].work] = work[task[u].work]
      BY <1>a, <2>2, <2>6 DEF WorkMoves
    <3> QED
      BY <2>1, <2>3, <3>1 DEF AsyncInv, AsyncTaskResults, Returned
  <2> QED
    BY <2>5, <2>6
<1>12. AsyncRetains'
  BY <1>a, <1>b, <1>c
  DEF AsyncInv, AsyncRetains, WorkMoves, Async!Callers, Async!Tasks, Running
<1>13. AsyncFailedStart'
  BY <1>a, <1>b, <1>c
  DEF AsyncInv, AsyncFailedStart, WorkMoves, Async!Callers, Async!Tasks, Running
<1>14. AsyncUndone'
  BY <1>a, <1>b, <1>c
  DEF AsyncInv, AsyncUndone, WorkMoves, Async!Callers, Async!Tasks, Running
<1>15. AsyncIdle'
  BY <1>a, <1>b, <1>c
  DEF AsyncInv, AsyncIdle, AsyncRetains, WorkMoves, Async!Callers, Async!Tasks, Orderly,
      Starting, Running
<1>16. AsyncActive'
  BY <1>a, <1>b, <1>c
  DEF AsyncInv, AsyncActive, WorkMoves, Async!Callers, Async!Tasks, Orderly, Starting, Running
<1>17. AsyncOwned'
  <2> SUFFICES ASSUME Orderly', NEW j \in DOMAIN work', Unfinished(j)' PROVE Owned(j)'
    BY DEF AsyncOwned
  <2>1. Orderly /\ j \in DOMAIN work
    BY <1>a, <1>b, <1>c DEF Orderly, WorkMoves
  <2>2. Unfinished(j)
    BY <1>a, <1>b, <1>c, <2>1 DEF Unfinished, WorkMoves
  <2>3. Owned(j)
    BY <2>1, <2>2 DEF AsyncInv, AsyncOwned
  <2>4. Remembered(j)' /\ Awaited(j)'
    BY <1>a, <1>b, <1>c, <2>3 DEF Owned, Remembered, Awaited, Awaits, Stopping
  <2>5. facade'.active
    BY <1>c, <2>3 DEF Owned
  <2>6. Running' => work'[j].state # "returned"
    <3>1. CASE j = k
      BY <1>a, <3>1, <2>1 DEF WorkMoves
    <3>2. CASE j # k
      BY <1>a, <1>b, <2>1, <2>3, <3>2 DEF WorkMoves, Owned
    <3> QED
      BY <3>1, <3>2
  <2>7. Running' => sync'.incomplete
    BY <1>b
  <2> QED
    BY <2>4, <2>5, <2>6, <2>7 DEF Owned
<1>18. AsyncForgotten'
  <2> SUFFICES ASSUME Orderly', Running', ~Starting', NEW j \in DOMAIN work', Failed(j)'
               PROVE  sync'.incomplete /\ Awaited(j)'
    BY DEF AsyncForgotten
  <2>1. Orderly /\ Running /\ ~Starting /\ j \in DOMAIN work
    BY <1>a, <1>b, <1>c DEF Orderly, Running, Starting, WorkMoves
  <2>2. j # k
    BY <1>a DEF Failed, WorkMoves
  <2>3. Failed(j)
    BY <1>a, <1>c, <2>1, <2>2 DEF Failed, Remembered, WorkMoves
  <2>4. Awaited(j)
    BY <2>1, <2>3 DEF AsyncInv, AsyncForgotten
  <2> QED
    BY <1>b, <1>c, <2>4 DEF Awaited, Awaits, Stopping
<1> QED
  BY <1>2, <1>3, <1>4, <1>5, <1>6, <1>7, <1>8, <1>9, <1>10, <1>11, <1>12, <1>13, <1>14, <1>15,
      <1>16, <1>17, <1>18 DEF AsyncInv

(* The thread of an abort, or of the undoing of a start.                    *)
LEMMA AsyncAbortRuns ==
    ASSUME AsyncInv,
           NEW k \in DOMAIN work,
           Async!AbortRuns(k)
    PROVE  AsyncInv'
<1>a. \/ WorkMoves(k, "returned", work[k].result) /\ ~Running'
      \/ WorkMoves(k, "raised", work[k].result)
  BY AsyncNats, AsyncMoves DEF AsyncInv, AsyncSync, Running, Async!AbortRuns, Async!Ended
<1>b. /\ sync'.run = sync.run /\ AsyncSync' /\ (Running' => Running)
      /\ sync'.incomplete => Running'
      /\ Running' => sync'.incomplete
  BY DEF AsyncInv, AsyncSync, AsyncStarting, AsyncRetains, AsyncFailedStart, Running,
     Async!AbortRuns, Async!Ended, Async!Incomplete
<1>c. /\ work[k].state = "busy" /\ work[k].kind \in {"abort", "undo"}
      /\ UNCHANGED <<start, facade, task, wrong>>
  BY DEF Async!AbortRuns
<1>1. UNCHANGED <<start, facade, task, wait, wrong>>
  BY DEF Async!AbortRuns
<1>2. AsyncFacade' /\ AsyncTasks' /\ AsyncWait' /\ AsyncCalledIn' /\ AsyncOwnRun' /\
      AsyncStarting'
  BY <1>1
  DEF AsyncInv, AsyncFacade, AsyncTasks, AsyncWait, AsyncCalledIn, AsyncOwnRun, AsyncStarting,
      AsyncLabels, Starting
<1>3. AsyncSync'
  BY AsyncSets, <1>a, <1>b, <1>c
  DEF AsyncInv, AsyncSync, Async!AbortRuns, WorkMoves
<1>4. AsyncWork'
  BY AsyncSets, <1>a, <1>b, <1>c
  DEF AsyncInv, AsyncWork, Async!AbortRuns, WorkMoves, WorkRecords
<1>5. AsyncStopLink'
  BY <1>a, <1>b, <1>c
  DEF AsyncInv, AsyncStopLink, WorkMoves, Async!Callers, Async!Tasks
<1>6. AsyncAbortLink'
  BY <1>a, <1>b, <1>c
  DEF AsyncInv, AsyncAbortLink, WorkMoves, Async!Callers, Async!Tasks
<1>7. AsyncTaskLinks'
  BY <1>a, <1>b, <1>c
  DEF AsyncInv, AsyncTaskLinks, WorkMoves, Async!Callers, Async!Tasks, Stopping
<1>8. AsyncUndoLink'
  BY <1>a, <1>b, <1>c
  DEF AsyncInv, AsyncUndoLink, WorkMoves, Async!Callers, Async!Tasks
<1>9. AsyncLastRun'
  BY <1>a, <1>b, <1>c
  DEF AsyncInv, AsyncLastRun, WorkMoves, Async!Callers, Async!Tasks
<1>10. AsyncStopResult'
  <2> SUFFICES ASSUME facade'.stop # 0, Returned(facade.stop)'
               PROVE  facade'.run <= work'[facade'.stop].result
    BY DEF AsyncStopResult
  <2>1. facade.stop # 0 /\ facade.stop \in DOMAIN work /\ work[facade.stop].kind = "stop"
    BY <1>a, <1>b, <1>c DEF AsyncInv, AsyncStopLink
  <2>2. CASE facade.stop = k
    BY <1>a, <1>b, <1>c, <2>1, <2>2, AsyncRunNats
    DEF AsyncInv, AsyncStopResult, AsyncLastRun, Returned, WorkMoves
  <2>3. CASE facade.stop # k
    BY <1>a, <1>b, <1>c, <2>1, <2>3 DEF AsyncInv, AsyncStopResult, Returned, WorkMoves
  <2> QED
    BY <2>2, <2>3
<1>11. AsyncTaskResults'
  <2> SUFFICES ASSUME NEW u \in Async!Tasks, Stopping(u)', work'[task'[u].work].kind = "stop",
                      work'[task'[u].work].state \in {"returned", "done"}
               PROVE  task'[u].run <= work'[task'[u].work].result
    BY DEF AsyncTaskResults, Returned
  <2>1. Stopping(u) /\ task'[u] = task[u]
    BY <1>c DEF Stopping
  <2>2. task[u].work \in DOMAIN work
    BY <2>1 DEF AsyncInv, AsyncTaskLinks
  <2>3. work[task[u].work].kind = "stop"
    BY <1>a, <2>1, <2>2 DEF WorkMoves
  <2>4. /\ task[u].run <= facade.run /\ facade.run <= sync.run
        /\ task[u].run \in Nat /\ facade.run \in Nat /\ sync.run \in Nat
    BY AsyncRunNats, AsyncControl DEF AsyncInv, AsyncCalledIn, AsyncLastRun
  <2>5. CASE task[u].work = k
    BY <1>a, <1>c, <2>1, <2>2, <2>3, <2>4, <2>5
    DEF AsyncInv, AsyncTaskResults, Returned, WorkMoves
  <2>6. CASE task[u].work # k
    <3>1. work'[task[u].work] = work[task[u].work]
      BY <1>a, <2>2, <2>6 DEF WorkMoves
    <3> QED
      BY <2>1, <2>3, <3>1 DEF AsyncInv, AsyncTaskResults, Returned
  <2> QED
    BY <2>5, <2>6
<1>12. AsyncRetains'
  BY <1>a, <1>b, <1>c
  DEF AsyncInv, AsyncRetains, WorkMoves, Async!Callers, Async!Tasks, Running
<1>13. AsyncFailedStart'
  BY <1>a, <1>b, <1>c
  DEF AsyncInv, AsyncFailedStart, WorkMoves, Async!Callers, Async!Tasks, Running
<1>14. AsyncUndone'
  BY <1>a, <1>b, <1>c
  DEF AsyncInv, AsyncUndone, WorkMoves, Async!Callers, Async!Tasks, Running
<1>15. AsyncIdle'
  BY <1>a, <1>b, <1>c
  DEF AsyncInv, AsyncIdle, AsyncRetains, WorkMoves, Async!Callers, Async!Tasks, Orderly,
      Starting, Running
<1>16. AsyncActive'
  BY <1>a, <1>b, <1>c
  DEF AsyncInv, AsyncActive, WorkMoves, Async!Callers, Async!Tasks, Orderly, Starting, Running
<1>17. AsyncOwned'
  <2> SUFFICES ASSUME Orderly', NEW j \in DOMAIN work', Unfinished(j)' PROVE Owned(j)'
    BY DEF AsyncOwned
  <2>1. Orderly /\ j \in DOMAIN work
    BY <1>a, <1>b, <1>c DEF Orderly, WorkMoves
  <2>2. Unfinished(j)
    BY <1>a, <1>b, <1>c, <2>1 DEF Unfinished, WorkMoves
  <2>3. Owned(j)
    BY <2>1, <2>2 DEF AsyncInv, AsyncOwned
  <2>4. Remembered(j)' /\ Awaited(j)'
    BY <1>a, <1>b, <1>c, <2>3 DEF Owned, Remembered, Awaited, Awaits, Stopping
  <2>5. facade'.active
    BY <1>c, <2>3 DEF Owned
  <2>6. Running' => work'[j].state # "returned"
    <3>1. CASE j = k
      BY <1>a, <3>1, <2>1 DEF WorkMoves
    <3>2. CASE j # k
      BY <1>a, <1>b, <2>1, <2>3, <3>2 DEF WorkMoves, Owned
    <3> QED
      BY <3>1, <3>2
  <2>7. Running' => sync'.incomplete
    BY <1>b
  <2> QED
    BY <2>4, <2>5, <2>6, <2>7 DEF Owned
<1>18. AsyncForgotten'
  <2> SUFFICES ASSUME Orderly', Running', ~Starting', NEW j \in DOMAIN work', Failed(j)'
               PROVE  sync'.incomplete /\ Awaited(j)'
    BY DEF AsyncForgotten
  <2>1. Orderly /\ Running /\ ~Starting /\ j \in DOMAIN work
    BY <1>a, <1>b, <1>c DEF Orderly, Running, Starting, WorkMoves
  <2>2. j # k
    BY <1>a DEF Failed, WorkMoves
  <2>3. Failed(j)
    BY <1>a, <1>c, <2>1, <2>2 DEF Failed, Remembered, WorkMoves
  <2>4. Awaited(j)
    BY <2>1, <2>3 DEF AsyncInv, AsyncForgotten
  <2> QED
    BY <1>b, <1>c, <2>4 DEF Awaited, Awaits, Stopping
<1> QED
  BY <1>2, <1>3, <1>4, <1>5, <1>6, <1>7, <1>8, <1>9, <1>10, <1>11, <1>12, <1>13, <1>14, <1>15,
      <1>16, <1>17, <1>18 DEF AsyncInv

(* wait: the waiter begins, looks again, returns or is cancelled.           *)
LEMMA AsyncWaits ==
    ASSUME AsyncInv,
           Async!WaitCall \/ Async!WaitReturns \/ Async!WaitCancelled
    PROVE  AsyncInv'
<1>a. /\ UNCHANGED <<sync, start, work, wrong>>
      /\ task' = task \/ \E l \in {"idle", "waiting"}, k \in Nat, r \in Nat :
                              TaskMoves("waiter", l, k, r) /\ r <= task["waiter"].run
  <2>1. ASSUME Async!WaitCall
        PROVE  TaskMoves("waiter", "waiting", task["waiter"].work, task["waiter"].run)
    BY <2>1, AsyncAt, AsyncSets DEF AsyncInv, Async!WaitCall, AsyncLabels
  <2>2. ASSUME Async!Return("waiter") PROVE TaskMoves("waiter", "idle", 0, 0)
    BY <2>2, AsyncGoes, AsyncSets DEF AsyncInv, Async!Return, AsyncLabels
  <2>3. task["waiter"].work \in Nat /\ task["waiter"].run \in Nat /\ 0 <= task["waiter"].run
    BY AsyncNats, AsyncControl
  <2> QED
    BY <2>1, <2>2, <2>3 DEF Async!WaitCall, Async!WaitReturns, Async!WaitCancelled
<1>b. /\ AsyncFacade' /\ facade'.active = facade.active /\ facade'.terminal = facade.terminal
      /\ facade'.stop = facade.stop /\ facade'.abort = facade.abort
      /\ facade'.run = facade.run /\ facade'.outlived = facade.outlived
  BY DEF AsyncInv, AsyncFacade, AsyncWait, Async!WaitCall, Async!WaitReturns,
     Async!WaitCancelled
<1>c. /\ Starting' <=> Starting
      /\ \A u \in Async!Tasks : task'[u].at = task[u].at /\ task'[u].work = task[u].work
      /\ "control" \in Async!Tasks /\ "other" \in Async!Tasks
  BY <1>a DEF Starting, TaskMoves, Async!Callers, Async!Tasks
<1>1. UNCHANGED <<sync, start, work, wrong>>
  BY DEF Async!WaitCall, Async!WaitReturns, Async!WaitCancelled
<1>2. AsyncSync' /\ AsyncWork' /\ AsyncOwnRun' /\ AsyncRetains' /\ AsyncFailedStart'
  BY <1>1
  DEF AsyncInv, AsyncSync, AsyncWork, AsyncOwnRun, AsyncRetains, AsyncFailedStart, WorkRecords,
      Running
<1>3. AsyncFacade'
  BY AsyncSets, <1>a, <1>b
  DEF AsyncInv, AsyncSync, AsyncFacade, AsyncWait, Async!WaitCall, Async!WaitReturns,
      Async!WaitCancelled, TaskMoves
<1>4. AsyncTasks'
  BY AsyncSets, <1>a, <1>b
  DEF AsyncInv, AsyncFacade, AsyncTasks, Async!WaitCall, Async!WaitReturns, Async!WaitCancelled,
      TaskMoves, AsyncLabels
<1>5. AsyncWait'
  <2>1. \/ wait' = [future |-> None, terminal |-> FALSE, result |-> 0]
        \/ wait' = [future |-> "busy", terminal |-> FALSE, result |-> 0]
        \/ wait' = [future |-> "busy", terminal |-> Async!Stopped, result |-> 0]
    BY DEF Async!WaitCall, Async!WaitReturns, Async!WaitAgain, Async!WaitCancelled
  <2>2. Async!Stopped \in BOOLEAN
    BY DEF Async!Stopped
  <2>3. \A b \in BOOLEAN, f \in {None, "busy"} :
            wait' = [future |-> f, terminal |-> b, result |-> 0] => AsyncWait'
    BY DEF AsyncWait
  <2> QED
    BY <2>1, <2>2, <2>3
<1>6. AsyncStopLink'
  BY <1>a, <1>b
  DEF AsyncInv, AsyncStopLink, TaskMoves, Async!Callers, Async!Tasks
<1>7. AsyncAbortLink'
  BY <1>a, <1>b
  DEF AsyncInv, AsyncAbortLink, TaskMoves, Async!Callers, Async!Tasks
<1>8. AsyncTaskLinks'
  BY <1>a, <1>b
  DEF AsyncInv, AsyncTaskLinks, TaskMoves, Async!Callers, Async!Tasks, Stopping
<1>9. AsyncUndoLink'
  BY <1>a, <1>b
  DEF AsyncInv, AsyncUndoLink, TaskMoves, Async!Callers, Async!Tasks
<1>10. AsyncLastRun'
  BY <1>a, <1>b
  DEF AsyncInv, AsyncLastRun, TaskMoves, Async!Callers, Async!Tasks
<1>11. AsyncCalledIn'
  BY AsyncRunNats, <1>a, <1>b
  DEF AsyncInv, AsyncCalledIn, TaskMoves, Async!Callers, Async!Tasks
<1>12. AsyncStopResult'
  BY <1>a, <1>b
  DEF AsyncInv, AsyncStopResult, TaskMoves, Async!Callers, Async!Tasks, Returned
<1>13. AsyncTaskResults'
  BY ZenonT(60), <1>a, <1>b
  DEF AsyncInv, AsyncTaskResults, TaskMoves, Async!Callers, Async!Tasks, Stopping, Returned
<1>14. AsyncStarting'
  BY <1>a, <1>b
  DEF AsyncInv, AsyncStarting, TaskMoves, Async!Callers, Async!Tasks, Starting
<1>15. AsyncUndone'
  BY <1>a, <1>b
  DEF AsyncInv, AsyncUndone, TaskMoves, Async!Callers, Async!Tasks, Running
<1>16. AsyncIdle'
  BY <1>a, <1>b
  DEF AsyncInv, AsyncIdle, TaskMoves, Async!Callers, Async!Tasks, Orderly, Starting, Running
<1>17. AsyncActive'
  BY <1>a, <1>b
  DEF AsyncInv, AsyncActive, TaskMoves, Async!Callers, Async!Tasks, Orderly, Starting, Running
<1>18. AsyncOwned'
  <2> SUFFICES ASSUME Orderly', NEW j \in DOMAIN work', Unfinished(j)' PROVE Owned(j)'
    BY DEF AsyncOwned
  <2>1. Orderly /\ j \in DOMAIN work /\ Unfinished(j)
    BY <1>a, <1>b DEF Orderly, Unfinished
  <2>2. Owned(j)
    BY <2>1 DEF AsyncInv, AsyncOwned
  <2>3. Awaited(j)'
    BY <1>c, <2>2 DEF Owned, Awaited, Awaits, Stopping
  <2> QED
    BY <1>a, <1>b, <2>2, <2>3 DEF Owned, Remembered, Running
<1>19. AsyncForgotten'
  <2> SUFFICES ASSUME Orderly', Running', ~Starting', NEW j \in DOMAIN work', Failed(j)'
               PROVE  sync'.incomplete /\ Awaited(j)'
    BY DEF AsyncForgotten
  <2>1. Orderly /\ Running /\ ~Starting /\ j \in DOMAIN work /\ Failed(j)
    BY <1>a, <1>b, <1>c DEF Orderly, Running, Starting, Failed, Remembered
  <2>2. sync.incomplete /\ Awaited(j)
    BY <2>1 DEF AsyncInv, AsyncForgotten
  <2> QED
    BY <1>a, <1>c, <2>2 DEF Awaited, Awaits, Stopping
<1> QED
  BY <1>2, <1>3, <1>4, <1>5, <1>6, <1>7, <1>8, <1>9, <1>10, <1>11, <1>12, <1>13, <1>14, <1>15,
      <1>16, <1>17, <1>18, <1>19 DEF AsyncInv

(* The thread of a start.                                                   *)
LEMMA AsyncStartRuns ==
    ASSUME AsyncInv,
           Async!StartRuns
    PROVE  AsyncInv'
<1>a. /\ start = "busy" /\ ~Running /\ start' \in {"ok", "failed"}
      /\ start' # None /\ start' # "busy"
      /\ UNCHANGED <<work, facade, task, wrong>>
  BY AsyncSets DEF Async!StartRuns, Running
<1>b. /\ AsyncSync' /\ sync.run <= sync'.run
      /\ sync'.incomplete => Running'
      /\ start' = "failed" /\ Running' => sync'.incomplete
  <2>1. \/ /\ sync' = [run |-> sync.run + 1, state |-> "running", incomplete |-> FALSE]
           /\ start' = "ok"
        \/ sync' = [run |-> sync.run + 1, state |-> "running", incomplete |-> TRUE]
        \/ sync' = sync
    BY DEF Async!StartRuns
  <2>2. sync.run + 1 \in Nat /\ sync.run <= sync.run + 1
    BY AsyncNats
  <2>3. sync.run \in Nat /\ AsyncSync /\ (sync.incomplete => Running)
    BY AsyncNats DEF AsyncInv, AsyncRetains
  <2>4. AsyncSync'
    <3>1. \A b \in BOOLEAN : sync' = [run |-> sync.run + 1, state |-> "running", incomplete |-> b]
                                  => AsyncSync'
      BY <1>a, <2>2 DEF AsyncSync
    <3>2. sync' = sync => AsyncSync'
      BY <1>a, <2>3 DEF AsyncSync
    <3> QED
      BY <2>1, <3>1, <3>2
  <2>5. sync.run <= sync'.run
    BY <2>1, <2>2, <2>3
  <2>6. (sync'.incomplete => Running') /\ (start' = "failed" /\ Running' => sync'.incomplete)
    BY <1>a, <2>1, <2>3 DEF Running
  <2> QED
    BY <2>4, <2>5, <2>6
<1>c. Starting
  BY <1>a, AsyncSets DEF AsyncInv, AsyncStarting
<1>1. UNCHANGED <<work, facade, task, wait, wrong>>
  BY DEF Async!StartRuns
<1>2. AsyncWork' /\ AsyncFacade' /\ AsyncTasks' /\ AsyncWait' /\ AsyncStopLink' /\
      AsyncAbortLink'
  BY <1>1
  DEF AsyncInv, AsyncWork, AsyncFacade, AsyncTasks, AsyncWait, AsyncStopLink, AsyncAbortLink,
      WorkRecords, AsyncLabels
<1>3. AsyncTaskLinks' /\ AsyncUndoLink' /\ AsyncCalledIn' /\ AsyncStopResult' /\
      AsyncTaskResults' /\ AsyncOwnRun'
  BY <1>1
  DEF AsyncInv, AsyncTaskLinks, AsyncUndoLink, AsyncCalledIn, AsyncStopResult, AsyncTaskResults,
      AsyncOwnRun, Stopping, Returned
<1>4. AsyncSync'
  BY AsyncSets, <1>a, <1>b
  DEF AsyncInv, AsyncSync, Async!StartRuns
<1>5. AsyncLastRun'
  <2>1. /\ facade.run <= sync.run /\ sync.run <= sync'.run
        /\ facade.run \in Nat /\ sync.run \in Nat /\ sync'.run \in Nat
    BY <1>b, AsyncRunNats DEF AsyncInv, AsyncLastRun, AsyncSync
  <2> QED
    BY <1>a, <2>1 DEF AsyncLastRun
<1>6. AsyncStarting'
  BY <1>a, <1>c DEF AsyncStarting, Starting
<1>7. AsyncRetains'
  BY <1>a, <1>b
  DEF AsyncInv, AsyncRetains, Async!Callers, Async!Tasks, Running
<1>8. AsyncFailedStart'
  BY <1>a, <1>b
  DEF AsyncInv, AsyncFailedStart, Async!Callers, Async!Tasks, Running
<1>9. AsyncUndone'
  BY <1>a, <1>c DEF AsyncUndone, Starting
<1>10. AsyncIdle'
  BY <1>a, <1>b
  DEF AsyncInv, AsyncIdle, Async!Callers, Async!Tasks, Orderly, Starting, Running
<1>11. AsyncActive'
  BY <1>a, <1>c DEF AsyncActive, Starting
<1>12. AsyncOwned'
  BY <1>a, <1>b
  DEF AsyncInv, AsyncOwned, AsyncIdle, Async!Callers, Async!Tasks, Orderly, Running, Unfinished,
      Stopping, Awaits, Awaited, Remembered, Owned
<1>13. AsyncForgotten'
  BY <1>a, <1>c DEF AsyncForgotten, Starting
<1> QED
  BY <1>2, <1>3, <1>4, <1>5, <1>6, <1>7, <1>8, <1>9, <1>10, <1>11, <1>12, <1>13 DEF AsyncInv

(* The thread of a wait.                                                    *)
LEMMA AsyncWaitRuns ==
    ASSUME AsyncInv,
           Async!WaitRuns
    PROVE  AsyncInv'
<1>a. UNCHANGED <<sync, start, work, facade, task, wrong>>
  BY DEF Async!WaitRuns
<1>1. UNCHANGED <<sync, start, work, facade, task, wrong>>
  BY DEF Async!WaitRuns, Async!ResultOf
<1>2. AsyncSync' /\ AsyncWork' /\ AsyncFacade' /\ AsyncTasks' /\ AsyncStopLink'
  BY <1>1
  DEF AsyncInv, AsyncSync, AsyncWork, AsyncFacade, AsyncTasks, AsyncStopLink, WorkRecords,
      AsyncLabels
<1>3. AsyncAbortLink' /\ AsyncTaskLinks' /\ AsyncUndoLink' /\ AsyncLastRun' /\ AsyncCalledIn'
  BY <1>1
  DEF AsyncInv, AsyncAbortLink, AsyncTaskLinks, AsyncUndoLink, AsyncLastRun, AsyncCalledIn,
      Stopping
<1>4. AsyncStopResult' /\ AsyncTaskResults' /\ AsyncOwnRun' /\ AsyncStarting' /\ AsyncRetains'
  BY <1>1
  DEF AsyncInv, AsyncStopResult, AsyncTaskResults, AsyncOwnRun, AsyncStarting, AsyncRetains,
      Returned, Stopping, Starting, Running
<1>5. AsyncFailedStart' /\ AsyncUndone' /\ AsyncIdle' /\ AsyncActive'
  BY <1>1
  DEF AsyncInv, AsyncFailedStart, AsyncUndone, AsyncIdle, AsyncActive, Running, Orderly,
      Starting
<1>6. AsyncWait'
  BY AsyncSets, <1>a
  DEF AsyncInv, AsyncSync, AsyncWait, Async!WaitRuns, Async!ResultOf
<1>7. AsyncOwned'
  BY <1>a
  DEF AsyncInv, AsyncOwned, Async!Callers, Async!Tasks, Orderly, Running, Unfinished, Stopping,
      Awaits, Awaited, Remembered, Owned
<1>8. AsyncForgotten'
  BY <1>a
  DEF AsyncInv, AsyncForgotten, Async!Callers, Async!Tasks, Orderly, Starting, Running,
      Stopping, Awaits, Awaited, Remembered, Failed
<1> QED
  BY <1>2, <1>3, <1>4, <1>5, <1>6, <1>7, <1>8 DEF AsyncInv

(* The run ends, or fails, by itself.                                       *)
LEMMA AsyncCompletes ==
    ASSUME AsyncInv,
           Async!CompletesAlone
    PROVE  AsyncInv'
<1>a. /\ sync'.run = sync.run /\ AsyncSync' /\ Running
      /\ sync'.incomplete => Running'
      /\ Running' => sync'.incomplete
      /\ UNCHANGED <<start, work, facade, task, wrong>>
  BY DEF AsyncInv, AsyncSync, Running, Async!CompletesAlone, Async!Ended, Async!Incomplete
<1>1. UNCHANGED <<start, work, facade, task, wait, wrong>>
  BY DEF Async!CompletesAlone
<1>2. AsyncWork' /\ AsyncFacade' /\ AsyncTasks' /\ AsyncWait' /\ AsyncStopLink'
  BY <1>1
  DEF AsyncInv, AsyncWork, AsyncFacade, AsyncTasks, AsyncWait, AsyncStopLink, WorkRecords,
      AsyncLabels
<1>3. AsyncAbortLink' /\ AsyncTaskLinks' /\ AsyncUndoLink' /\ AsyncCalledIn' /\ AsyncStopResult'
  BY <1>1
  DEF AsyncInv, AsyncAbortLink, AsyncTaskLinks, AsyncUndoLink, AsyncCalledIn, AsyncStopResult,
      Stopping, Returned
<1>4. AsyncTaskResults' /\ AsyncOwnRun' /\ AsyncStarting'
  BY <1>1
  DEF AsyncInv, AsyncTaskResults, AsyncOwnRun, AsyncStarting, Stopping, Returned, Starting
<1>5. AsyncSync'
  BY AsyncSets, <1>a
  DEF AsyncInv, AsyncSync, Async!CompletesAlone
<1>6. AsyncLastRun'
  BY <1>a
  DEF AsyncInv, AsyncLastRun, Async!Callers, Async!Tasks
<1>7. AsyncRetains'
  BY <1>a
  DEF AsyncInv, AsyncRetains, Async!Callers, Async!Tasks, Running
<1>8. AsyncFailedStart'
  BY <1>a
  DEF AsyncInv, AsyncFailedStart, Async!Callers, Async!Tasks, Running
<1>9. AsyncUndone'
  BY <1>a
  DEF AsyncInv, AsyncUndone, Async!Callers, Async!Tasks, Running
<1>10. AsyncIdle'
  BY <1>a
  DEF AsyncInv, AsyncIdle, Async!Callers, Async!Tasks, Orderly, Starting, Running
<1>11. AsyncActive'
  BY <1>a
  DEF AsyncInv, AsyncActive, Async!Callers, Async!Tasks, Orderly, Starting, Running
<1>12. AsyncOwned'
  BY <1>a
  DEF AsyncInv, AsyncOwned, Async!Callers, Async!Tasks, Orderly, Running, Unfinished, Stopping,
      Awaits, Awaited, Remembered, Owned
<1>13. AsyncForgotten'
  BY <1>a
  DEF AsyncInv, AsyncForgotten, Async!Callers, Async!Tasks, Orderly, Starting, Running,
      Stopping, Awaits, Awaited, Remembered, Failed
<1> QED
  BY <1>2, <1>3, <1>4, <1>5, <1>6, <1>7, <1>8, <1>9, <1>10, <1>11, <1>12, <1>13 DEF AsyncInv

(* Nothing changes.                                                         *)
LEMMA AsyncStutter ==
    ASSUME AsyncInv,
           UNCHANGED Async!vars
    PROVE  AsyncInv'
<1>a. UNCHANGED <<sync, start, work, facade, task, wrong>>
  BY DEF Async!vars
<1>1. UNCHANGED <<sync, start, work, facade, task, wait, wrong>>
  BY DEF Async!vars
<1>2. AsyncSync' /\ AsyncWork' /\ AsyncFacade' /\ AsyncTasks' /\ AsyncWait'
  BY ZenonT(60), <1>1
  DEF AsyncInv, AsyncSync, AsyncWork, AsyncFacade, AsyncTasks, AsyncWait, WorkRecords,
      AsyncLabels
<1>3. AsyncStopLink' /\ AsyncAbortLink' /\ AsyncTaskLinks' /\ AsyncUndoLink' /\ AsyncLastRun'
  BY <1>1
  DEF AsyncInv, AsyncStopLink, AsyncAbortLink, AsyncTaskLinks, AsyncUndoLink, AsyncLastRun,
      Stopping
<1>4. AsyncCalledIn' /\ AsyncStopResult' /\ AsyncTaskResults' /\ AsyncOwnRun' /\ AsyncStarting'
  BY <1>1
  DEF AsyncInv, AsyncCalledIn, AsyncStopResult, AsyncTaskResults, AsyncOwnRun, AsyncStarting,
      Returned, Stopping, Starting
<1>5. AsyncRetains' /\ AsyncFailedStart' /\ AsyncUndone' /\ AsyncIdle' /\ AsyncActive'
  BY <1>1
  DEF AsyncInv, AsyncRetains, AsyncFailedStart, AsyncUndone, AsyncIdle, AsyncActive, Running,
      Orderly, Starting
<1>6. AsyncOwned'
  BY <1>a
  DEF AsyncInv, AsyncOwned, Async!Callers, Async!Tasks, Orderly, Running, Unfinished, Stopping,
      Awaits, Awaited, Remembered, Owned
<1>7. AsyncForgotten'
  BY <1>a
  DEF AsyncInv, AsyncForgotten, Async!Callers, Async!Tasks, Orderly, Starting, Running,
      Stopping, Awaits, Awaited, Remembered, Failed
<1> QED
  BY <1>2, <1>3, <1>4, <1>5, <1>6, <1>7 DEF AsyncInv

(* Every step of the facade of calibration preserves the invariant.         *)
LEMMA AsyncNext == AsyncInv /\ [Async!Next]_(Async!vars) => AsyncInv'
<1> SUFFICES ASSUME AsyncInv, [Async!Next]_(Async!vars) PROVE AsyncInv'
  OBVIOUS
<1>1. ASSUME NEW t \in Async!Tasks,
             Async!StopCall(t) \/ Async!AbortCall(t) \/ Async!StopCancelled(t) \/ Async!Resumes(t)
      PROVE  AsyncInv'
  BY <1>1, AsyncStopCall, AsyncAbortCall, AsyncStopCancelled, AsyncResumes
<1>2. ASSUME NEW k \in DOMAIN work, Async!WorkEnds(k) \/ Async!StopRuns(k) \/ Async!AbortRuns(k)
      PROVE  AsyncInv'
  BY <1>2, AsyncEnds, AsyncStopRuns, AsyncAbortRuns
<1> QED
  BY <1>1, <1>2, AsyncStutter, AsyncStartCall, AsyncStartReturns, AsyncStartCancelled,
     AsyncStartSettles, AsyncStartAborts, AsyncWaits, AsyncStartRuns, AsyncWaitRuns,
     AsyncCompletes
  DEF Async!Next
-----------------------------------------------------------------------------
CalibrationParts ==
    /\ part = "calibration" => CalibrationInv
    /\ part = "async" => AsyncInv

(* The parts keep to themselves: a step is one of the part that runs.       *)
LEMMA PartStep ==
    ASSUME [Next]_vars
    PROVE  /\ part' = part
           /\ part = "calibration" => [Calibration!Next]_(Calibration!vars)
           /\ part = "async" => [Async!Next]_(Async!vars)
<1>1. CASE UNCHANGED vars
  BY <1>1 DEF vars, capture, solareOnly, threads, calibrationOnly, coroutines, itemsOnly,
     asyncOnly, Calibration!vars, Async!vars
<1>2. CASE Next
  BY <1>2 DEF Next, SolareStep, BurstStep, CalibrationStep, ItemsStep, AsyncStep
<1> QED
  BY <1>1, <1>2

(* Calibration and its facade keep their invariants.                        *)
THEOREM CalibrationPartsHold == Spec => []CalibrationParts
<1>1. Init => CalibrationParts
  BY CalInit, AsyncInit DEF Init, CalibrationParts
<1>2. CalibrationParts /\ [Next]_vars => CalibrationParts'
  <2> SUFFICES ASSUME CalibrationParts, [Next]_vars PROVE CalibrationParts'
    OBVIOUS
  <2>1. ASSUME part = "calibration" PROVE CalibrationInv'
    BY <2>1, PartStep, CalNext DEF CalibrationParts
  <2>2. ASSUME part = "async" PROVE AsyncInv'
    BY <2>2, PartStep, AsyncNext DEF CalibrationParts
  <2> QED
    BY <2>1, <2>2, PartStep DEF CalibrationParts
<1> QED
  BY <1>1, <1>2, PTL DEF Spec

(* A run that has a result has certified it against the drained flows, with *)
(* no failure and nothing lost (_calibration/live.py:197-228), and stop()   *)
(* of the facade never returns the result of an earlier run than the one it *)
(* was called in (_async_sessions.py AsyncCalibrationSession.stop).         *)
THEOREM ResultsCertified == Spec => []ResultCertified
<1>1. CalibrationInv => Calibration!ResultCertified
  <2> SUFFICES ASSUME CalibrationInv PROVE Calibration!ResultCertified
    OBVIOUS
  <2> QED
    BY CalConst DEF CalibrationInv, CalibrationResult, CaptureGone, StillProven,
       Calibration!ResultCertified, Calibration!Lost, Calibration!Truncated,
       CalibrationFlags, CalibrationFrames
<1>2. AsyncInv => Async!OwnRun
  BY DEF AsyncInv, AsyncOwnRun, Async!OwnRun
<1>3. CalibrationParts => ResultCertified
  BY <1>1, <1>2 DEF CalibrationParts, ResultCertified
<1> QED
  BY <1>3, CalibrationPartsHold, PTL

(* A calibration capture that runs is held by the session, and a run that   *)
(* is over holds nothing (_calibration/live.py _finish, capture.py:504).    *)
LEMMA CalibrationCaptureOwned == CalibrationInv => Calibration!CaptureOwned
BY DEF CalibrationInv, CalibrationOwned, CalibrationFlags, CalibrationLive,
   Calibration!CaptureOwned

(* While stops come one after another, a capture that runs is active in the *)
(* facade, and no task that failed stands in the way of its next stop       *)
(* (_async_sessions.py:561-575, 619-629).                                   *)
LEMMA AsyncReachable == AsyncInv => Async!Reachable
<1> SUFFICES ASSUME AsyncInv, Orderly, Running, ~Starting, task["control"].at # "start aborts"
             PROVE  /\ facade.active
                    /\ \A k \in {facade.stop, facade.abort} \ {0} :
                          work[k].state # "failed" \/ \E t \in Async!Tasks : task[t].work = k
  BY DEF Async!Reachable, Orderly, Running, Starting
<1>1. facade.active
  BY DEF AsyncInv, AsyncActive
<1>2. ASSUME NEW k \in {facade.stop, facade.abort} \ {0}, work[k].state = "failed"
      PROVE  \E t \in Async!Tasks : task[t].work = k
  <2>1. Remembered(k) /\ k # 0
    BY <1>2 DEF Remembered
  <2>2. k \in DOMAIN work
    <3>1. CASE k = facade.stop
      BY <2>1, <3>1 DEF AsyncInv, AsyncStopLink
    <3>2. CASE k = facade.abort
      BY <2>1, <3>2 DEF AsyncInv, AsyncAbortLink
    <3> QED
      BY <2>1, <3>1, <3>2 DEF Remembered
  <2>3. Awaited(k)
    BY <1>2, <2>1, <2>2 DEF AsyncInv, AsyncForgotten, Failed
  <2> QED
    BY <2>3, AsyncSets DEF Awaited, Awaits
<1> QED
  BY <1>1, <1>2
================================================================================
