------------------------ MODULE MCObservationSession ------------------------
(***************************************************************************)
(* Bounds for ObservationSession, and its properties as the run states     *)
(* them.                                                                   *)
(***************************************************************************)
EXTENDS ObservationSession

(* Decoder, raw file and capture have one owner at a time: whatever is left *)
(* of the native capture has one that will release it, a stopped session    *)
(* owns nothing, and no two threads are inside, also when stops time out    *)
(* and are repeated while the worker shuts down (stop, _shutdown).          *)
OwnedAlone == TypeOK /\ NativeOwned /\ DecidesAlone

(* A session publishes nothing beyond a lost packet or observation, and     *)
(* stops without an error only when it has decoded and published all that   *)
(* it accepted (_record_error, _process_packet, _drain_packets).            *)
FailsClosedOrCompletes == FailsClosed /\ CleanStopComplete

(* Everything accepted reaches its reader: the raw file holds every packet, *)
(* decoded or not, and no interleaving of polls, stops and cancellations    *)
(* loses or reorders an observation (_write_packet, poll, AsyncObservation  *)
(* facade).                                                                 *)
ReadersLoseNothing == RawKept /\ NothingLost

(* A stop that was asked for happens, if what fails does not fail for ever, *)
(* and then the iteration over the session ends (stop, _iterate).           *)
SessionEnds == StopCompletes /\ IterationEnds
=============================================================================
