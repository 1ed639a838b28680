------------------------ MODULE MCLiveCaptureSession ------------------------
(* Instances of LiveCaptureSession for TLC. *)
EXTENDS LiveCaptureSession

(* The state has its types and no event is lost or doubled: until a stop is *)
(* requested each is delivered, queued, retained or in the hands of a       *)
(* thread, however long the consumer leaves the queue full, and at any time *)
(* it is in one place only (_enqueue, poll, _finalize_decoder).             *)
EventsKept == TypeOK /\ DeliveredOnce /\ NoLossBeforeStop
=============================================================================
