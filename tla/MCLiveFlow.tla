------------------------------ MODULE MCLiveFlow ------------------------------
(***************************************************************************)
(* TcpFlow in small instances, and beside it a live session of two packets *)
(* in which nothing fails: what must come to an end by itself in either.   *)
(* A behaviour is one of one part; the other stays as it begins.           *)
(***************************************************************************)
EXTENDS TcpFlow

CONSTANTS Windows, PacketQueueSize, EventQueueSize, LivePackets

VARIABLES
    part,
    startAttempted, captureStarted, captureStopped, captureIncomplete, sniffer, socket,
    captureError,
    started, stopRequested, finalizing, stopped, error, incomplete, packetQueue, queue, tail,
    held, sentinelSent, decodeEnabled, cleanup, delivery, decoder, threads, at, expired, sent,
    failures, starts, accepted, decoded, emitted, delivered

(* A live flow whose gaps the clock owner expires, a replayed one with a    *)
(* byte limit, and a replayed one with room for every segment of a commit.  *)
TestFlows ==
    {[segments |-> 1, bytes |-> None, defer |-> TRUE],
     [segments |-> 2, bytes |-> 1, defer |-> FALSE],
     [segments |-> 3, bytes |-> None, defer |-> FALSE]}

Session == INSTANCE LiveCaptureSession
               WITH pc <- threads, MaxPackets <- LivePackets, MaxFailures <- 0, MaxStarts <- 1

sessionVars ==
    <<startAttempted, captureStarted, captureStopped, captureIncomplete, sniffer, socket,
      captureError, started, stopRequested, finalizing, stopped, error, incomplete, packetQueue,
      queue, tail, held, sentinelSent, decodeEnabled, cleanup, delivery, decoder, threads, at,
      expired, sent, failures, starts, accepted, decoded, emitted, delivered>>

LiveFlowInit ==
    /\ Init /\ Session!Init
    /\ part \in {"flow", "session"}
    /\ part = "session" => settings.defer

SessionStep == part = "session" /\ Session!Next /\ UNCHANGED <<part, vars>>
FlowStep == part = "flow" /\ Next /\ UNCHANGED <<part, sessionVars>>

LiveFlowSpec == LiveFlowInit /\ [][SessionStep \/ FlowStep]_<<part, vars, sessionVars>>

(* The fairness each part states; the two share their conditions, since     *)
(* only one of them runs.  A replay has no clock and ends with its file:    *)
(* of the flows only the live one has an owner that comes back to it.       *)
SessionFair(n) ==
    \/ n = 1 /\ Session!PutPacket
    \/ n = 2 /\ Session!Worker
    \/ n = 3 /\ Session!Monitor
    \/ n = 4 /\ Session!Control
    \/ n = 5 /\ Session!Poll
FlowFair(n) ==
    \/ n = 1 /\ Loop
    \/ n = 2 /\ Tick
    \/ n = 3 /\ ServiceGaps
    \/ n = 4 /\ FinIsReassembled /\ Finish

Fair(n) ==
    \/ part = "session" /\ SessionFair(n) /\ UNCHANGED <<part, vars>>
    \/ part = "flow" /\ settings.defer /\ FlowFair(n) /\ UNCHANGED <<part, sessionVars>>

FairSpec ==
    LiveFlowSpec /\ \A n \in 1..5 : WF_<<part, vars, sessionVars>>(Fair(n))

-----------------------------------------------------------------------------
(* Nothing waits for ever.  In a live capture what a flow holds behind a    *)
(* hole is delivered by the gap timer without another packet, and a FIN     *)
(* closes the flow, with or without the bytes that precede it               *)
(* (service_gaps, fin_is_reassembled, _resume_after_fin_gap).  A session    *)
(* that is asked to stop, or whose capture ends by itself, stops or reports *)
(* that cleanup is incomplete, with no consumer polling and in whatever     *)
(* state the queues are (_monitor_stop_request, _finish_stop).  Packets     *)
(* are bounded, so that a byte held for ever keeps its flow waiting.        *)
Waiting == (part = "flow" /\ Waits) \/ (part = "session" /\ Session!StopOwed)
NothingWaits == Waiting ~> ~Waiting
===============================================================================
