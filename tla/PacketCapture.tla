---------------------------- MODULE PacketCapture ----------------------------
(***************************************************************************)
(* LivePacketCapture of _capture_runtime.py: the owner of one native       *)
(* sniffer thread and, on Windows, of the enlarged capture socket.  It is  *)
(* single-use; a shutdown that cannot be verified keeps what is left so    *)
(* that stop() can be called again.  The sessions that own a capture       *)
(* extend this module and call CaptureStart and CaptureStop.               *)
(***************************************************************************)
EXTENDS Naturals

CONSTANT Windows      \* _is_windows(): a caller-owned socket exists

ASSUME WindowsIsBoolean == Windows \in BOOLEAN

VARIABLES
    startAttempted,   \* _start_attempted
    captureStarted,   \* _started
    captureStopped,   \* _stopped
    captureIncomplete,\* _cleanup_incomplete
    sniffer,          \* the backend thread: "none", "alive" or "dead"
    socket,           \* _capture_socket is held
    captureError      \* error is not None

captureVars == <<startAttempted, captureStarted, captureStopped,
                 captureIncomplete, sniffer, socket, captureError>>

CaptureTypeOK ==
    /\ startAttempted \in BOOLEAN /\ captureStarted \in BOOLEAN
    /\ captureStopped \in BOOLEAN /\ captureIncomplete \in BOOLEAN
    /\ sniffer \in {"none", "alive", "dead"}
    /\ socket \in BOOLEAN /\ captureError \in BOOLEAN

CaptureInit ==
    /\ startAttempted = FALSE /\ captureStarted = FALSE
    /\ captureStopped = FALSE /\ captureIncomplete = FALSE
    /\ sniffer = "none" /\ socket = FALSE /\ captureError = FALSE

(* The session drops its LivePacketCapture: a later start makes a new one.  *)
CaptureForget ==
    /\ startAttempted' = FALSE /\ captureStarted' = FALSE
    /\ captureStopped' = FALSE /\ captureIncomplete' = FALSE
    /\ sniffer' = "none" /\ socket' = FALSE /\ captureError' = FALSE

(* running: a thread that has ended, or a stopped capture, does not run.    *)
CaptureRunning ==
    /\ captureStarted \/ captureIncomplete
    /\ ~captureStopped
    /\ sniffer = "alive"

(* A bug beside its definition: it forgets that the socket is still open.   *)
ShutdownForgetsSocket(threadLeft, socketLeft, failed) ==
    /\ captureIncomplete' = threadLeft
    /\ captureStopped' = ~threadLeft
    /\ sniffer' = IF sniffer = "alive" /\ ~threadLeft THEN "dead" ELSE sniffer
    /\ socket' = socketLeft
    /\ captureError' = (captureError \/ failed \/ threadLeft)

(***************************************************************************)
(* _shutdown_backend when the thread is (not) joined in time, the socket   *)
(* closes or not, and some step raises or not.  Every step is attempted    *)
(* whatever the others do.                                                 *)
(***************************************************************************)
ShutdownBackend(threadLeft, socketLeft, failed) ==
    /\ captureIncomplete' = (threadLeft \/ socketLeft)
    /\ captureStopped' = ~(threadLeft \/ socketLeft)
    /\ sniffer' = IF sniffer = "alive" /\ ~threadLeft THEN "dead" ELSE sniffer
    /\ socket' = socketLeft
    /\ captureError' = (captureError \/ failed \/ threadLeft \/ socketLeft)

(* Outcomes the shutdown can have: only what is there can be left over, and *)
(* the thread can be joined only when it is not inside a callback.          *)
ShutdownOutcome(threadLeft, socketLeft, inCallback) ==
    /\ threadLeft => sniffer = "alive"
    /\ inCallback => threadLeft
    /\ socketLeft => socket

(* start, when the adapter opens.                                           *)
CaptureStartOK ==
    /\ ~startAttempted
    /\ startAttempted' = TRUE
    /\ captureStarted' = TRUE
    /\ sniffer' = "alive"
    /\ socket' = Windows
    /\ UNCHANGED <<captureStopped, captureIncomplete, captureError>>

(* start, when route detection, the filter or the socket fails before there *)
(* is a backend.                                                            *)
CaptureStartRefused ==
    /\ ~startAttempted
    /\ startAttempted' = TRUE
    /\ captureError' \in BOOLEAN
    /\ UNCHANGED <<captureStarted, captureStopped, captureIncomplete, sniffer, socket>>

(* start, when the backend does not become ready: it is shut down, and what *)
(* cannot be released stays owned.                                          *)
CaptureStartFailed ==
    /\ ~startAttempted
    /\ startAttempted' = TRUE
    /\ captureError' = TRUE
    /\ \E threadLeft \in BOOLEAN, socketLeft \in BOOLEAN :
          /\ socketLeft => Windows
          /\ captureIncomplete' = (threadLeft \/ socketLeft)
          /\ captureStopped' = ~(threadLeft \/ socketLeft)
          /\ sniffer' = IF threadLeft THEN "alive" ELSE "dead"
          /\ socket' = socketLeft
    /\ UNCHANGED captureStarted

(* stop; a stopped capture returns its statistics.                          *)
CaptureStop(inCallback) ==
    /\ captureStarted \/ captureIncomplete
    /\ ~captureStopped
    /\ \E threadLeft \in BOOLEAN, socketLeft \in BOOLEAN, failed \in BOOLEAN :
          /\ ShutdownOutcome(threadLeft, socketLeft, inCallback)
          /\ ShutdownBackend(threadLeft, socketLeft, failed)
    /\ UNCHANGED <<startAttempted, captureStarted>>

(* The backend ends by itself: the source is exhausted, the adapter goes    *)
(* away, or the packet callback raises (handle_packet).                     *)
CaptureEnds ==
    /\ sniffer = "alive"
    /\ sniffer' = "dead"
    /\ captureError' \in {captureError, TRUE}
    /\ UNCHANGED <<startAttempted, captureStarted, captureStopped,
                   captureIncomplete, socket>>

-----------------------------------------------------------------------------
(* Nothing leaks: a thread or a socket that exists belongs to a capture     *)
(* whose stop() is still accepted, and a stopped capture owns neither       *)
(* (start's rollback, _shutdown_backend).                                   *)
BackendOwned ==
    /\ sniffer = "alive" \/ socket =>
           (captureStarted \/ captureIncomplete) /\ ~captureStopped
    /\ captureIncomplete => ~captureStopped
=============================================================================
