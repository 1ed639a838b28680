--------------------------- MODULE AsyncItemSession ---------------------------
(***************************************************************************)
(* AsyncLiveCaptureSession of _async_sessions.py: coroutines of one event  *)
(* loop (tasks) share a LiveCaptureSession, whose blocking calls run in a  *)
(* pool of threads of the facade's own.  Between two awaits a task is not  *)
(* interrupted by another task, but the session's threads go on; a task    *)
(* may be cancelled at any await, which must neither lose an event that a  *)
(* thread has already taken, nor a stop that others share, nor the threads *)
(* that a later stop needs.  LiveCaptureSession has the session itself;    *)
(* here it starts, produces, ends by itself, is stopped, or fails to be.   *)
(***************************************************************************)
EXTENDS Integers, FiniteSets, Sequences

CONSTANTS
    MaxEvents,     \* bound: events produced
    MaxFailures,   \* bound: starts and stops that fail
    MaxStops,      \* bound: stop futures
    MaxCancels,    \* bound: cancellations
    None

AsyncItemConstants ==
    /\ {MaxEvents, MaxFailures, MaxStops, MaxCancels} \subseteq Nat
    /\ None \notin {"busy", "ok", "failed", "event", "end", "error"}

Tasks == {"control", "other"}      \* either may poll and stop; control starts

VARIABLES
    sync,      \* LiveCaptureSession: its state, cleanup_incomplete, its events
    future,    \* the start and poll futures: None, "busy", or the outcome;
               \*   .event is the event the poll has taken, if any
    stops,     \* every stop future
    facade,    \* fields of the facade; .stop indexes stops, 0 for None
    task,      \* where each task awaits, and the stop future it holds
    received,  \* history: events returned by poll
    budget     \* the bounds, what is left of them

vars == <<sync, future, stops, facade, task, received, budget>>

Init ==
    /\ sync = [state |-> "new", incomplete |-> FALSE, events |-> <<>>, made |-> 0]
    /\ future = [start |-> None, poll |-> None, event |-> <<>>]
    /\ stops = <<>>
    /\ facade = [attempted |-> FALSE, complete |-> FALSE, closed |-> FALSE,
                 stop |-> 0, polling |-> FALSE, pending |-> <<>>]
    /\ task = [t \in Tasks |-> [at |-> "idle", stop |-> 0]]
    /\ received = <<>>
    /\ budget = [failures |-> MaxFailures, cancels |-> MaxCancels]

Stopped == sync.state = "stopped"
Threads == 2          \* max_workers of the pool

At(t, label) == task[t].at = label
Goto(t, label) == task' = [task EXCEPT ![t].at = label]
Return(t) == task' = [task EXCEPT ![t] = [at |-> "idle", stop |-> 0]]
Settled(t) == task[t].stop = 0 \/ stops[task[t].stop] # "busy"

Cancel(t, label) ==
    /\ budget.cancels > 0 /\ budget' = [budget EXCEPT !.cancels = @ - 1]
    /\ Goto(t, label)

(* _shutdown_executor.                                                      *)
Close(f, when) == [f EXCEPT !.closed = @ \/ when]

(* A stop that failed is forgotten, unless it was replaced meanwhile.       *)
ForgetStop(f, t) == [f EXCEPT !.stop = IF @ = task[t].stop THEN 0 ELSE @]

(* What every cancelled call does once the stop it waited for has settled:  *)
(* the pool is closed, or kept for another stop.                            *)
SettleKeepingStop(f, t) == IF sync.incomplete THEN f ELSE Close(f, TRUE)
SettleStop(f, t) ==
    IF sync.incomplete THEN ForgetStop(f, t) ELSE Close(f, TRUE)

(* _ensure_stop_future: it cannot be submitted to a closed pool.            *)
EnsureStop(f, t, label) ==
    \/ /\ f.stop # 0
       /\ facade' = f /\ task' = [task EXCEPT ![t] = [at |-> label, stop |-> f.stop]]
       /\ UNCHANGED stops
    \/ /\ f.stop = 0 /\ ~f.closed
       /\ Len(stops) < MaxStops /\ stops' = Append(stops, "busy")
       /\ facade' = [f EXCEPT !.stop = Len(stops) + 1]
       /\ task' = [task EXCEPT ![t] = [at |-> label, stop |-> Len(stops) + 1]]
Refused(f) == f.stop = 0 /\ f.closed

-----------------------------------------------------------------------------
(* start: one attempt only.                                                 *)
StartCall ==
    /\ At("control", "idle") /\ ~facade.attempted
    /\ facade' = [facade EXCEPT !.attempted = TRUE]
    /\ future' = [future EXCEPT !.start = "busy"]
    /\ Goto("control", "starting")
    /\ UNCHANGED <<sync, stops, received, budget>>

StartReturns ==
    /\ At("control", "starting") /\ future.start # "busy"
    /\ facade' = IF future.start = "ok" \/ sync.incomplete
                 THEN [facade EXCEPT !.complete = TRUE]
                 ELSE Close(facade, TRUE)
    /\ Return("control")
    /\ UNCHANGED <<sync, future, stops, received, budget>>

StartCancelled ==
    /\ At("control", "starting") /\ Cancel("control", "start settles")
    /\ UNCHANGED <<sync, future, stops, facade, received>>

(* A start that succeeds after all is stopped again.                        *)
StartSettles ==
    /\ At("control", "start settles") /\ future.start # "busy"
    /\ IF future.start = "ok" \/ sync.incomplete
       THEN LET f == [facade EXCEPT !.complete = TRUE]
            IN  \/ EnsureStop(f, "control", "stop settles")
                \/ /\ Refused(f) /\ facade' = SettleStop(f, "control")
                   /\ Return("control") /\ UNCHANGED stops
       ELSE facade' = Close(facade, TRUE) /\ Return("control") /\ UNCHANGED stops
    /\ UNCHANGED <<sync, future, received, budget>>

(* stop, and the exit of the context.                                       *)
StopCall(t) ==
    /\ At(t, "idle")
    /\ \/ Stopped /\ facade' = Close(facade, TRUE) /\ UNCHANGED <<stops, task>>
       \/ ~Stopped /\ facade.complete /\ EnsureStop(facade, t, "stopping")
    /\ UNCHANGED <<sync, future, received, budget>>

StopReturns(t) ==
    /\ At(t, "stopping") /\ Settled(t)
    /\ facade' = IF stops[task[t].stop] = "ok" \/ Stopped THEN Close(facade, TRUE)
                 ELSE ForgetStop(facade, t)
    /\ Return(t)
    /\ UNCHANGED <<sync, future, stops, received, budget>>

StopCancelled(t) ==
    /\ At(t, "stopping") /\ Cancel(t, "stop settles")
    /\ UNCHANGED <<sync, future, stops, facade, received>>

StopSettles(t) ==
    /\ At(t, "stop settles") /\ Settled(t)
    /\ facade' = SettleStop(facade, t) /\ Return(t)
    /\ UNCHANGED <<sync, future, stops, received, budget>>

(* poll: an event that a cancelled poll left; the rest of a stopped session *)
(* at once; or a thread's poll.  stopped is read twice.                     *)
PollCall(t) ==
    /\ At(t, "idle") /\ ~facade.polling /\ (facade.complete \/ Stopped)
    /\ \E before \in {FALSE, Stopped} :
          LET f == Close(facade, before)
          IN  \/ /\ f.pending # <<>>
                 /\ received' = Append(received, Head(f.pending))
                 /\ facade' = [f EXCEPT !.pending = Tail(@)]
                 /\ UNCHANGED <<sync, future, task>>
              \/ /\ f.pending = <<>> /\ Stopped
                 /\ facade' = f
                 /\ IF sync.events = <<>> THEN UNCHANGED <<sync, received>>
                    ELSE /\ received' = Append(received, Head(sync.events))
                         /\ sync' = [sync EXCEPT !.events = Tail(@)]
                 /\ UNCHANGED <<future, task>>
              \/ /\ f.pending = <<>> /\ ~Stopped /\ ~f.closed
                 /\ facade' = [f EXCEPT !.polling = TRUE]
                 /\ future' = [future EXCEPT !.poll = "busy"]
                 /\ Goto(t, "polling")
                 /\ UNCHANGED <<sync, received>>
    /\ UNCHANGED <<stops, budget>>

PollReturns(t) ==
    /\ At(t, "polling") /\ future.poll # "busy"
    /\ received' = received \o future.event
    /\ future' = [future EXCEPT !.poll = None, !.event = <<>>]
    /\ facade' = Close([facade EXCEPT !.polling = FALSE], Stopped)
    /\ Return(t)
    /\ UNCHANGED <<sync, stops, budget>>

(* Cancelling a poll ends the session, so that the poll ends.               *)
PollCancelled(t) ==
    /\ At(t, "polling")
    /\ budget.cancels > 0 /\ budget' = [budget EXCEPT !.cancels = @ - 1]
    /\ \/ EnsureStop(facade, t, "poll stops")
       \/ Refused(facade) /\ Goto(t, "poll settles") /\ UNCHANGED <<stops, facade>>
    /\ UNCHANGED <<sync, future, received>>

PollStops(t) ==
    /\ At(t, "poll stops") /\ Settled(t) /\ Goto(t, "poll settles")
    /\ UNCHANGED <<sync, future, stops, facade, received, budget>>

Preserved(f) == [f EXCEPT !.polling = FALSE, !.pending = @ \o future.event]

PollSettles(t) ==
    /\ At(t, "poll settles") /\ future.poll # "busy"
    /\ facade' = SettleStop(Preserved(facade), t)
    /\ future' = [future EXCEPT !.poll = None, !.event = <<>>]
    /\ Return(t)
    /\ UNCHANGED <<sync, stops, received, budget>>

-----------------------------------------------------------------------------
(* The threads of the pool, and the session's own.                          *)
Fail == budget.failures > 0 /\ budget' = [budget EXCEPT !.failures = @ - 1]

StartRuns ==
    /\ future.start = "busy"
    /\ \/ /\ sync' = [sync EXCEPT !.state = "running"]
          /\ future' = [future EXCEPT !.start = "ok"] /\ UNCHANGED budget
       \/ /\ Fail /\ future' = [future EXCEPT !.start = "failed"]
          /\ sync' \in {sync, [sync EXCEPT !.state = "running", !.incomplete = TRUE]}
    /\ UNCHANGED <<stops, facade, task, received>>

(* _finish_stop: what was pending is decided, so that a last event appears; *)
(* or something still runs, and stays owned.                                *)
Finished ==
    {[sync EXCEPT !.state = "stopped", !.incomplete = FALSE, !.made = @ + n,
                  !.events = @ \o [i \in 1..n |-> sync.made + 1]] :
        n \in 0..(IF sync.made < MaxEvents THEN 1 ELSE 0)}
Unfinished == [sync EXCEPT !.incomplete = TRUE]

StopRuns(k) ==
    /\ k \in DOMAIN stops /\ stops[k] = "busy"
    /\ \/ /\ sync' \in IF Stopped THEN {sync} ELSE Finished
          /\ stops' = [stops EXCEPT ![k] = "ok"] /\ UNCHANGED budget
       \/ /\ ~Stopped /\ Fail /\ sync' = Unfinished
          /\ stops' = [stops EXCEPT ![k] = "failed"]
    /\ UNCHANGED <<future, facade, task, received>>

PollRuns ==
    /\ future.poll = "busy"
    /\ \/ /\ sync.events # <<>>
          /\ future' = [future EXCEPT !.poll = "event", !.event = <<Head(sync.events)>>]
          /\ sync' = [sync EXCEPT !.events = Tail(@)]
       \/ /\ sync.events = <<>> /\ Stopped
          /\ \E outcome \in {"end", "error"} : future' = [future EXCEPT !.poll = outcome]
          /\ UNCHANGED sync
       \/ /\ sync.incomplete       \* its own attempt to finish the stop fails
          /\ future' = [future EXCEPT !.poll = "error"] /\ UNCHANGED sync
    /\ UNCHANGED <<stops, facade, task, received, budget>>

PollTimesOut ==
    /\ future.poll = "busy" /\ sync.events = <<>>
    /\ future' = [future EXCEPT !.poll = "end"]
    /\ UNCHANGED <<sync, stops, facade, task, received, budget>>

EventComes ==
    /\ sync.state = "running" /\ ~sync.incomplete /\ sync.made < MaxEvents
    /\ sync' = [sync EXCEPT !.made = @ + 1, !.events = Append(@, sync.made + 1)]
    /\ UNCHANGED <<future, stops, facade, task, received, budget>>

(* The capture ends, or request_stop is called: the monitor finishes.       *)
SessionEnds ==
    /\ sync.state = "running"
    /\ \/ sync' \in Finished /\ UNCHANGED budget
       \/ Fail /\ sync' = Unfinished
    /\ UNCHANGED <<future, stops, facade, task, received>>

Resumes(t) ==
    \/ StopReturns(t) \/ StopSettles(t)
    \/ PollReturns(t) \/ PollStops(t) \/ PollSettles(t)
Calls(t) == StopCall(t) \/ PollCall(t)
Cancels(t) == StopCancelled(t) \/ PollCancelled(t)

Next ==
    \/ StartCall \/ StartReturns \/ StartCancelled \/ StartSettles
    \/ \E t \in Tasks : Calls(t) \/ Cancels(t) \/ Resumes(t)
    \/ StartRuns \/ (\E k \in 1..MaxStops : StopRuns(k)) \/ PollRuns
    \/ PollTimesOut \/ EventComes \/ SessionEnds

Fairness ==
    /\ WF_vars(StartRuns) /\ WF_vars(PollRuns)
    /\ \A k \in 1..MaxStops : WF_vars(StopRuns(k))
    /\ WF_vars(StartReturns \/ StartSettles)
    /\ \A t \in Tasks : WF_vars(Resumes(t))

Spec == Init /\ [][Next]_vars
FairSpec == Spec /\ Fairness

-----------------------------------------------------------------------------
(* No cancellation loses, repeats or reorders an event: it is received, or  *)
(* kept for the next poll, or on its way, or in the session                 *)
(* (_async_sessions.py:76-79, 286-299).                                     *)
EventsKept ==
    /\ received \o facade.pending \o future.event \o sync.events = [i \in 1..sync.made |-> i]
    /\ Len(facade.pending) <= 1

(* While the session owns a capture, the pool is open, a stop that failed   *)
(* will be replaced by the next one, and a thread is free to run it         *)
(* (_async_sessions.py:67-72, 226-237, 300-307).                            *)
Busy == {k \in DOMAIN stops : stops[k] = "busy"}
CanBeStopped ==
    sync.state = "running" /\ facade.complete =>
        /\ ~facade.closed
        /\ facade.stop = 0 \/ stops[facade.stop] # "failed"
              \/ \E t \in Tasks : task[t].stop = facade.stop
        /\ Cardinality(Busy) + (IF future.poll = "busy" THEN 1 ELSE 0) <= Threads

(* A start, a stop and a cancelled call end, though others be cancelled     *)
(* (_async_utils.py:6-18, _async_sessions.py:286-308).                      *)
CallsEnd ==
    \A t \in Tasks : task[t].at \notin {"idle", "polling"} ~> task[t].at = "idle"
=============================================================================
