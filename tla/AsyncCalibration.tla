--------------------------- MODULE AsyncCalibration ---------------------------
(***************************************************************************)
(* AsyncCalibrationSession of _async_sessions.py: tasks of one event loop  *)
(* start, stop, abort and await a CalibrationSession that may be used for  *)
(* one run after another.  Its blocking calls run in the loop's default    *)
(* pool; _finish and _discard are tasks of their own, which every caller   *)
(* of stop or abort awaits and none cancels.  CalibrationSession has the   *)
(* session itself; a run is known here by its number, and so is its result.*)
(***************************************************************************)
EXTENDS Integers, FiniteSets, Sequences

CONSTANTS
    MaxRuns,       \* bound: runs
    MaxFailures,   \* bound: starts and stops that fail
    MaxCancels,    \* bound: cancellations
    MaxCalls,      \* bound: calls of stop and abort
    None

AsyncCalibrationConstants ==
    /\ {MaxRuns, MaxFailures, MaxCancels, MaxCalls} \subseteq Nat
    /\ None \notin {"stop", "abort", "busy", "ok", "failed"}

Tasks == {"control", "other"}      \* control starts; both stop and abort
Callers == Tasks \cup {"waiter"}

VARIABLES
    sync,      \* CalibrationSession: run, state, cleanup_incomplete
    start,     \* the future of the start: None, "busy", "ok", "failed"
    work,      \* the _finish and _discard tasks
    facade,    \* fields of the facade; .stop and .abort index work, 0 for None;
               \* .run is history: the run that start returned;
               \* .outlived: a stop of an earlier run was not over then
    task,      \* where each task awaits, the work it awaits, the run it was called in
    wait,      \* the waiter's pending wait, and terminal_poll
    wrong,     \* history: stop() returned an earlier run's result
    budget     \* the bounds, what is left of them

vars == <<sync, start, work, facade, task, wait, wrong, budget>>

Init ==
    /\ sync = [run |-> 0, state |-> "idle", incomplete |-> FALSE]
    /\ start = None
    /\ work = <<>>
    /\ facade = [active |-> FALSE, terminal |-> None, stop |-> 0, abort |-> 0, result |-> 0,
                 run |-> 0, outlived |-> FALSE]
    /\ task = [t \in Callers |-> [at |-> "idle", work |-> 0, run |-> 0]]
    /\ wait = [future |-> None, terminal |-> FALSE, result |-> 0]
    /\ wrong = FALSE
    /\ budget = [failures |-> MaxFailures, cancels |-> MaxCancels, calls |-> MaxCalls]

At(t, label) == task[t].at = label
Return(t) == task' = [task EXCEPT ![t] = [at |-> "idle", work |-> 0, run |-> 0]]
Cancel == budget.cancels > 0 /\ budget' = [budget EXCEPT !.cancels = @ - 1]
Fail == budget.failures > 0 /\ budget' = [budget EXCEPT !.failures = @ - 1]

(* CalibrationSession.stopped.                                              *)
Stopped == sync.state \in {"done", "failed", "discarded"}
ResultOf(s) == IF s.state = "done" THEN s.run ELSE 0

-----------------------------------------------------------------------------
StartCall ==
    /\ At("control", "idle") /\ ~facade.active /\ sync.run < MaxRuns
    /\ start' = "busy" /\ task' = [task EXCEPT !["control"].at = "starting"]
    /\ UNCHANGED <<sync, work, facade, wait, wrong, budget>>

(* A new run begins with nothing of the last one.                           *)
KeptTasks(f, active) == [f EXCEPT !.active = active, !.terminal = None, !.result = 0,
                                !.run = sync.run]
InFlight == \E k \in DOMAIN work : work[k].kind # "undo" /\ work[k].state \notin {"done", "failed"}
NewRun(f, active) ==
    [active |-> active, terminal |-> None, stop |-> 0, abort |-> 0, result |-> 0,
     run |-> sync.run, outlived |-> f.outlived \/ InFlight]

StartReturns ==
    /\ At("control", "starting") /\ start # "busy"
    /\ facade' = IF start = "ok" \/ sync.incomplete THEN NewRun(facade, TRUE) ELSE facade
    /\ start' = None /\ Return("control")
    /\ UNCHANGED <<sync, work, wait, wrong, budget>>

StartCancelled ==
    /\ At("control", "starting") /\ Cancel
    /\ task' = [task EXCEPT !["control"].at = "start settles"]
    /\ UNCHANGED <<sync, start, work, facade, wait, wrong>>

(* A start that succeeds after all is aborted, by a thread.                 *)
StartSettles ==
    /\ At("control", "start settles") /\ start # "busy"
    /\ IF start = "ok" \/ sync.incomplete
       THEN /\ facade' = NewRun(facade, facade.active)
            /\ work' = Append(work, [kind |-> "undo", state |-> "busy", result |-> 0])
            /\ task' = [task EXCEPT !["control"] =
                           [at |-> "start aborts", work |-> Len(work) + 1, run |-> 0]]
       ELSE UNCHANGED <<facade, work>> /\ Return("control")
    /\ start' = None
    /\ UNCHANGED <<sync, wait, wrong, budget>>

StartAborts ==
    /\ At("control", "start aborts") /\ work[task["control"].work].state # "busy"
    /\ facade' = [facade EXCEPT !.active = @ \/ sync.incomplete]
    /\ Return("control")
    /\ UNCHANGED <<sync, start, work, wait, wrong, budget>>

-----------------------------------------------------------------------------
Await(t, label, k) ==
    task' = [task EXCEPT ![t] = [at |-> label, work |-> k, run |-> facade.run]]

Calling == budget.calls > 0 /\ budget' = [budget EXCEPT !.calls = @ - 1]

(* stop: the first call creates the _finish task.                           *)
StopCall(t) ==
    /\ At(t, "idle") /\ Calling
    /\ facade.terminal # "abort" /\ (facade.active \/ facade.stop # 0)
    /\ IF facade.stop = 0
       THEN /\ work' = Append(work, [kind |-> "stop", state |-> "busy", result |-> 0])
            /\ facade' = [facade EXCEPT !.terminal = "stop", !.stop = Len(work) + 1]
       ELSE UNCHANGED <<work, facade>>
    /\ Await(t, "stopping", facade'.stop)
    /\ UNCHANGED <<sync, start, wait, wrong>>

(* abort, and the exit of the context: a stop that was called is awaited.   *)
AbortCall(t) ==
    /\ At(t, "idle") /\ Calling
    /\ facade.terminal # "stop" /\ (facade.active \/ facade.abort # 0)
    /\ IF facade.abort = 0
       THEN /\ work' = Append(work, [kind |-> "abort", state |-> "busy", result |-> 0])
            /\ facade' = [facade EXCEPT !.terminal = "abort", !.abort = Len(work) + 1]
       ELSE UNCHANGED <<work, facade>>
    /\ Await(t, "stopping", facade'.abort)
    /\ UNCHANGED <<sync, start, wait, wrong>>

(* _finish and _discard, when their thread has returned.                    *)
StillActive(k) == IF work[k].state = "raised" THEN sync.incomplete ELSE FALSE

WorkEnds(k) ==
    /\ work[k].kind \in {"stop", "abort"} /\ work[k].state \in {"returned", "raised"}
    /\ facade' =
          [facade EXCEPT
              !.active = StillActive(k),
              !.result = IF work[k].state = "raised" THEN @
                         ELSE IF work[k].kind = "stop" THEN work[k].result
                         ELSE IF Stopped THEN ResultOf(sync) ELSE @]
    /\ work' = [work EXCEPT ![k].state = IF @ = "raised" THEN "failed" ELSE "done"]
    /\ UNCHANGED <<sync, start, task, wait, wrong, budget>>

Settled(t) == work[task[t].work].state \in {"done", "failed"}

(* What could not be cleaned up is active, and is stopped by another task.  *)
Retained(f, k) ==
    IF sync.incomplete
    THEN [f EXCEPT !.stop = IF @ = k THEN 0 ELSE @, !.abort = IF @ = k THEN 0 ELSE @,
                   !.active = TRUE]
    ELSE f

StopReturns(t) ==
    /\ At(t, "stopping") /\ Settled(t)
    /\ IF work[task[t].work].state = "done"
       THEN /\ wrong' = (wrong \/ (work[task[t].work].kind = "stop"
                                   /\ work[task[t].work].result < task[t].run))
            /\ UNCHANGED facade
       ELSE facade' = Retained(facade, task[t].work) /\ UNCHANGED wrong
    /\ Return(t)
    /\ UNCHANGED <<sync, start, work, wait, budget>>

StopCancelled(t) ==
    /\ At(t, "stopping") /\ Cancel
    /\ task' = [task EXCEPT ![t].at = "stop settles"]
    /\ UNCHANGED <<sync, start, work, facade, wait, wrong>>

StopSettles(t) ==
    /\ At(t, "stop settles") /\ Settled(t)
    /\ facade' = Retained(facade, task[t].work) /\ Return(t)
    /\ UNCHANGED <<sync, start, work, wait, wrong, budget>>

-----------------------------------------------------------------------------
(* wait: bounded polls of the session, the last one after it has stopped.   *)
WaitCall ==
    /\ At("waiter", "idle") /\ sync.run > 0 /\ wait.future = None
    /\ task' = [task EXCEPT !["waiter"].at = "waiting"]
    /\ wait' = [future |-> "busy", terminal |-> FALSE, result |-> 0]
    /\ UNCHANGED <<sync, start, work, facade, wrong, budget>>

WaitAgain ==
    IF wait.terminal THEN wait' = [future |-> None, terminal |-> FALSE, result |-> 0]
    ELSE wait' = [future |-> "busy", terminal |-> Stopped, result |-> 0]

WaitReturns ==
    /\ At("waiter", "waiting") /\ wait.future # "busy"
    /\ IF wait.future = "empty"
       THEN WaitAgain /\ UNCHANGED facade
       ELSE /\ wait' = [future |-> None, terminal |-> FALSE, result |-> 0]
            /\ facade' = IF wait.future = "failed" THEN facade
                         ELSE [facade EXCEPT !.result = wait.result]
    /\ IF wait'.future = None THEN Return("waiter") ELSE UNCHANGED task
    /\ UNCHANGED <<sync, start, work, wrong, budget>>

WaitCancelled ==
    /\ At("waiter", "waiting") /\ wait.future # "busy" /\ Cancel
    /\ wait' = [future |-> None, terminal |-> FALSE, result |-> 0] /\ Return("waiter")
    /\ UNCHANGED <<sync, start, work, facade, wrong>>

-----------------------------------------------------------------------------
(* The threads.  What was not stopped is still owned.                       *)
Incomplete == [sync EXCEPT !.incomplete = TRUE]
Ended(state) == [sync EXCEPT !.state = state, !.incomplete = FALSE]

StartRuns ==
    /\ start = "busy"
    /\ \/ /\ sync.state # "running"
          /\ sync' = [run |-> sync.run + 1, state |-> "running", incomplete |-> FALSE]
          /\ start' = "ok" /\ UNCHANGED budget
       \/ /\ sync.state # "running" /\ Fail /\ start' = "failed"
          /\ sync' = [run |-> sync.run + 1, state |-> "running", incomplete |-> TRUE]
       \/ /\ sync.state # "running" /\ Fail /\ start' = "failed" /\ UNCHANGED sync
    /\ UNCHANGED <<work, facade, task, wait, wrong>>

StopRuns(k) ==
    /\ k \in DOMAIN work /\ work[k].state = "busy" /\ work[k].kind = "stop"
    /\ \/ /\ sync.state = "running" /\ sync' = Ended("done")
          /\ work' = [work EXCEPT ![k].state = "returned", ![k].result = sync.run]
          /\ UNCHANGED budget
       \/ /\ sync.state = "running" /\ Fail
          /\ sync' \in {Incomplete, Ended("failed")}
          /\ work' = [work EXCEPT ![k].state = "raised"]
       \/ /\ sync.state # "running" /\ UNCHANGED <<sync, budget>>
          /\ work' = IF sync.state = "done"
                     THEN [work EXCEPT ![k].state = "returned", ![k].result = sync.run]
                     ELSE [work EXCEPT ![k].state = "raised"]
    /\ UNCHANGED <<start, facade, task, wait, wrong>>

(* __exit__: what is finished is left alone.                                *)
AbortRuns(k) ==
    /\ k \in DOMAIN work /\ work[k].state = "busy" /\ work[k].kind \in {"abort", "undo"}
    /\ \/ /\ sync' = IF sync.state = "running" THEN Ended("discarded") ELSE sync
          /\ work' = [work EXCEPT ![k].state = "returned"] /\ UNCHANGED budget
       \/ /\ sync.state = "running" /\ Fail
          /\ sync' \in {Incomplete, Ended("failed")}
          /\ work' = [work EXCEPT ![k].state = "raised"]
    /\ UNCHANGED <<start, facade, task, wait, wrong>>

WaitRuns ==
    /\ wait.future = "busy"
    /\ wait' = [wait EXCEPT
                    !.result = ResultOf(sync),
                    !.future = IF sync.state = "done" THEN "result"
                                       ELSE IF sync.state = "failed" \/ sync.incomplete
                                       THEN "failed" ELSE "empty"]
    /\ UNCHANGED <<sync, start, work, facade, task, wrong, budget>>

(* stop_on_complete, request_stop, or a failure of the capture.             *)
CompletesAlone ==
    /\ sync.state = "running" /\ ~sync.incomplete
    /\ \/ sync' = Ended("done") /\ UNCHANGED budget
       \/ Fail /\ sync' \in {Incomplete, Ended("failed")}
    /\ UNCHANGED <<start, work, facade, task, wait, wrong>>

Threads == StartRuns \/ WaitRuns \/ \E k \in DOMAIN work : StopRuns(k) \/ AbortRuns(k)
Resumes(t) == StopReturns(t) \/ StopSettles(t)

Next ==
    \/ StartCall \/ StartReturns \/ StartCancelled \/ StartSettles \/ StartAborts
    \/ \E t \in Tasks : StopCall(t) \/ AbortCall(t) \/ StopCancelled(t) \/ Resumes(t)
    \/ \E k \in DOMAIN work : WorkEnds(k) \/ StopRuns(k) \/ AbortRuns(k)
    \/ WaitCall \/ WaitReturns \/ WaitCancelled
    \/ StartRuns \/ WaitRuns \/ CompletesAlone

Fairness ==
    /\ WF_vars(StartRuns) /\ WF_vars(WaitRuns)
    /\ WF_vars(\E k \in DOMAIN work : StopRuns(k) \/ AbortRuns(k))
    /\ WF_vars(\E k \in DOMAIN work : WorkEnds(k))
    /\ WF_vars(StartReturns \/ StartSettles \/ StartAborts)
    /\ WF_vars(WaitReturns)
    /\ \A t \in Tasks : WF_vars(Resumes(t))

Spec == Init /\ [][Next]_vars
FairSpec == Spec /\ Fairness

-----------------------------------------------------------------------------
(* stop() never returns the result of an earlier run than the one it was    *)
(* called in, which it would leave going, because it found an old task      *)
(* (_async_sessions.py:545-553, 583-587).                                   *)
OwnRun == ~wrong

(* A capture that is still owned can be reached: the facade is active, so   *)
(* that stop, abort and the exit of the context act, and a task that failed *)
(* does not stand in their way (_async_sessions.py:561-575, 619-629).       *)
Reachable ==
    /\ sync.state = "running" /\ ~facade.outlived
    /\ task["control"].at \notin {"starting", "start settles", "start aborts"}
    =>
        /\ facade.active
        /\ \A k \in {facade.stop, facade.abort} \ {0} :
              work[k].state # "failed" \/ \E t \in Tasks : task[t].work = k

(* Every call of start, stop and abort ends, and a wait ends with the run,  *)
(* also when it was discarded without a result (_async_sessions.py:515-527).*)
Waiting(t) == task[t].at \notin {"idle", "waiting"} \/ (At(t, "waiting") /\ Stopped)
CallsEnd == \A t \in Callers : Waiting(t) ~> ~Waiting(t)
=============================================================================
