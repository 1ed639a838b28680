------------------------------ MODULE SessionsProofs ------------------------------
(***************************************************************************)
(* The facade of the item session, for any number of events, stops,        *)
(* failures and cancellations: the session it owns can be stopped, and no  *)
(* event is lost.  And the Solare session, for any number of packets and   *)
(* failures: one thread at a time has it in hand, and what is accepted,    *)
(* written, confirmed and announced agree.                                 *)
(***************************************************************************)
EXTENDS CalibrationProofs, SequenceTheorems, FiniteSetTheorems

-----------------------------------------------------------------------------
(* AsyncItemSession.                                                        *)
ItemStates == {"new", "running", "stopped"}
ItemLabels ==
    {"idle", "starting", "start settles", "stopping", "stop settles", "polling", "poll stops",
     "poll settles"}

(* Every component of the state has its type.                               *)
ItemsSync ==
    sync \in [state : ItemStates, incomplete : BOOLEAN, events : Seq(Nat), made : Nat]
ItemsFuture ==
    future \in [start : {None, "busy", "ok", "failed"},
                poll : {None, "busy", "event", "end", "error"}, event : Seq(Nat)]
ItemsStops == stops \in Seq({"busy", "ok", "failed"})
ItemsFacade ==
    facade \in [attempted : BOOLEAN, complete : BOOLEAN, closed : BOOLEAN, stop : Nat,
                polling : BOOLEAN, pending : Seq(Nat)]
ItemsTasks == task \in [Items!Tasks -> [at : ItemLabels, stop : Nat]]
ItemsReceived == received \in Seq(Nat)

IsNew == sync.state = "new"
IsRunning == sync.state = "running"
IsStopped == sync.state = "stopped"

(* One start is attempted, on a new session, which nothing stops before it  *)
(* has been; and one that failed has left nothing running that is not owed. *)
ItemsAttempted == future.start = None <=> ~facade.attempted
ItemsNewFirst == future.start = None \/ future.start = "busy" => IsNew
ItemsNew ==
    IsNew => ~sync.incomplete /\ future.start # "ok" /\ DOMAIN stops = {} /\ ~facade.complete
ItemsOwed == sync.incomplete => IsRunning
ItemsFailed == future.start = "failed" /\ IsRunning => sync.incomplete

(* The pool is closed when the session has stopped, or never started.       *)
ItemsClosed == facade.closed => IsStopped \/ (IsNew /\ future.start = "failed")

(* Where a task may be, and with which stop.                                *)
InStart(t) == task[t].at = "starting" \/ task[t].at = "start settles"
InPoll(t) == task[t].at = "polling" \/ task[t].at = "poll stops" \/ task[t].at = "poll settles"
InStop(t) ==
    task[t].at = "stopping" \/ task[t].at = "stop settles" \/ task[t].at = "poll stops"
ItemsFree ==
    \A t \in Items!Tasks : task[t].at = "idle" \/ task[t].at = "polling" \/ InStart(t) =>
        task[t].stop = 0
ItemsHolds == \A t \in Items!Tasks : InStop(t) => task[t].stop \in DOMAIN stops
ItemsGivenUp ==
    \A t \in Items!Tasks : task[t].at = "poll settles" =>
        \/ task[t].stop = 0 /\ facade.closed
        \/ task[t].stop \in DOMAIN stops /\ stops[task[t].stop] # "busy"
ItemsStarting == \A t \in Items!Tasks : InStart(t) => future.start # None
ItemsPolls ==
    \A t \in Items!Tasks : InPoll(t) =>
        facade.polling /\ ~IsNew /\ \A u \in Items!Tasks : InPoll(u) => u = t

(* A stop that is over has stopped the session, or it is owed; one at a     *)
(* time is not over; and while the session runs, a task holds the last.     *)
ItemsOver ==
    \A k \in DOMAIN stops :
        (stops[k] = "ok" => IsStopped) /\ (stops[k] = "failed" => IsStopped \/ sync.incomplete)
ItemsLast == facade.stop # 0 => facade.stop \in DOMAIN stops
ItemsHeld ==
    facade.stop # 0 /\ ~IsStopped =>
        task["control"].stop = facade.stop \/ task["other"].stop = facade.stop
ItemsOneStop == \A k \in DOMAIN stops : stops[k] = "busy" => k = facade.stop

(* Events: one poll at a time, and one event on its way.                    *)
ItemsPolling == facade.polling <=> future.poll # None
ItemsEvent == future.event # <<>> => future.poll = "event" /\ Len(future.event) = 1
ItemsPending == facade.pending # <<>> => ~facade.polling /\ Len(facade.pending) = 1
Counted(n) == [i \in 1..n |-> i]
ItemsKept ==
    ((received \o facade.pending) \o future.event) \o sync.events = Counted(sync.made)

ItemsInv ==
    /\ ItemsSync /\ ItemsFuture /\ ItemsStops /\ ItemsFacade /\ ItemsTasks /\ ItemsReceived
    /\ ItemsAttempted /\ ItemsNewFirst /\ ItemsNew /\ ItemsOwed /\ ItemsFailed /\ ItemsClosed
    /\ ItemsFree /\ ItemsHolds /\ ItemsGivenUp /\ ItemsStarting /\ ItemsPolls
    /\ ItemsOver /\ ItemsLast /\ ItemsHeld /\ ItemsOneStop
    /\ ItemsPolling /\ ItemsEvent /\ ItemsPending /\ ItemsKept

(* The tasks, and what None is not.                                         *)
LEMMA ItemsSets ==
    /\ Items!Tasks = {"control", "other"}
    /\ None \notin {"busy", "ok", "failed", "event", "end", "error"}
BY SessionsConstants DEF Items!AsyncItemConstants, Items!Tasks

(* Task t goes on at a label with a stop; the other does not.               *)
ItemGoes(t, label, k) ==
    /\ task'[t].at = label /\ task'[t].stop = k
    /\ \A u \in Items!Tasks \ {t} : task'[u] = task[u]

(* A task that changes its label alone goes there.                          *)
LEMMA ItemsAt ==
    ASSUME ItemsTasks, NEW t \in Items!Tasks, NEW l \in ItemLabels,
           task' = [task EXCEPT ![t].at = l]
    PROVE  ItemsTasks' /\ ItemGoes(t, l, task[t].stop)
BY DEF ItemGoes, ItemsTasks

(* A task that is given a place goes there.                                 *)
LEMMA ItemsWith ==
    ASSUME ItemsTasks, NEW t \in Items!Tasks, NEW l \in ItemLabels, NEW k \in Nat,
           task' = [task EXCEPT ![t] = [at |-> l, stop |-> k]]
    PROVE  ItemsTasks' /\ ItemGoes(t, l, k)
BY DEF ItemGoes, ItemsTasks

(* A stop begins, or ends.                                                  *)
StopBegins(n) ==
    /\ n \in Nat \ {0} /\ n \notin DOMAIN stops /\ n \in DOMAIN stops' /\ stops'[n] = "busy"
    /\ \A j \in DOMAIN stops' : j = n \/ j \in DOMAIN stops
    /\ \A j \in DOMAIN stops : j \in DOMAIN stops' /\ stops'[j] = stops[j]
StopEnds(k, outcome) ==
    /\ DOMAIN stops' = DOMAIN stops /\ stops'[k] = outcome
    /\ \A j \in DOMAIN stops : j # k => stops'[j] = stops[j]

(* A stop that begins is the last of them.                                  *)
LEMMA ItemsBegins ==
    ASSUME ItemsStops, stops' = Append(stops, "busy")
    PROVE  ItemsStops' /\ StopBegins(Len(stops) + 1)
BY DEF ItemsStops, StopBegins

(* A stop that ends is still the one it was.                                *)
LEMMA ItemsEnds ==
    ASSUME ItemsStops, NEW k \in DOMAIN stops, NEW outcome \in {"ok", "failed"},
           stops' = [stops EXCEPT ![k] = outcome]
    PROVE  ItemsStops' /\ StopEnds(k, outcome)
BY DEF ItemsStops, StopEnds

(* Stops have numbers, and none of them is zero.                            *)
LEMMA ItemsIndex ==
    ASSUME ItemsStops
    PROVE  /\ DOMAIN stops \subseteq Nat \ {0}
           /\ \A k \in DOMAIN stops : stops[k] \in {"busy", "ok", "failed"}
BY DEF ItemsStops

FacadeRecords ==
    [attempted : BOOLEAN, complete : BOOLEAN, closed : BOOLEAN, stop : Nat, polling : BOOLEAN,
     pending : Seq(Nat)]

(* _ensure_stop_future joins the stop there is, or begins one.              *)
ItemEnsures(t, label) ==
    /\ facade'.stop # 0 /\ ItemGoes(t, label, facade'.stop)
    /\ \/ facade'.stop = facade.stop /\ stops' = stops
       \/ facade.stop = 0 /\ ~facade.closed /\ StopBegins(facade'.stop)

(* The stop there is is joined, or the one that begins.                     *)
LEMMA ItemsEnsure ==
    ASSUME ItemsStops, ItemsTasks, NEW f \in FacadeRecords,
           f.stop = facade.stop, f.closed = facade.closed,
           NEW t \in Items!Tasks, NEW label \in ItemLabels, Items!EnsureStop(f, t, label)
    PROVE  /\ ItemsStops' /\ ItemsTasks' /\ ItemsFacade' /\ ItemEnsures(t, label)
           /\ facade'.attempted = f.attempted /\ facade'.complete = f.complete
           /\ facade'.closed = f.closed /\ facade'.polling = f.polling
           /\ facade'.pending = f.pending
<1>1. CASE f.stop # 0 /\ facade' = f /\ stops' = stops
           /\ task' = [task EXCEPT ![t] = [at |-> label, stop |-> f.stop]]
  <2>1. f.stop \in Nat
    BY DEF FacadeRecords
  <2>2. ItemsTasks' /\ ItemGoes(t, label, f.stop)
    BY <1>1, <2>1, ItemsWith
  <2> QED
    BY <1>1, <2>2 DEF ItemEnsures, ItemsStops, ItemsFacade, FacadeRecords
<1>2. CASE /\ f.stop = 0 /\ ~f.closed /\ stops' = Append(stops, "busy")
           /\ facade' = [f EXCEPT !.stop = Len(stops) + 1]
           /\ task' = [task EXCEPT ![t] = [at |-> label, stop |-> Len(stops) + 1]]
  <2>1. Len(stops) + 1 \in Nat /\ Len(stops) + 1 # 0
    BY DEF ItemsStops
  <2>2. ItemsTasks' /\ ItemGoes(t, label, Len(stops) + 1)
    BY <1>2, <2>1, ItemsWith
  <2>3. ItemsStops' /\ StopBegins(Len(stops) + 1)
    BY <1>2, ItemsBegins
  <2>4. /\ ItemsFacade' /\ facade'.stop = Len(stops) + 1
        /\ facade'.attempted = f.attempted /\ facade'.complete = f.complete
        /\ facade'.closed = f.closed /\ facade'.polling = f.polling
        /\ facade'.pending = f.pending
    BY <1>2, <2>1 DEF ItemsFacade, FacadeRecords
  <2> QED
    BY <1>2, <2>1, <2>2, <2>3, <2>4 DEF ItemEnsures
<1> QED
  BY <1>1, <1>2 DEF Items!EnsureStop

(* What the pool is left with when a stop has settled.                      *)
LEMMA ItemsSettle ==
    ASSUME ItemsSync, NEW f \in FacadeRecords, NEW t, facade' = Items!SettleStop(f, t)
    PROVE  /\ ItemsFacade'
           /\ facade'.attempted = f.attempted /\ facade'.complete = f.complete
           /\ facade'.closed = (f.closed \/ ~sync.incomplete)
           /\ facade'.polling = f.polling /\ facade'.pending = f.pending
           /\ facade'.stop = IF sync.incomplete /\ f.stop = task[t].stop THEN 0 ELSE f.stop
BY DEF Items!SettleStop, Items!ForgetStop, Items!Close, ItemsFacade, FacadeRecords, ItemsSync

(* Closing the pool changes nothing else.                                   *)
LEMMA ItemsClose ==
    ASSUME NEW f \in FacadeRecords, NEW b \in BOOLEAN, facade' = Items!Close(f, b)
    PROVE  /\ ItemsFacade'
           /\ facade'.attempted = f.attempted /\ facade'.complete = f.complete
           /\ facade'.closed = (f.closed \/ b)
           /\ facade'.polling = f.polling /\ facade'.pending = f.pending
           /\ facade'.stop = f.stop
BY DEF Items!Close, ItemsFacade, FacadeRecords

(* Sequences: the first of one is appended to another, and one counts on.   *)
LEMMA TakeFirst ==
    ASSUME NEW s \in Seq(Nat), NEW v \in Seq(Nat), v # <<>>
    PROVE  /\ Append(s, Head(v)) \o Tail(v) = s \o v
           /\ Head(v) \in Nat /\ Tail(v) \in Seq(Nat) /\ Append(s, Head(v)) \in Seq(Nat)
           /\ Append(s, Head(v)) = s \o <<Head(v)>> /\ <<Head(v)>> \in Seq(Nat)
           /\ Len(Tail(v)) = Len(v) - 1
<1>1. /\ Head(v) \in Nat /\ Tail(v) \in Seq(Nat) /\ Append(s, Head(v)) \in Seq(Nat)
      /\ Append(s, Head(v)) = s \o <<Head(v)>> /\ <<Head(v)>> \in Seq(Nat)
      /\ Len(Tail(v)) = Len(v) - 1
  BY SMTT(30)
<1>2. <<Head(v)>> \o Tail(v) = v
  OBVIOUS
<1>3. (s \o <<Head(v)>>) \o Tail(v) = s \o (<<Head(v)>> \o Tail(v))
  BY <1>1, ConcatAssociative
<1> QED
  BY <1>1, <1>2, <1>3

(* Counting on, one further.                                                *)
LEMMA CountOn ==
    ASSUME NEW s \in Seq(Nat), NEW v \in Seq(Nat), NEW n \in Nat, s \o v = Counted(n)
    PROVE  s \o Append(v, n + 1) = Counted(n + 1)
<1>1. s \o Append(v, n + 1) = Append(s \o v, n + 1)
  OBVIOUS
<1>2. Append(Counted(n), n + 1) = Counted(n + 1)
  BY DEF Counted
<1> QED
  BY <1>1, <1>2

(* What steps do, in the terms of the invariant.  The session: an event     *)
(* comes, it ends, or it fails to and owes another stop.                    *)
SessionGoesOn ==
    /\ ItemsSync'
    /\ \/ sync'.state = sync.state /\ sync'.incomplete = sync.incomplete
       \/ IsStopped' /\ ~sync'.incomplete
       \/ sync'.state = sync.state /\ sync'.incomplete /\ IsRunning
    /\ \/ sync'.events = sync.events /\ sync'.made = sync.made
       \/ sync'.events = Append(sync.events, sync.made + 1) /\ sync'.made = sync.made + 1

(* A start that was awaited at label l returns to its caller.               *)
StartIsOver(l) ==
    /\ task["control"].at = l /\ future.start # "busy" /\ Items!Return("control")
    /\ ItemsFacade' /\ facade'.attempted = facade.attempted /\ facade'.stop = facade.stop
    /\ facade'.polling = facade.polling /\ facade'.pending = facade.pending
    /\ IF future.start = "ok" \/ sync.incomplete
       THEN facade'.complete /\ facade'.closed = facade.closed
       ELSE facade'.closed /\ facade'.complete = facade.complete
    /\ UNCHANGED <<sync, future, stops, received>>

(* A stop that task t awaited returns; if it failed it is forgotten.        *)
StopIsOver(t) ==
    /\ task[t].at = "stopping" \/ task[t].at = "stop settles"
    /\ ItemsTasks' /\ ItemsFacade' /\ ItemGoes(t, "idle", 0)
    /\ facade'.attempted = facade.attempted /\ facade'.complete = facade.complete
    /\ facade'.polling = facade.polling /\ facade'.pending = facade.pending
    /\ facade.closed => facade'.closed
    /\ facade'.closed => facade.closed \/ IsStopped
    /\ \/ /\ facade'.stop = facade.stop
          /\ IsStopped \/ facade.stop = 0 \/ facade.stop # task[t].stop
       \/ facade'.stop = 0 /\ (facade.stop # 0 => stops[facade.stop] # "busy")
    /\ UNCHANGED <<sync, future, stops, received>>

(* A session that ends, or fails to, goes on.                               *)
LEMMA ItemsFinish ==
    ASSUME ItemsSync, sync' \in Items!Finished
    PROVE  SessionGoesOn /\ IsStopped' /\ ~sync'.incomplete
<1>1. PICK n \in 0..(IF sync.made < MaxEvents THEN 1 ELSE 0) :
         sync' = [sync EXCEPT !.state = "stopped", !.incomplete = FALSE, !.made = @ + n,
                              !.events = @ \o [i \in 1..n |-> sync.made + 1]]
  BY DEF Items!Finished
<1> DEFINE last == [i \in 1..n |-> sync.made + 1]
<1>2. sync.events \in Seq(Nat) /\ sync.made \in Nat /\ n \in Nat
  BY DEF ItemsSync
<1>3. \/ n = 0 /\ last = <<>>
      \/ n = 1 /\ last = <<sync.made + 1>>
  BY <1>1
<1>4. sync' = [sync EXCEPT !.state = "stopped", !.incomplete = FALSE, !.made = sync.made + n,
                           !.events = sync.events \o last]
  BY <1>1
<1> HIDE DEF last
<1>5. sync.events \o last \in Seq(Nat) /\ sync.made + n \in Nat
  <2>1. <<>> \in Seq(Nat) /\ <<sync.made + 1>> \in Seq(Nat)
    BY <1>2
  <2>2. last \in Seq(Nat)
    BY <1>3, <2>1
  <2> QED
    BY <1>2, <2>2
<1>6. /\ ItemsSync' /\ IsStopped' /\ ~sync'.incomplete
      /\ sync'.made = sync.made + n /\ sync'.events = sync.events \o last
  BY <1>4, <1>5 DEF ItemsSync, ItemStates, IsStopped
<1>7. \/ sync'.events = sync.events /\ sync'.made = sync.made
      \/ sync'.events = Append(sync.events, sync.made + 1) /\ sync'.made = sync.made + 1
  <2>1. CASE n = 0 /\ last = <<>>
    BY <1>2, <1>6, <2>1
  <2>2. CASE n = 1 /\ last = <<sync.made + 1>>
    BY <1>2, <1>6, <2>2
  <2> QED
    BY <1>3, <2>1, <2>2
<1> QED
  BY <1>6, <1>7 DEF SessionGoesOn

(* A session that could not be stopped is owed another stop.                *)
LEMMA ItemsUnfinished ==
    ASSUME ItemsSync, IsRunning, sync' = Items!Unfinished
    PROVE  SessionGoesOn /\ sync'.state = sync.state /\ sync'.incomplete
BY DEF SessionGoesOn, ItemsSync, IsRunning, Items!Unfinished

(* start is called, once.                                                   *)
LEMMA ItemsStartCall ==
    ASSUME ItemsInv,
           Items!StartCall
    PROVE  ItemsInv'
<1>a. ItemsTasks' /\ ItemGoes("control", "starting", task["control"].stop)
  BY ItemsAt, ItemsSets DEF ItemsInv, Items!StartCall, Items!Goto, ItemLabels
<1>b. /\ ItemsFacade' /\ ItemsFuture' /\ facade'.attempted /\ future'.start = "busy"
      /\ future'.start # None
  BY ItemsSets DEF ItemsInv, ItemsFacade, ItemsFuture, Items!StartCall
<1>c. task["control"].at = "idle" /\ future.start = None /\ IsNew
  BY DEF ItemsInv, ItemsFacade, ItemsAttempted, ItemsNewFirst, Items!StartCall, Items!At
<1>u. /\ sync' = sync /\ future'.poll = future.poll /\ future'.event = future.event
      /\ stops' = stops /\ facade'.complete = facade.complete
      /\ facade'.closed = facade.closed /\ facade'.stop = facade.stop
      /\ facade'.polling = facade.polling /\ facade'.pending = facade.pending
      /\ received' = received
  BY DEF Items!StartCall, ItemsInv, ItemsFacade, ItemsFuture
<1>1. ItemsSync' /\ ItemsStops' /\ ItemsReceived' /\ ItemsOwed' /\ ItemsOver' /\ ItemsLast'
  BY <1>u
  DEF ItemsInv, ItemsSync, ItemsStops, ItemsReceived, ItemsOwed, ItemsOver, ItemsLast,
      IsRunning, IsStopped
<1>2. ItemsOneStop' /\ ItemsPolling' /\ ItemsEvent' /\ ItemsPending' /\ ItemsKept'
  BY <1>u
  DEF ItemsInv, ItemsOneStop, ItemsPolling, ItemsEvent, ItemsPending, ItemsKept
<1>3. ItemsFuture'
  BY <1>u, <1>a, <1>b, <1>c
  DEF ItemsInv, ItemsFuture, ItemGoes, Items!Tasks
<1>4. ItemsFacade'
  BY <1>u, <1>a, <1>b, <1>c
  DEF ItemsInv, ItemsFacade, ItemGoes, Items!Tasks
<1>5. ItemsTasks'
  BY <1>u, <1>a, <1>b, <1>c
  DEF ItemsInv, ItemsTasks, ItemGoes, Items!Tasks
<1>6. ItemsAttempted'
  BY <1>u, <1>a, <1>b, <1>c
  DEF ItemsInv, ItemsAttempted, ItemGoes, Items!Tasks
<1>7. ItemsNewFirst'
  BY <1>u, <1>a, <1>b, <1>c
  DEF ItemsInv, ItemsNewFirst, IsNew, ItemGoes, Items!Tasks
<1>8. ItemsNew'
  BY <1>u, <1>a, <1>b, <1>c
  DEF ItemsInv, ItemsNew, IsNew, ItemGoes, Items!Tasks
<1>9. ItemsFailed'
  BY <1>u, <1>a, <1>b, <1>c
  DEF ItemsInv, ItemsFailed, IsRunning, ItemGoes, Items!Tasks
<1>10. ItemsClosed'
  BY <1>u, <1>a, <1>b, <1>c, ItemsSets
  DEF ItemsInv, ItemsClosed, IsNew, IsStopped, ItemGoes, Items!Tasks
<1>11. ItemsFree'
  BY <1>u, <1>a, <1>b, <1>c
  DEF ItemsInv, ItemsFree, InStart, ItemGoes, Items!Tasks
<1>12. ItemsHolds'
  BY <1>u, <1>a, <1>b, <1>c
  DEF ItemsInv, ItemsHolds, InStop, ItemGoes, Items!Tasks
<1>13. ItemsGivenUp'
  BY ZenonT(60), <1>u, <1>a, <1>b, <1>c
  DEF ItemsInv, ItemsGivenUp, ItemGoes, Items!Tasks
<1>14. ItemsStarting'
  BY <1>u, <1>a, <1>b, <1>c
  DEF ItemsInv, ItemsStarting, InStart, ItemGoes, Items!Tasks
<1>15. ItemsPolls'
  BY <1>u, <1>a, <1>b, <1>c
  DEF ItemsInv, ItemsPolls, InPoll, IsNew, ItemGoes, Items!Tasks
<1>16. ItemsHeld'
  BY <1>u, <1>a, <1>b, <1>c
  DEF ItemsInv, ItemsHeld, IsStopped, ItemGoes, Items!Tasks
<1> QED
  BY <1>1, <1>2, <1>3, <1>4, <1>5, <1>6, <1>7, <1>8, <1>9, <1>10, <1>11, <1>12, <1>13, <1>14,
      <1>15, <1>16 DEF ItemsInv

(* A start that returns, or that no stop follows, leaves the pool open or closes it.*)
LEMMA ItemsStartOver ==
    ASSUME ItemsInv,
           NEW l \in {"starting", "start settles"},
           StartIsOver(l)
    PROVE  ItemsInv'
<1>a. ItemsTasks' /\ ItemsFacade' /\ ItemGoes("control", "idle", 0)
  BY ItemsWith, ItemsSets DEF ItemsInv, StartIsOver, Items!Return, ItemLabels
<1>b. IF future.start = "ok" \/ sync.incomplete
      THEN facade'.complete /\ facade'.closed = facade.closed
      ELSE facade'.closed /\ facade'.complete = facade.complete
  BY DEF StartIsOver
<1>c. task["control"].at = l /\ (future.start = "ok" \/ future.start = "failed")
  BY ItemsSets DEF ItemsInv, ItemsFuture, ItemsStarting, InStart, StartIsOver
<1>d. task["control"].stop = 0
  BY <1>c, ItemsSets DEF ItemsInv, ItemsFree, InStart
<1>u. /\ sync' = sync /\ future' = future /\ stops' = stops
      /\ facade'.attempted = facade.attempted /\ facade'.stop = facade.stop
      /\ facade'.polling = facade.polling /\ facade'.pending = facade.pending
      /\ received' = received
  BY DEF StartIsOver
<1>1. ItemsSync' /\ ItemsFuture' /\ ItemsStops' /\ ItemsReceived' /\ ItemsAttempted'
  BY <1>u
  DEF ItemsInv, ItemsSync, ItemsFuture, ItemsStops, ItemsReceived, ItemsAttempted
<1>2. ItemsNewFirst' /\ ItemsOwed' /\ ItemsFailed' /\ ItemsOver' /\ ItemsLast'
  BY <1>u
  DEF ItemsInv, ItemsNewFirst, ItemsOwed, ItemsFailed, ItemsOver, ItemsLast, IsNew, IsRunning,
      IsStopped
<1>3. ItemsOneStop' /\ ItemsPolling' /\ ItemsEvent' /\ ItemsPending' /\ ItemsKept'
  BY <1>u
  DEF ItemsInv, ItemsOneStop, ItemsPolling, ItemsEvent, ItemsPending, ItemsKept
<1>4. ItemsFacade'
  BY <1>u, <1>a, <1>b, <1>c, <1>d
  DEF ItemsInv, ItemsFacade, ItemGoes, Items!Tasks
<1>5. ItemsTasks'
  BY <1>u, <1>a, <1>b, <1>c, <1>d
  DEF ItemsInv, ItemsTasks, ItemGoes, Items!Tasks
<1>6. ItemsNew'
  BY <1>u, <1>a, <1>b, <1>c, <1>d
  DEF ItemsInv, ItemsNew, ItemsOwed, IsRunning, IsNew, ItemGoes, Items!Tasks
<1>7. ItemsClosed'
  BY <1>u, <1>a, <1>b, <1>c, <1>d
  DEF ItemsInv, ItemsClosed, ItemsFailed, ItemsSync, ItemStates, IsRunning, IsStopped, IsNew,
      ItemGoes, Items!Tasks
<1>8. ItemsFree'
  BY <1>u, <1>a, <1>b, <1>c, <1>d
  DEF ItemsInv, ItemsFree, InStart, ItemGoes, Items!Tasks
<1>9. ItemsHolds'
  BY <1>u, <1>a, <1>b, <1>c, <1>d
  DEF ItemsInv, ItemsHolds, InStop, ItemGoes, Items!Tasks
<1>10. ItemsGivenUp'
  BY ZenonT(60), <1>u, <1>a, <1>b, <1>c, <1>d
  DEF ItemsInv, ItemsGivenUp, ItemGoes, Items!Tasks
<1>11. ItemsStarting'
  BY <1>u, <1>a, <1>b, <1>c, <1>d
  DEF ItemsInv, ItemsStarting, InStart, ItemGoes, Items!Tasks
<1>12. ItemsPolls'
  BY <1>u, <1>a, <1>b, <1>c, <1>d
  DEF ItemsInv, ItemsPolls, InPoll, IsNew, ItemGoes, Items!Tasks
<1>13. ItemsHeld'
  BY <1>u, <1>a, <1>b, <1>c, <1>d, ItemsSets
  DEF ItemsInv, ItemsHeld, IsStopped, ItemGoes, Items!Tasks
<1> QED
  BY <1>1, <1>2, <1>3, <1>4, <1>5, <1>6, <1>7, <1>8, <1>9, <1>10, <1>11, <1>12, <1>13 DEF
      ItemsInv

(* A start is cancelled.                                                    *)
LEMMA ItemsStartCancelled ==
    ASSUME ItemsInv,
           Items!StartCancelled
    PROVE  ItemsInv'
<1>a. ItemsTasks' /\ ItemGoes("control", "start settles", task["control"].stop)
  BY ItemsAt, ItemsSets DEF ItemsInv, Items!StartCancelled, Items!Cancel, Items!Goto, ItemLabels
<1>b. task["control"].at = "starting"
  BY DEF Items!StartCancelled, Items!At
<1>u. /\ sync' = sync /\ future' = future /\ stops' = stops /\ facade' = facade
      /\ received' = received
  BY DEF Items!StartCancelled
<1>1. ItemsSync' /\ ItemsFuture' /\ ItemsStops' /\ ItemsFacade' /\ ItemsReceived' /\
      ItemsAttempted'
  BY <1>u
  DEF ItemsInv, ItemsSync, ItemsFuture, ItemsStops, ItemsFacade, ItemsReceived, ItemsAttempted
<1>2. ItemsNewFirst' /\ ItemsNew' /\ ItemsOwed' /\ ItemsFailed' /\ ItemsClosed' /\ ItemsOver'
  BY <1>u
  DEF ItemsInv, ItemsNewFirst, ItemsNew, ItemsOwed, ItemsFailed, ItemsClosed, ItemsOver, IsNew,
      IsRunning, IsStopped
<1>3. ItemsLast' /\ ItemsOneStop' /\ ItemsPolling' /\ ItemsEvent' /\ ItemsPending' /\ ItemsKept'
  BY <1>u
  DEF ItemsInv, ItemsLast, ItemsOneStop, ItemsPolling, ItemsEvent, ItemsPending, ItemsKept
<1>4. ItemsTasks'
  BY <1>u, <1>a, <1>b
  DEF ItemsInv, ItemsTasks, ItemGoes, Items!Tasks
<1>5. ItemsFree'
  BY <1>u, <1>a, <1>b
  DEF ItemsInv, ItemsFree, InStart, ItemGoes, Items!Tasks
<1>6. ItemsHolds'
  BY <1>u, <1>a, <1>b
  DEF ItemsInv, ItemsHolds, InStop, ItemGoes, Items!Tasks
<1>7. ItemsGivenUp'
  BY <1>u, <1>a, <1>b
  DEF ItemsInv, ItemsGivenUp, ItemGoes, Items!Tasks
<1>8. ItemsStarting'
  BY <1>u, <1>a, <1>b
  DEF ItemsInv, ItemsStarting, InStart, ItemGoes, Items!Tasks
<1>9. ItemsPolls'
  BY <1>u, <1>a, <1>b
  DEF ItemsInv, ItemsPolls, InPoll, IsNew, ItemGoes, Items!Tasks
<1>10. ItemsHeld'
  BY <1>u, <1>a, <1>b
  DEF ItemsInv, ItemsHeld, IsStopped, ItemGoes, Items!Tasks
<1> QED
  BY <1>1, <1>2, <1>3, <1>4, <1>5, <1>6, <1>7, <1>8, <1>9, <1>10 DEF ItemsInv

(* A cancelled start that succeeds is stopped again.                        *)
LEMMA ItemsStartUndone ==
    ASSUME ItemsInv,
           Items!StartSettles,
           future.start = "ok" \/ sync.incomplete,
           Items!EnsureStop([facade EXCEPT !.complete = TRUE], "control", "stop settles")
    PROVE  ItemsInv'
<1> DEFINE f == [facade EXCEPT !.complete = TRUE]
<1>f. /\ f \in FacadeRecords /\ f.stop = facade.stop /\ f.closed = facade.closed /\ f.complete
      /\ f.attempted = facade.attempted /\ f.polling = facade.polling /\ f.pending = facade.pending
  BY DEF ItemsInv, ItemsFacade, FacadeRecords
<1>a. /\ ItemsStops' /\ ItemsTasks' /\ ItemsFacade' /\ ItemEnsures("control", "stop settles")
      /\ facade'.attempted = facade.attempted /\ facade'.complete
      /\ facade'.closed = facade.closed /\ facade'.polling = facade.polling
      /\ facade'.pending = facade.pending
  <2> HIDE DEF f
  <2>1. Items!EnsureStop(f, "control", "stop settles")
    BY DEF f
  <2> QED
    BY <1>f, <2>1, ItemsEnsure, ItemsSets DEF ItemsInv, ItemLabels
<1>b. task["control"].at = "start settles" /\ (future.start = "ok" \/ sync.incomplete)
  BY DEF Items!StartSettles, Items!At
<1>c. task["control"].stop = 0 /\ future.start # "busy" /\ ~IsNew
  BY <1>b, ItemsSets DEF ItemsInv, ItemsFree, InStart, ItemsOwed, IsRunning, ItemsNew, IsNew,
     Items!StartSettles
<1>d. \A k \in DOMAIN stops : k # 0
  BY ItemsIndex DEF ItemsInv
<1>e. /\ ItemGoes("control", "stop settles", facade'.stop) /\ facade'.stop \in DOMAIN stops'
      /\ \A j \in DOMAIN stops : j \in DOMAIN stops' /\ stops'[j] = stops[j]
      /\ \A j \in DOMAIN stops' : j \in DOMAIN stops \/ stops'[j] = "busy"
  BY <1>a DEF ItemsInv, ItemsLast, ItemEnsures, StopBegins
<1>u. /\ sync' = sync /\ future' = future /\ facade'.attempted = facade.attempted
      /\ facade'.closed = facade.closed /\ facade'.polling = facade.polling
      /\ facade'.pending = facade.pending /\ received' = received
  BY <1>a
  DEF Items!StartSettles
<1>1. ItemsSync' /\ ItemsFuture' /\ ItemsReceived' /\ ItemsAttempted' /\ ItemsNewFirst' /\
      ItemsOwed'
  BY <1>u
  DEF ItemsInv, ItemsSync, ItemsFuture, ItemsReceived, ItemsAttempted, ItemsNewFirst, ItemsOwed,
      IsNew, IsRunning
<1>2. ItemsFailed' /\ ItemsClosed' /\ ItemsPolling' /\ ItemsEvent' /\ ItemsPending' /\
      ItemsKept'
  BY <1>u
  DEF ItemsInv, ItemsFailed, ItemsClosed, ItemsPolling, ItemsEvent, ItemsPending, ItemsKept,
      IsRunning, IsStopped, IsNew
<1>3. ItemsStops'
  BY <1>u, <1>a, <1>b, <1>c, <1>d
  DEF ItemsInv, ItemsStops, ItemGoes, Items!Tasks, ItemEnsures, StopBegins
<1>4. ItemsFacade'
  BY <1>u, <1>a, <1>b, <1>c, <1>d
  DEF ItemsInv, ItemsFacade, ItemGoes, Items!Tasks, ItemEnsures, StopBegins
<1>5. ItemsTasks'
  BY <1>u, <1>a, <1>b, <1>c, <1>d
  DEF ItemsInv, ItemsTasks, ItemGoes, Items!Tasks, ItemEnsures, StopBegins
<1>6. ItemsNew'
  BY <1>u, <1>a, <1>b, <1>c, <1>d
  DEF ItemsInv, ItemsNew, IsNew, ItemGoes, Items!Tasks, ItemEnsures, StopBegins
<1>7. ItemsFree'
  <2> SUFFICES ASSUME NEW u \in Items!Tasks,
                      task'[u].at = "idle" \/ task'[u].at = "polling" \/ InStart(u)'
               PROVE  task'[u].stop = 0
    BY DEF ItemsFree
  <2>1. u # "control"
    BY <1>e DEF ItemGoes, InStart
  <2>2. task'[u] = task[u]
    BY <1>e, <2>1 DEF ItemGoes
  <2> QED
    BY <2>2 DEF ItemsInv, ItemsFree, InStart
<1>8. ItemsHolds'
  <2> SUFFICES ASSUME NEW u \in Items!Tasks, InStop(u)' PROVE task'[u].stop \in DOMAIN stops'
    BY DEF ItemsHolds
  <2>1. CASE u = "control"
    BY <1>e, <2>1 DEF ItemGoes
  <2>2. CASE u # "control"
    <3>1. task'[u] = task[u]
      BY <1>e, <2>2 DEF ItemGoes
    <3>2. InStop(u)
      BY <3>1 DEF InStop
    <3>3. task[u].stop \in DOMAIN stops
      BY <3>2 DEF ItemsInv, ItemsHolds
    <3> QED
      BY <1>e, <3>1, <3>3
  <2> QED
    BY <2>1, <2>2
<1>9. ItemsGivenUp'
  <2> SUFFICES ASSUME NEW u \in Items!Tasks, task'[u].at = "poll settles"
               PROVE  \/ task'[u].stop = 0 /\ facade'.closed
                      \/ task'[u].stop \in DOMAIN stops' /\ stops'[task'[u].stop] # "busy"
    BY DEF ItemsGivenUp
  <2>1. task'[u] = task[u]
    BY <1>e DEF ItemGoes
  <2>2. \/ task[u].stop = 0 /\ facade.closed
        \/ task[u].stop \in DOMAIN stops /\ stops[task[u].stop] # "busy"
    BY <2>1 DEF ItemsInv, ItemsGivenUp
  <2> QED
    BY <1>u, <1>a, <1>e, <2>1, <2>2
<1>10. ItemsStarting'
  BY <1>u, <1>a, <1>b, <1>c, <1>d
  DEF ItemsInv, ItemsStarting, InStart, ItemGoes, Items!Tasks, ItemEnsures, StopBegins
<1>11. ItemsPolls'
  BY ZenonT(60), <1>u, <1>a, <1>b, <1>c, <1>d
  DEF ItemsInv, ItemsPolls, InPoll, IsNew, ItemGoes, Items!Tasks, ItemEnsures, StopBegins
<1>12. ItemsOver'
  <2> SUFFICES ASSUME NEW j \in DOMAIN stops'
               PROVE  /\ stops'[j] = "ok" => IsStopped'
                      /\ stops'[j] = "failed" => IsStopped' \/ sync'.incomplete
    BY DEF ItemsOver
  <2>1. CASE j \in DOMAIN stops
    BY <1>u, <1>e, <2>1 DEF ItemsInv, ItemsOver, IsStopped
  <2>2. CASE stops'[j] = "busy"
    BY <2>2
  <2> QED
    BY <1>e, <2>1, <2>2
<1>13. ItemsLast'
  BY <1>u, <1>a, <1>b, <1>c, <1>d
  DEF ItemsInv, ItemsLast, ItemGoes, Items!Tasks, ItemEnsures, StopBegins
<1>14. ItemsHeld'
  BY <1>u, <1>a, <1>b, <1>c, <1>d
  DEF ItemsInv, ItemsHeld, IsStopped, ItemGoes, Items!Tasks, ItemEnsures, StopBegins
<1>15. ItemsOneStop'
  BY <1>u, <1>a, <1>b, <1>c, <1>d
  DEF ItemsInv, ItemsOneStop, ItemGoes, Items!Tasks, ItemEnsures, StopBegins
<1> QED
  BY <1>1, <1>2, <1>3, <1>4, <1>5, <1>6, <1>7, <1>8, <1>9, <1>10, <1>11, <1>12, <1>13, <1>14,
      <1>15 DEF ItemsInv

(* A stop, or a cancelled poll, joins the stop there is or begins one.      *)
LEMMA ItemsStopJoins ==
    ASSUME ItemsInv,
           NEW t \in Items!Tasks,
           ItemsStops' /\ ItemsTasks' /\ ItemsFacade',
           NEW l \in {"stopping", "poll stops"},
           ItemEnsures(t, l),
           l = "stopping" => task[t].at = "idle" /\ facade.complete,
           l = "poll stops" => task[t].at = "polling",
           facade'.attempted = facade.attempted /\ facade'.complete = facade.complete,
           facade'.closed = facade.closed /\ facade'.polling = facade.polling,
           facade'.pending = facade.pending /\ UNCHANGED <<sync, future, received>>
    PROVE  ItemsInv'
<1>a. ~IsNew /\ task[t].stop = 0
  BY DEF ItemsInv, ItemsNew, ItemsPolls, InPoll, ItemsFree, InStart
<1>b. \A k \in DOMAIN stops : k # 0
  BY ItemsIndex DEF ItemsInv
<1>c. (l = "stopping" /\ task[t].at = "idle") \/ (l = "poll stops" /\ task[t].at = "polling")
  OBVIOUS
<1>e. /\ ItemGoes(t, l, facade'.stop) /\ facade'.stop \in DOMAIN stops'
      /\ \A j \in DOMAIN stops : j \in DOMAIN stops' /\ stops'[j] = stops[j]
      /\ \A j \in DOMAIN stops' : j \in DOMAIN stops \/ stops'[j] = "busy"
  BY DEF ItemsInv, ItemsLast, ItemEnsures, StopBegins
<1>u. /\ sync' = sync /\ future' = future /\ facade'.attempted = facade.attempted
      /\ facade'.complete = facade.complete /\ facade'.closed = facade.closed
      /\ facade'.polling = facade.polling /\ facade'.pending = facade.pending
      /\ received' = received
  OBVIOUS
<1>1. ItemsSync' /\ ItemsFuture' /\ ItemsReceived' /\ ItemsAttempted' /\ ItemsNewFirst' /\
      ItemsOwed'
  BY <1>u
  DEF ItemsInv, ItemsSync, ItemsFuture, ItemsReceived, ItemsAttempted, ItemsNewFirst, ItemsOwed,
      IsNew, IsRunning
<1>2. ItemsFailed' /\ ItemsClosed' /\ ItemsPolling' /\ ItemsEvent' /\ ItemsPending' /\
      ItemsKept'
  BY <1>u
  DEF ItemsInv, ItemsFailed, ItemsClosed, ItemsPolling, ItemsEvent, ItemsPending, ItemsKept,
      IsRunning, IsStopped, IsNew
<1>3. ItemsStops'
  BY <1>u, <1>a, <1>b, <1>c
  DEF ItemsInv, ItemsStops, ItemGoes, Items!Tasks, ItemEnsures, StopBegins
<1>4. ItemsFacade'
  BY <1>u, <1>a, <1>b, <1>c
  DEF ItemsInv, ItemsFacade, ItemGoes, Items!Tasks, ItemEnsures, StopBegins
<1>5. ItemsTasks'
  BY <1>u, <1>a, <1>b, <1>c
  DEF ItemsInv, ItemsTasks, ItemGoes, Items!Tasks, ItemEnsures, StopBegins
<1>6. ItemsNew'
  BY <1>u, <1>a, <1>b, <1>c
  DEF ItemsInv, ItemsNew, IsNew, ItemGoes, Items!Tasks, ItemEnsures, StopBegins
<1>7. ItemsFree'
  BY ZenonT(60), <1>u, <1>a, <1>b, <1>c
  DEF ItemsInv, ItemsFree, InStart, ItemGoes, Items!Tasks, ItemEnsures, StopBegins
<1>8. ItemsHolds'
  <2> SUFFICES ASSUME NEW u \in Items!Tasks, InStop(u)' PROVE task'[u].stop \in DOMAIN stops'
    BY DEF ItemsHolds
  <2>1. CASE u = t
    BY <1>e, <2>1 DEF ItemGoes
  <2>2. CASE u # t
    <3>1. task'[u] = task[u]
      BY <1>e, <2>2 DEF ItemGoes
    <3>2. InStop(u)
      BY <3>1 DEF InStop
    <3>3. task[u].stop \in DOMAIN stops
      BY <3>2 DEF ItemsInv, ItemsHolds
    <3> QED
      BY <1>e, <3>1, <3>3
  <2> QED
    BY <2>1, <2>2
<1>9. ItemsGivenUp'
  <2> SUFFICES ASSUME NEW u \in Items!Tasks, task'[u].at = "poll settles"
               PROVE  \/ task'[u].stop = 0 /\ facade'.closed
                      \/ task'[u].stop \in DOMAIN stops' /\ stops'[task'[u].stop] # "busy"
    BY DEF ItemsGivenUp
  <2>1. task'[u] = task[u]
    BY <1>e DEF ItemGoes
  <2>2. \/ task[u].stop = 0 /\ facade.closed
        \/ task[u].stop \in DOMAIN stops /\ stops[task[u].stop] # "busy"
    BY <2>1 DEF ItemsInv, ItemsGivenUp
  <2> QED
    BY <1>u, <1>a, <1>e, <2>1, <2>2
<1>10. ItemsStarting'
  BY <1>u, <1>a, <1>b, <1>c
  DEF ItemsInv, ItemsStarting, InStart, ItemGoes, Items!Tasks, ItemEnsures, StopBegins
<1>11. ItemsPolls'
  <2> SUFFICES ASSUME NEW u \in Items!Tasks, InPoll(u)'
               PROVE  /\ facade'.polling /\ ~IsNew'
                      /\ \A v \in Items!Tasks : InPoll(v)' => v = u
    BY DEF ItemsPolls
  <2>1. \A v \in Items!Tasks : InPoll(v)' => InPoll(v)
    BY <1>c, <1>e DEF ItemGoes, InPoll
  <2> QED
    BY <1>u, <2>1 DEF ItemsInv, ItemsPolls, IsNew
<1>12. ItemsOver'
  <2> SUFFICES ASSUME NEW j \in DOMAIN stops'
               PROVE  /\ stops'[j] = "ok" => IsStopped'
                      /\ stops'[j] = "failed" => IsStopped' \/ sync'.incomplete
    BY DEF ItemsOver
  <2>1. CASE j \in DOMAIN stops
    BY <1>u, <1>e, <2>1 DEF ItemsInv, ItemsOver, IsStopped
  <2>2. CASE stops'[j] = "busy"
    BY <2>2
  <2> QED
    BY <1>e, <2>1, <2>2
<1>13. ItemsLast'
  BY <1>u, <1>a, <1>b, <1>c
  DEF ItemsInv, ItemsLast, ItemGoes, Items!Tasks, ItemEnsures, StopBegins
<1>14. ItemsHeld'
  BY <1>u, <1>a, <1>b, <1>c, ItemsSets
  DEF ItemsInv, ItemsHeld, IsStopped, ItemGoes, Items!Tasks, ItemEnsures, StopBegins
<1>15. ItemsOneStop'
  BY <1>u, <1>a, <1>b, <1>c
  DEF ItemsInv, ItemsOneStop, ItemGoes, Items!Tasks, ItemEnsures, StopBegins
<1> QED
  BY <1>1, <1>2, <1>3, <1>4, <1>5, <1>6, <1>7, <1>8, <1>9, <1>10, <1>11, <1>12, <1>13, <1>14,
      <1>15 DEF ItemsInv

(* A stop has settled; the pool is closed, or the stop is forgotten.        *)
LEMMA ItemsStopsOver ==
    ASSUME ItemsInv,
           NEW t \in Items!Tasks,
           StopIsOver(t)
    PROVE  ItemsInv'
<1>a. ItemsTasks' /\ ItemsFacade' /\ ItemGoes(t, "idle", 0)
  BY DEF StopIsOver
<1>b. /\ facade.closed => facade'.closed
      /\ facade'.closed => facade.closed \/ IsStopped
  BY DEF StopIsOver
<1>c. \/ facade'.stop = facade.stop /\ (IsStopped \/ facade.stop = 0 \/ facade.stop # task[t].stop)
      \/ facade'.stop = 0 /\ (facade.stop # 0 => stops[facade.stop] # "busy")
  BY DEF StopIsOver
<1>u. /\ sync' = sync /\ future' = future /\ stops' = stops
      /\ facade'.attempted = facade.attempted /\ facade'.complete = facade.complete
      /\ facade'.polling = facade.polling /\ facade'.pending = facade.pending
      /\ received' = received
  BY DEF StopIsOver
<1>1. ItemsSync' /\ ItemsFuture' /\ ItemsStops' /\ ItemsReceived' /\ ItemsAttempted'
  BY <1>u
  DEF ItemsInv, ItemsSync, ItemsFuture, ItemsStops, ItemsReceived, ItemsAttempted
<1>2. ItemsNewFirst' /\ ItemsNew' /\ ItemsOwed' /\ ItemsFailed' /\ ItemsOver'
  BY <1>u
  DEF ItemsInv, ItemsNewFirst, ItemsNew, ItemsOwed, ItemsFailed, ItemsOver, IsNew, IsRunning,
      IsStopped
<1>3. ItemsPolling' /\ ItemsEvent' /\ ItemsPending' /\ ItemsKept'
  BY <1>u
  DEF ItemsInv, ItemsPolling, ItemsEvent, ItemsPending, ItemsKept
<1>4. ItemsFacade'
  BY <1>u, <1>a, <1>b, <1>c
  DEF ItemsInv, ItemsFacade, ItemGoes, Items!Tasks
<1>5. ItemsTasks'
  BY <1>u, <1>a, <1>b, <1>c
  DEF ItemsInv, ItemsTasks, ItemGoes, Items!Tasks
<1>6. ItemsClosed'
  BY <1>u, <1>a, <1>b, <1>c
  DEF ItemsInv, ItemsClosed, IsStopped, IsNew, ItemGoes, Items!Tasks
<1>7. ItemsFree'
  BY <1>u, <1>a, <1>b, <1>c
  DEF ItemsInv, ItemsFree, InStart, ItemGoes, Items!Tasks
<1>8. ItemsHolds'
  BY <1>u, <1>a, <1>b, <1>c
  DEF ItemsInv, ItemsHolds, InStop, ItemGoes, Items!Tasks
<1>9. ItemsGivenUp'
  BY ZenonT(60), <1>u, <1>a, <1>b, <1>c
  DEF ItemsInv, ItemsGivenUp, ItemGoes, Items!Tasks
<1>10. ItemsStarting'
  BY <1>u, <1>a, <1>b, <1>c
  DEF ItemsInv, ItemsStarting, InStart, ItemGoes, Items!Tasks
<1>11. ItemsPolls'
  BY <1>u, <1>a, <1>b, <1>c, ItemsSets
  DEF ItemsInv, ItemsPolls, InPoll, IsNew, ItemGoes, Items!Tasks
<1>12. ItemsLast'
  BY <1>u, <1>a, <1>b, <1>c
  DEF ItemsInv, ItemsLast, ItemGoes, Items!Tasks
<1>13. ItemsHeld'
  BY <1>u, <1>a, <1>b, <1>c, ItemsSets
  DEF ItemsInv, ItemsHeld, IsStopped, ItemGoes, Items!Tasks
<1>14. ItemsOneStop'
  BY <1>u, <1>a, <1>b, <1>c
  DEF ItemsInv, ItemsOneStop, ItemGoes, Items!Tasks
<1> QED
  BY <1>1, <1>2, <1>3, <1>4, <1>5, <1>6, <1>7, <1>8, <1>9, <1>10, <1>11, <1>12, <1>13, <1>14 DEF
      ItemsInv

(* A call of stop is cancelled.                                             *)
LEMMA ItemsStopCancelled ==
    ASSUME ItemsInv,
           NEW t \in Items!Tasks,
           Items!StopCancelled(t)
    PROVE  ItemsInv'
<1>a. ItemsTasks' /\ ItemGoes(t, "stop settles", task[t].stop)
  BY ItemsAt DEF ItemsInv, Items!StopCancelled, Items!Cancel, Items!Goto, ItemLabels
<1>b. task[t].at = "stopping"
  BY DEF Items!StopCancelled, Items!At
<1>u. /\ sync' = sync /\ future' = future /\ stops' = stops /\ facade' = facade
      /\ received' = received
  BY DEF Items!StopCancelled
<1>1. ItemsSync' /\ ItemsFuture' /\ ItemsStops' /\ ItemsFacade' /\ ItemsReceived' /\
      ItemsAttempted'
  BY <1>u
  DEF ItemsInv, ItemsSync, ItemsFuture, ItemsStops, ItemsFacade, ItemsReceived, ItemsAttempted
<1>2. ItemsNewFirst' /\ ItemsNew' /\ ItemsOwed' /\ ItemsFailed' /\ ItemsClosed' /\ ItemsOver'
  BY <1>u
  DEF ItemsInv, ItemsNewFirst, ItemsNew, ItemsOwed, ItemsFailed, ItemsClosed, ItemsOver, IsNew,
      IsRunning, IsStopped
<1>3. ItemsLast' /\ ItemsOneStop' /\ ItemsPolling' /\ ItemsEvent' /\ ItemsPending' /\ ItemsKept'
  BY <1>u
  DEF ItemsInv, ItemsLast, ItemsOneStop, ItemsPolling, ItemsEvent, ItemsPending, ItemsKept
<1>4. ItemsTasks'
  BY <1>u, <1>a, <1>b
  DEF ItemsInv, ItemsTasks, ItemGoes, Items!Tasks
<1>5. ItemsFree'
  BY <1>u, <1>a, <1>b
  DEF ItemsInv, ItemsFree, InStart, ItemGoes, Items!Tasks
<1>6. ItemsHolds'
  BY <1>u, <1>a, <1>b
  DEF ItemsInv, ItemsHolds, InStop, ItemGoes, Items!Tasks
<1>7. ItemsGivenUp'
  BY <1>u, <1>a, <1>b
  DEF ItemsInv, ItemsGivenUp, ItemGoes, Items!Tasks
<1>8. ItemsStarting'
  BY <1>u, <1>a, <1>b
  DEF ItemsInv, ItemsStarting, InStart, ItemGoes, Items!Tasks
<1>9. ItemsPolls'
  BY <1>u, <1>a, <1>b, ItemsSets
  DEF ItemsInv, ItemsPolls, InPoll, IsNew, ItemGoes, Items!Tasks
<1>10. ItemsHeld'
  BY <1>u, <1>a, <1>b, ItemsSets
  DEF ItemsInv, ItemsHeld, IsStopped, ItemGoes, Items!Tasks
<1> QED
  BY <1>1, <1>2, <1>3, <1>4, <1>5, <1>6, <1>7, <1>8, <1>9, <1>10 DEF ItemsInv

(* poll returns the event that a cancelled one left.                        *)
LEMMA ItemsPollPending ==
    ASSUME ItemsInv,
           NEW b \in BOOLEAN,
           b => IsStopped,
           facade.pending # <<>>,
           received' = Append(received, Head(facade.pending)),
           facade' = [Items!Close(facade, b) EXCEPT !.pending = Tail(@)],
           UNCHANGED <<sync, future, stops, task>>
    PROVE  ItemsInv'
<1>t. /\ received \in Seq(Nat) /\ facade.pending \in Seq(Nat) /\ Len(facade.pending) = 1
      /\ ~facade.polling
  BY DEF ItemsInv, ItemsReceived, ItemsFacade, ItemsPending
<1>h. /\ Tail(facade.pending) \in Seq(Nat) /\ Len(Tail(facade.pending)) = 0
      /\ Append(received, Head(facade.pending)) \in Seq(Nat)
      /\ Append(received, Head(facade.pending)) \o Tail(facade.pending)
            = received \o facade.pending
      /\ Tail(facade.pending) = <<>>
  <2>1. /\ Tail(facade.pending) \in Seq(Nat) /\ Len(Tail(facade.pending)) = Len(facade.pending) - 1
        /\ Append(received, Head(facade.pending)) \in Seq(Nat)
        /\ Append(received, Head(facade.pending)) \o Tail(facade.pending)
              = received \o facade.pending
    BY <1>t, TakeFirst
  <2>2. Len(Tail(facade.pending)) = 0
    BY <1>t, <2>1
  <2>3. Tail(facade.pending) = <<>>
    BY <2>1, <2>2, EmptySeq
  <2> QED
    BY <2>1, <2>2, <2>3
<1>a. /\ ItemsFacade' /\ facade'.attempted = facade.attempted /\ facade'.complete = facade.complete
      /\ facade'.stop = facade.stop /\ facade'.polling = facade.polling
      /\ facade'.closed = (facade.closed \/ b) /\ facade'.pending = Tail(facade.pending)
      /\ UNCHANGED <<sync, future, stops, task>>
  BY <1>h DEF ItemsInv, ItemsFacade, Items!Close
<1>b. facade'.pending = <<>> /\ received' \in Seq(Nat)
      /\ received' \o facade'.pending = received \o facade.pending
  BY <1>a, <1>h
<1>u. /\ sync' = sync /\ future' = future /\ stops' = stops
      /\ facade'.attempted = facade.attempted /\ facade'.complete = facade.complete
      /\ facade'.stop = facade.stop /\ facade'.polling = facade.polling /\ task' = task
  BY <1>a
<1>1. ItemsSync' /\ ItemsFuture' /\ ItemsStops' /\ ItemsTasks' /\ ItemsAttempted'
  BY <1>u
  DEF ItemsInv, ItemsSync, ItemsFuture, ItemsStops, ItemsTasks, ItemsAttempted
<1>2. ItemsNewFirst' /\ ItemsNew' /\ ItemsOwed' /\ ItemsFailed' /\ ItemsFree'
  BY <1>u
  DEF ItemsInv, ItemsNewFirst, ItemsNew, ItemsOwed, ItemsFailed, ItemsFree, IsNew, IsRunning,
      InStart
<1>3. ItemsHolds' /\ ItemsStarting' /\ ItemsPolls' /\ ItemsOver' /\ ItemsLast'
  BY <1>u
  DEF ItemsInv, ItemsHolds, ItemsStarting, ItemsPolls, ItemsOver, ItemsLast, InStop, InStart,
      InPoll, IsNew, IsStopped
<1>4. ItemsHeld' /\ ItemsOneStop' /\ ItemsPolling' /\ ItemsEvent'
  BY <1>u
  DEF ItemsInv, ItemsHeld, ItemsOneStop, ItemsPolling, ItemsEvent, IsStopped
<1>5. ItemsFacade'
  BY <1>u, <1>a, <1>b
  DEF ItemsInv, ItemsFacade
<1>6. ItemsReceived'
  BY <1>u, <1>a, <1>b
  DEF ItemsInv, ItemsReceived
<1>7. ItemsClosed'
  BY <1>u, <1>a, <1>b
  DEF ItemsInv, ItemsClosed, IsStopped, IsNew
<1>8. ItemsGivenUp'
  BY <1>u, <1>a, <1>b
  DEF ItemsInv, ItemsGivenUp
<1>9. ItemsPending'
  BY <1>u, <1>a, <1>b
  DEF ItemsInv, ItemsPending
<1>10. ItemsKept'
  <2>1. ((received \o facade.pending) \o future.event) \o sync.events = Counted(sync.made)
    BY DEF ItemsInv, ItemsKept

  <2> QED
    BY <1>a, <1>b, <2>1 DEF ItemsKept
<1> QED
  BY <1>1, <1>2, <1>3, <1>4, <1>5, <1>6, <1>7, <1>8, <1>9, <1>10 DEF ItemsInv

(* poll of a stopped session returns what is left.                          *)
LEMMA ItemsPollStopped ==
    ASSUME ItemsInv,
           NEW b \in BOOLEAN,
           b => IsStopped,
           facade.pending = <<>>,
           ~facade.polling,
           IsStopped,
           facade' = Items!Close(facade, b),
           IF sync.events = <<>> THEN UNCHANGED <<sync, received>>
             ELSE /\ received' = Append(received, Head(sync.events))
                  /\ sync' = [sync EXCEPT !.events = Tail(@)],
           UNCHANGED <<future, stops, task>>
    PROVE  ItemsInv'
<1>t. /\ received \in Seq(Nat) /\ sync.events \in Seq(Nat) /\ future.event = <<>>
      /\ facade \in FacadeRecords
  BY ItemsSets DEF ItemsInv, ItemsReceived, ItemsSync, ItemsPolling, ItemsEvent, ItemsFacade,
     FacadeRecords
<1>h. sync.events # <<>> =>
         /\ Tail(sync.events) \in Seq(Nat) /\ Append(received, Head(sync.events)) \in Seq(Nat)
         /\ Append(received, Head(sync.events)) \o Tail(sync.events) = received \o sync.events
  BY <1>t, TakeFirst
<1>a. /\ ItemsFacade' /\ facade'.attempted = facade.attempted /\ facade'.complete = facade.complete
      /\ facade'.stop = facade.stop /\ facade'.polling = facade.polling
      /\ facade'.closed = (facade.closed \/ b) /\ facade'.pending = facade.pending
      /\ UNCHANGED <<future, stops, task>>
      /\ sync'.state = sync.state /\ sync'.incomplete = sync.incomplete /\ sync'.made = sync.made
  BY <1>t, ItemsClose DEF ItemsInv, ItemsSync
<1>b. /\ received' \in Seq(Nat) /\ sync'.events \in Seq(Nat) /\ ItemsSync'
      /\ received' \o sync'.events = received \o sync.events
  BY <1>t, <1>h DEF ItemsInv, ItemsSync
<1>u. /\ sync'.state = sync.state /\ sync'.incomplete = sync.incomplete
      /\ sync'.made = sync.made /\ future' = future /\ stops' = stops
      /\ facade'.attempted = facade.attempted /\ facade'.complete = facade.complete
      /\ facade'.stop = facade.stop /\ facade'.polling = facade.polling
      /\ facade'.pending = facade.pending /\ task' = task
  BY <1>a
<1>1. ItemsFuture' /\ ItemsStops' /\ ItemsTasks' /\ ItemsAttempted' /\ ItemsNewFirst'
  BY <1>u
  DEF ItemsInv, ItemsFuture, ItemsStops, ItemsTasks, ItemsAttempted, ItemsNewFirst, IsNew
<1>2. ItemsNew' /\ ItemsOwed' /\ ItemsFailed' /\ ItemsFree' /\ ItemsHolds'
  BY <1>u
  DEF ItemsInv, ItemsNew, ItemsOwed, ItemsFailed, ItemsFree, ItemsHolds, IsNew, IsRunning,
      InStart, InStop
<1>3. ItemsStarting' /\ ItemsPolls' /\ ItemsOver' /\ ItemsLast' /\ ItemsHeld'
  BY <1>u
  DEF ItemsInv, ItemsStarting, ItemsPolls, ItemsOver, ItemsLast, ItemsHeld, InStart, InPoll,
      IsNew, IsStopped
<1>4. ItemsOneStop' /\ ItemsPolling' /\ ItemsEvent' /\ ItemsPending'
  BY <1>u
  DEF ItemsInv, ItemsOneStop, ItemsPolling, ItemsEvent, ItemsPending
<1>5. ItemsSync'
  BY <1>u, <1>a, <1>b
  DEF ItemsInv, ItemsSync
<1>6. ItemsFacade'
  BY <1>u, <1>a, <1>b
  DEF ItemsInv, ItemsFacade
<1>7. ItemsReceived'
  BY <1>u, <1>a, <1>b
  DEF ItemsInv, ItemsReceived
<1>8. ItemsClosed'
  BY <1>u, <1>a, <1>b
  DEF ItemsInv, ItemsClosed, IsStopped, IsNew
<1>9. ItemsGivenUp'
  BY <1>u, <1>a, <1>b
  DEF ItemsInv, ItemsGivenUp
<1>10. ItemsKept'
  <2>1. ((received \o facade.pending) \o future.event) \o sync.events = Counted(sync.made)
    BY DEF ItemsInv, ItemsKept

  <2>2. facade.pending = <<>> /\ future.event = <<>>
    BY <1>t
  <2>3. (received \o <<>>) \o <<>> = received /\ (received' \o <<>>) \o <<>> = received'
    BY <1>t, <1>b
  <2> QED
    BY <1>a, <1>b, <2>1, <2>2, <2>3 DEF ItemsKept
<1> QED
  BY <1>1, <1>2, <1>3, <1>4, <1>5, <1>6, <1>7, <1>8, <1>9, <1>10 DEF ItemsInv

(* poll begins, in a thread.                                                *)
LEMMA ItemsPollBegins ==
    ASSUME ItemsInv,
           NEW t \in Items!Tasks,
           NEW b \in BOOLEAN,
           b => IsStopped,
           task[t].at = "idle",
           facade.pending = <<>>,
           ~facade.polling,
           facade.complete \/ IsStopped,
           facade' = [Items!Close(facade, b) EXCEPT !.polling = TRUE],
           future' = [future EXCEPT !.poll = "busy"],
           Items!Goto(t, "polling"),
           UNCHANGED <<sync, stops, received>>
    PROVE  ItemsInv'
<1>a. ItemsTasks' /\ ItemGoes(t, "polling", task[t].stop)
  BY ItemsAt DEF ItemsInv, Items!Goto, ItemLabels
<1>b. /\ ItemsFacade' /\ facade'.attempted = facade.attempted /\ facade'.complete = facade.complete
      /\ facade'.stop = facade.stop /\ facade'.polling /\ facade'.pending = facade.pending
      /\ facade'.closed = (facade.closed \/ b) /\ UNCHANGED <<sync, stops, received>>
  BY DEF ItemsInv, ItemsFacade, Items!Close
<1>c. /\ ItemsFuture' /\ future'.start = future.start /\ future'.poll = "busy"
      /\ future'.poll # None /\ future'.event = future.event
  BY ItemsSets DEF ItemsInv, ItemsFuture
<1>d. ~IsNew /\ future.poll = None /\ future.event = <<>>
  <2>1. ~IsNew
    BY DEF ItemsInv, ItemsNew, IsNew, IsStopped
  <2>2. future.poll = None
    BY DEF ItemsInv, ItemsPolling
  <2> QED
    BY <2>1, <2>2, ItemsSets DEF ItemsInv, ItemsEvent
<1>u. /\ sync' = sync /\ future'.start = future.start /\ future'.event = future.event
      /\ stops' = stops /\ facade'.attempted = facade.attempted
      /\ facade'.complete = facade.complete /\ facade'.stop = facade.stop
      /\ facade'.pending = facade.pending /\ received' = received
  BY <1>b, <1>c
<1>1. ItemsSync' /\ ItemsStops' /\ ItemsReceived' /\ ItemsAttempted' /\ ItemsNewFirst' /\
      ItemsNew'
  BY <1>u
  DEF ItemsInv, ItemsSync, ItemsStops, ItemsReceived, ItemsAttempted, ItemsNewFirst, ItemsNew,
      IsNew
<1>2. ItemsOwed' /\ ItemsFailed' /\ ItemsOver' /\ ItemsLast' /\ ItemsOneStop' /\ ItemsKept'
  BY <1>u
  DEF ItemsInv, ItemsOwed, ItemsFailed, ItemsOver, ItemsLast, ItemsOneStop, ItemsKept,
      IsRunning, IsStopped
<1>3. ItemsFuture'
  BY <1>u, <1>a, <1>b, <1>c, <1>d
  DEF ItemsInv, ItemsFuture, ItemGoes, Items!Tasks
<1>4. ItemsFacade'
  BY <1>u, <1>a, <1>b, <1>c, <1>d
  DEF ItemsInv, ItemsFacade, ItemGoes, Items!Tasks
<1>5. ItemsTasks'
  BY <1>u, <1>a, <1>b, <1>c, <1>d
  DEF ItemsInv, ItemsTasks, ItemGoes, Items!Tasks
<1>6. ItemsClosed'
  BY <1>u, <1>a, <1>b, <1>c, <1>d
  DEF ItemsInv, ItemsClosed, IsStopped, IsNew, ItemGoes, Items!Tasks
<1>7. ItemsFree'
  BY ZenonT(60), <1>u, <1>a, <1>b, <1>c, <1>d
  DEF ItemsInv, ItemsFree, InStart, ItemGoes, Items!Tasks
<1>8. ItemsHolds'
  BY <1>u, <1>a, <1>b, <1>c, <1>d
  DEF ItemsInv, ItemsHolds, InStop, ItemGoes, Items!Tasks
<1>9. ItemsGivenUp'
  BY ZenonT(60), <1>u, <1>a, <1>b, <1>c, <1>d
  DEF ItemsInv, ItemsGivenUp, ItemGoes, Items!Tasks
<1>10. ItemsStarting'
  BY <1>u, <1>a, <1>b, <1>c, <1>d
  DEF ItemsInv, ItemsStarting, InStart, ItemGoes, Items!Tasks
<1>11. ItemsPolls'
  <2>1. \A v \in Items!Tasks : ~InPoll(v)
    BY DEF ItemsInv, ItemsPolls
  <2>2. \A v \in Items!Tasks : InPoll(v)' => v = t
    BY <1>a, <2>1 DEF ItemGoes, InPoll
  <2> QED
    BY <1>b, <1>d, <2>2 DEF ItemsPolls, IsNew
<1>12. ItemsHeld'
  BY <1>u, <1>a, <1>b, <1>c, <1>d, ItemsSets
  DEF ItemsInv, ItemsHeld, IsStopped, ItemGoes, Items!Tasks
<1>13. ItemsPolling'
  BY <1>u, <1>a, <1>b, <1>c, <1>d
  DEF ItemsInv, ItemsPolling, ItemGoes, Items!Tasks
<1>14. ItemsEvent'
  BY <1>u, <1>a, <1>b, <1>c, <1>d
  DEF ItemsInv, ItemsEvent, ItemGoes, Items!Tasks
<1>15. ItemsPending'
  BY <1>u, <1>a, <1>b, <1>c, <1>d
  DEF ItemsInv, ItemsPending, ItemGoes, Items!Tasks
<1> QED
  BY <1>1, <1>2, <1>3, <1>4, <1>5, <1>6, <1>7, <1>8, <1>9, <1>10, <1>11, <1>12, <1>13, <1>14,
      <1>15 DEF ItemsInv

(* poll returns what its thread has taken.                                  *)
LEMMA ItemsPollReturns ==
    ASSUME ItemsInv,
           NEW t \in Items!Tasks,
           Items!PollReturns(t)
    PROVE  ItemsInv'
<1>a. ItemsTasks' /\ ItemGoes(t, "idle", 0)
  BY ItemsWith DEF ItemsInv, Items!PollReturns, Items!Return, ItemLabels
<1>b. /\ ItemsFacade' /\ facade'.attempted = facade.attempted /\ facade'.complete = facade.complete
      /\ facade'.stop = facade.stop /\ ~facade'.polling /\ facade'.pending = facade.pending
      /\ facade'.closed = (facade.closed \/ IsStopped)
  BY DEF ItemsInv, ItemsFacade, Items!PollReturns, Items!Close, Items!Stopped, IsStopped
<1>c. /\ ItemsFuture' /\ future'.start = future.start /\ future'.poll = None /\ future'.event = <<>>
  <2>1. future' = [future EXCEPT !.poll = None, !.event = <<>>] /\ <<>> \in Seq(Nat)
    BY DEF Items!PollReturns
  <2> QED
    BY <2>1 DEF ItemsInv, ItemsFuture
<1>d. /\ task[t].at = "polling" /\ task[t].stop = 0 /\ facade.polling /\ facade.pending = <<>>
      /\ received' = received \o future.event /\ received \in Seq(Nat) /\ future.event \in Seq(Nat)
      /\ sync.events \in Seq(Nat)
  BY DEF ItemsInv, ItemsFree, ItemsPolls, InPoll, ItemsPending, ItemsReceived, ItemsFuture,
     ItemsSync, Items!PollReturns, Items!At
<1>u. /\ sync' = sync /\ future'.start = future.start /\ stops' = stops
      /\ facade'.attempted = facade.attempted /\ facade'.complete = facade.complete
      /\ facade'.stop = facade.stop /\ facade'.pending = facade.pending
  BY <1>b, <1>c
  DEF Items!PollReturns
<1>1. ItemsSync' /\ ItemsStops' /\ ItemsAttempted' /\ ItemsNewFirst' /\ ItemsNew'
  BY <1>u
  DEF ItemsInv, ItemsSync, ItemsStops, ItemsAttempted, ItemsNewFirst, ItemsNew, IsNew
<1>2. ItemsOwed' /\ ItemsFailed' /\ ItemsOver' /\ ItemsLast' /\ ItemsOneStop'
  BY <1>u
  DEF ItemsInv, ItemsOwed, ItemsFailed, ItemsOver, ItemsLast, ItemsOneStop, IsRunning, IsStopped
<1>3. ItemsFuture'
  BY <1>u, <1>a, <1>b, <1>c, <1>d
  DEF ItemsInv, ItemsFuture, ItemGoes, Items!Tasks
<1>4. ItemsFacade'
  BY <1>u, <1>a, <1>b, <1>c, <1>d
  DEF ItemsInv, ItemsFacade, ItemGoes, Items!Tasks
<1>5. ItemsTasks'
  BY <1>u, <1>a, <1>b, <1>c, <1>d
  DEF ItemsInv, ItemsTasks, ItemGoes, Items!Tasks
<1>6. ItemsReceived'
  BY <1>u, <1>a, <1>b, <1>c, <1>d
  DEF ItemsInv, ItemsReceived, ItemGoes, Items!Tasks
<1>7. ItemsClosed'
  BY <1>u, <1>a, <1>b, <1>c, <1>d
  DEF ItemsInv, ItemsClosed, IsStopped, IsNew, ItemGoes, Items!Tasks
<1>8. ItemsFree'
  BY <1>u, <1>a, <1>b, <1>c, <1>d
  DEF ItemsInv, ItemsFree, InStart, ItemGoes, Items!Tasks
<1>9. ItemsHolds'
  BY <1>u, <1>a, <1>b, <1>c, <1>d
  DEF ItemsInv, ItemsHolds, InStop, ItemGoes, Items!Tasks
<1>10. ItemsGivenUp'
  BY ZenonT(60), <1>u, <1>a, <1>b, <1>c, <1>d
  DEF ItemsInv, ItemsGivenUp, ItemGoes, Items!Tasks
<1>11. ItemsStarting'
  BY <1>u, <1>a, <1>b, <1>c, <1>d
  DEF ItemsInv, ItemsStarting, InStart, ItemGoes, Items!Tasks
<1>12. ItemsPolls'
  BY <1>u, <1>a, <1>b, <1>c, <1>d, ItemsSets
  DEF ItemsInv, ItemsPolls, InPoll, IsNew, ItemGoes, Items!Tasks
<1>13. ItemsHeld'
  BY <1>u, <1>a, <1>b, <1>c, <1>d, ItemsSets
  DEF ItemsInv, ItemsHeld, IsStopped, ItemGoes, Items!Tasks
<1>14. ItemsPolling'
  BY <1>u, <1>a, <1>b, <1>c, <1>d
  DEF ItemsInv, ItemsPolling, ItemGoes, Items!Tasks
<1>15. ItemsEvent'
  BY <1>u, <1>a, <1>b, <1>c, <1>d
  DEF ItemsInv, ItemsEvent, ItemGoes, Items!Tasks
<1>16. ItemsPending'
  BY <1>u, <1>a, <1>b, <1>c, <1>d
  DEF ItemsInv, ItemsPending, ItemGoes, Items!Tasks
<1>17. ItemsKept'
  <2>1. ((received \o facade.pending) \o future.event) \o sync.events = Counted(sync.made)
    BY DEF ItemsInv, ItemsKept

  <2>2. (received \o <<>>) \o future.event = received \o future.event
    BY <1>d
  <2>3. received' \in Seq(Nat)
    BY <1>d
  <2>4. (received' \o <<>>) \o <<>> = received'
    BY <2>3
  <2> QED
    BY <1>u, <1>b, <1>c, <1>d, <2>1, <2>2, <2>4 DEF ItemsKept
<1> QED
  BY <1>1, <1>2, <1>3, <1>4, <1>5, <1>6, <1>7, <1>8, <1>9, <1>10, <1>11, <1>12, <1>13, <1>14,
      <1>15, <1>16, <1>17 DEF ItemsInv

(* A cancelled poll finds the pool closed.                                  *)
LEMMA ItemsPollGivenUp ==
    ASSUME ItemsInv,
           NEW t \in Items!Tasks,
           task[t].at = "polling",
           Items!Refused(facade),
           Items!Goto(t, "poll settles"),
           UNCHANGED <<sync, future, stops, facade, received>>
    PROVE  ItemsInv'
<1>a. ItemsTasks' /\ ItemGoes(t, "poll settles", task[t].stop)
  BY ItemsAt DEF ItemsInv, Items!Goto, ItemLabels
<1>b. task[t].stop = 0 /\ facade.closed
  BY DEF ItemsInv, ItemsFree, Items!Refused
<1>u. /\ sync' = sync /\ future' = future /\ stops' = stops /\ facade' = facade
      /\ received' = received
  OBVIOUS
<1>1. ItemsSync' /\ ItemsFuture' /\ ItemsStops' /\ ItemsFacade' /\ ItemsReceived' /\
      ItemsAttempted'
  BY <1>u
  DEF ItemsInv, ItemsSync, ItemsFuture, ItemsStops, ItemsFacade, ItemsReceived, ItemsAttempted
<1>2. ItemsNewFirst' /\ ItemsNew' /\ ItemsOwed' /\ ItemsFailed' /\ ItemsClosed' /\ ItemsOver'
  BY <1>u
  DEF ItemsInv, ItemsNewFirst, ItemsNew, ItemsOwed, ItemsFailed, ItemsClosed, ItemsOver, IsNew,
      IsRunning, IsStopped
<1>3. ItemsLast' /\ ItemsOneStop' /\ ItemsPolling' /\ ItemsEvent' /\ ItemsPending' /\ ItemsKept'
  BY <1>u
  DEF ItemsInv, ItemsLast, ItemsOneStop, ItemsPolling, ItemsEvent, ItemsPending, ItemsKept
<1>4. ItemsTasks'
  BY <1>u, <1>a, <1>b
  DEF ItemsInv, ItemsTasks, ItemGoes, Items!Tasks
<1>5. ItemsFree'
  BY <1>u, <1>a, <1>b
  DEF ItemsInv, ItemsFree, InStart, ItemGoes, Items!Tasks
<1>6. ItemsHolds'
  BY <1>u, <1>a, <1>b
  DEF ItemsInv, ItemsHolds, InStop, ItemGoes, Items!Tasks
<1>7. ItemsGivenUp'
  BY <1>u, <1>a, <1>b
  DEF ItemsInv, ItemsGivenUp, ItemGoes, Items!Tasks
<1>8. ItemsStarting'
  BY <1>u, <1>a, <1>b
  DEF ItemsInv, ItemsStarting, InStart, ItemGoes, Items!Tasks
<1>9. ItemsPolls'
  BY ZenonT(60), <1>u, <1>a, <1>b, ItemsSets
  DEF ItemsInv, ItemsPolls, InPoll, IsNew, ItemGoes, Items!Tasks
<1>10. ItemsHeld'
  BY <1>u, <1>a, <1>b, ItemsSets
  DEF ItemsInv, ItemsHeld, IsStopped, ItemGoes, Items!Tasks
<1> QED
  BY <1>1, <1>2, <1>3, <1>4, <1>5, <1>6, <1>7, <1>8, <1>9, <1>10 DEF ItemsInv

(* The stop that a cancelled poll asked for has settled.                    *)
LEMMA ItemsPollStops ==
    ASSUME ItemsInv,
           NEW t \in Items!Tasks,
           Items!PollStops(t)
    PROVE  ItemsInv'
<1>a. ItemsTasks' /\ ItemGoes(t, "poll settles", task[t].stop)
  BY ItemsAt DEF ItemsInv, Items!PollStops, Items!Goto, ItemLabels
<1>b. /\ task[t].at = "poll stops" /\ task[t].stop \in DOMAIN stops /\ stops[task[t].stop] # "busy"
  <2>1. task[t].at = "poll stops" /\ task[t].stop \in DOMAIN stops
    BY DEF ItemsInv, ItemsHolds, InStop, Items!PollStops, Items!At
  <2> QED
    BY <2>1, ItemsIndex DEF ItemsInv, Items!PollStops, Items!Settled
<1>u. /\ sync' = sync /\ future' = future /\ stops' = stops /\ facade' = facade
      /\ received' = received
  BY DEF Items!PollStops
<1>1. ItemsSync' /\ ItemsFuture' /\ ItemsStops' /\ ItemsFacade' /\ ItemsReceived' /\
      ItemsAttempted'
  BY <1>u
  DEF ItemsInv, ItemsSync, ItemsFuture, ItemsStops, ItemsFacade, ItemsReceived, ItemsAttempted
<1>2. ItemsNewFirst' /\ ItemsNew' /\ ItemsOwed' /\ ItemsFailed' /\ ItemsClosed' /\ ItemsOver'
  BY <1>u
  DEF ItemsInv, ItemsNewFirst, ItemsNew, ItemsOwed, ItemsFailed, ItemsClosed, ItemsOver, IsNew,
      IsRunning, IsStopped
<1>3. ItemsLast' /\ ItemsOneStop' /\ ItemsPolling' /\ ItemsEvent' /\ ItemsPending' /\ ItemsKept'
  BY <1>u
  DEF ItemsInv, ItemsLast, ItemsOneStop, ItemsPolling, ItemsEvent, ItemsPending, ItemsKept
<1>4. ItemsTasks'
  BY <1>u, <1>a, <1>b
  DEF ItemsInv, ItemsTasks, ItemGoes, Items!Tasks
<1>5. ItemsFree'
  BY <1>u, <1>a, <1>b
  DEF ItemsInv, ItemsFree, InStart, ItemGoes, Items!Tasks
<1>6. ItemsHolds'
  BY <1>u, <1>a, <1>b
  DEF ItemsInv, ItemsHolds, InStop, ItemGoes, Items!Tasks
<1>7. ItemsGivenUp'
  BY <1>u, <1>a, <1>b
  DEF ItemsInv, ItemsGivenUp, ItemGoes, Items!Tasks
<1>8. ItemsStarting'
  BY <1>u, <1>a, <1>b
  DEF ItemsInv, ItemsStarting, InStart, ItemGoes, Items!Tasks
<1>9. ItemsPolls'
  BY ZenonT(60), <1>u, <1>a, <1>b, ItemsSets
  DEF ItemsInv, ItemsPolls, InPoll, IsNew, ItemGoes, Items!Tasks
<1>10. ItemsHeld'
  BY <1>u, <1>a, <1>b, ItemsSets
  DEF ItemsInv, ItemsHeld, IsStopped, ItemGoes, Items!Tasks
<1> QED
  BY <1>1, <1>2, <1>3, <1>4, <1>5, <1>6, <1>7, <1>8, <1>9, <1>10 DEF ItemsInv

(* A cancelled poll keeps what its thread has taken.                        *)
LEMMA ItemsPollSettles ==
    ASSUME ItemsInv,
           NEW t \in Items!Tasks,
           Items!PollSettles(t)
    PROVE  ItemsInv'
<1>a. ItemsTasks' /\ ItemGoes(t, "idle", 0)
  BY ItemsWith DEF ItemsInv, Items!PollSettles, Items!Return, ItemLabels
<1>d. /\ task[t].at = "poll settles" /\ facade.polling /\ facade.pending = <<>>
      /\ received \in Seq(Nat) /\ future.event \in Seq(Nat) /\ sync.events \in Seq(Nat)
      /\ facade.pending \o future.event = future.event
  <2>1. task[t].at = "poll settles" /\ facade.polling
    BY DEF ItemsInv, ItemsPolls, InPoll, Items!PollSettles, Items!At
  <2>2. facade.pending = <<>>
    BY <2>1 DEF ItemsInv, ItemsPending
  <2>3. received \in Seq(Nat) /\ future.event \in Seq(Nat) /\ sync.events \in Seq(Nat)
    BY DEF ItemsInv, ItemsReceived, ItemsFuture, ItemsSync
  <2>4. <<>> \o future.event = future.event
    BY <2>3
  <2> QED
    BY <2>1, <2>2, <2>3, <2>4
<1>b. /\ ItemsFacade' /\ facade'.attempted = facade.attempted /\ facade'.complete = facade.complete
      /\ facade'.closed = (facade.closed \/ ~sync.incomplete)
      /\ ~facade'.polling /\ facade'.pending = future.event
      /\ facade'.stop = IF sync.incomplete /\ facade.stop = task[t].stop THEN 0 ELSE facade.stop
  <2>1. /\ Items!Preserved(facade) \in FacadeRecords
        /\ Items!Preserved(facade).pending = future.event
        /\ Items!Preserved(facade).stop = facade.stop /\ ~Items!Preserved(facade).polling
        /\ Items!Preserved(facade).attempted = facade.attempted
        /\ Items!Preserved(facade).complete = facade.complete
        /\ Items!Preserved(facade).closed = facade.closed
    BY <1>d DEF ItemsInv, ItemsFacade, FacadeRecords, Items!Preserved
  <2> DEFINE p == Items!Preserved(facade)
  <2>2. facade' = Items!SettleStop(p, t)
    BY DEF Items!PollSettles
  <2> HIDE DEF p
  <2>3. /\ ItemsFacade' /\ facade'.attempted = p.attempted /\ facade'.complete = p.complete
        /\ facade'.closed = (p.closed \/ ~sync.incomplete)
        /\ facade'.polling = p.polling /\ facade'.pending = p.pending
        /\ facade'.stop = IF sync.incomplete /\ p.stop = task[t].stop THEN 0 ELSE p.stop
    <3>1. p \in FacadeRecords
      BY <2>1 DEF p
    <3> QED
      BY <2>2, <3>1, ItemsSettle DEF ItemsInv
  <2> QED
    BY <2>1, <2>3 DEF p
<1>c. /\ ItemsFuture' /\ future'.start = future.start /\ future'.poll = None /\ future'.event = <<>>
  <2>1. future' = [future EXCEPT !.poll = None, !.event = <<>>]
    BY DEF Items!PollSettles
  <2>2. <<>> \in Seq(Nat)
    OBVIOUS
  <2> QED
    BY <2>1, <2>2 DEF ItemsInv, ItemsFuture
<1>e. /\ IsStopped \/ (sync.incomplete /\ IsRunning)
      /\ task[t].stop = 0 => IsStopped
      /\ task[t].stop # 0 => stops[task[t].stop] # "busy"
  <2>1. \/ task[t].stop = 0 /\ facade.closed
        \/ task[t].stop \in DOMAIN stops /\ stops[task[t].stop] # "busy"
    BY <1>d DEF ItemsInv, ItemsGivenUp
  <2>2. CASE task[t].stop = 0 /\ facade.closed
    BY <1>d, <2>2 DEF ItemsInv, ItemsClosed, ItemsPolls, InPoll
  <2>3. CASE task[t].stop \in DOMAIN stops /\ stops[task[t].stop] # "busy"
    <3>1. stops[task[t].stop] = "ok" \/ stops[task[t].stop] = "failed"
      BY <2>3, ItemsIndex DEF ItemsInv
    <3>2. task[t].stop # 0
      BY <2>3, ItemsIndex DEF ItemsInv
    <3> QED
      BY <2>3, <3>1, <3>2 DEF ItemsInv, ItemsOver, ItemsOwed
  <2> QED
    BY <2>1, <2>2, <2>3
<1>u. /\ sync' = sync /\ future'.start = future.start /\ stops' = stops
      /\ facade'.attempted = facade.attempted /\ facade'.complete = facade.complete
      /\ received' = received
  BY <1>b, <1>c
  DEF Items!PollSettles
<1>1. ItemsSync' /\ ItemsStops' /\ ItemsReceived' /\ ItemsAttempted' /\ ItemsNewFirst'
  BY <1>u
  DEF ItemsInv, ItemsSync, ItemsStops, ItemsReceived, ItemsAttempted, ItemsNewFirst, IsNew
<1>2. ItemsNew' /\ ItemsOwed' /\ ItemsFailed' /\ ItemsOver'
  BY <1>u
  DEF ItemsInv, ItemsNew, ItemsOwed, ItemsFailed, ItemsOver, IsNew, IsRunning, IsStopped
<1>3. ItemsFuture'
  BY <1>u, <1>a, <1>b, <1>c, <1>d, <1>e
  DEF ItemsInv, ItemsFuture, ItemGoes, Items!Tasks
<1>4. ItemsFacade'
  BY <1>u, <1>a, <1>b, <1>c, <1>d, <1>e
  DEF ItemsInv, ItemsFacade, ItemGoes, Items!Tasks
<1>5. ItemsTasks'
  BY <1>u, <1>a, <1>b, <1>c, <1>d, <1>e
  DEF ItemsInv, ItemsTasks, ItemGoes, Items!Tasks
<1>6. ItemsClosed'
  BY <1>u, <1>a, <1>b, <1>c, <1>d, <1>e
  DEF ItemsInv, ItemsClosed, IsStopped, IsNew, ItemGoes, Items!Tasks
<1>7. ItemsFree'
  BY <1>u, <1>a, <1>b, <1>c, <1>d, <1>e
  DEF ItemsInv, ItemsFree, InStart, ItemGoes, Items!Tasks
<1>8. ItemsHolds'
  BY <1>u, <1>a, <1>b, <1>c, <1>d, <1>e
  DEF ItemsInv, ItemsHolds, InStop, ItemGoes, Items!Tasks
<1>9. ItemsGivenUp'
  BY ZenonT(60), <1>u, <1>a, <1>b, <1>c, <1>d, <1>e
  DEF ItemsInv, ItemsGivenUp, ItemGoes, Items!Tasks
<1>10. ItemsStarting'
  BY <1>u, <1>a, <1>b, <1>c, <1>d, <1>e
  DEF ItemsInv, ItemsStarting, InStart, ItemGoes, Items!Tasks
<1>11. ItemsPolls'
  BY <1>u, <1>a, <1>b, <1>c, <1>d, <1>e, ItemsSets
  DEF ItemsInv, ItemsPolls, InPoll, IsNew, ItemGoes, Items!Tasks
<1>12. ItemsLast'
  BY <1>u, <1>a, <1>b, <1>c, <1>d, <1>e
  DEF ItemsInv, ItemsLast, ItemGoes, Items!Tasks
<1>13. ItemsHeld'
  BY <1>u, <1>a, <1>b, <1>c, <1>d, <1>e, ItemsSets
  DEF ItemsInv, ItemsHeld, IsStopped, ItemGoes, Items!Tasks
<1>14. ItemsOneStop'
  BY <1>u, <1>a, <1>b, <1>c, <1>d, <1>e
  DEF ItemsInv, ItemsOneStop, ItemGoes, Items!Tasks
<1>15. ItemsPolling'
  BY <1>u, <1>a, <1>b, <1>c, <1>d, <1>e
  DEF ItemsInv, ItemsPolling, ItemGoes, Items!Tasks
<1>16. ItemsEvent'
  BY <1>u, <1>a, <1>b, <1>c, <1>d, <1>e
  DEF ItemsInv, ItemsEvent, ItemGoes, Items!Tasks
<1>17. ItemsPending'
  <2>1. future.event # <<>> => Len(future.event) = 1
    BY DEF ItemsInv, ItemsEvent
  <2> QED
    BY <1>b, <2>1 DEF ItemsPending
<1>18. ItemsKept'
  <2>1. ((received \o facade.pending) \o future.event) \o sync.events = Counted(sync.made)
    BY DEF ItemsInv, ItemsKept

  <2>2. received \in Seq(Nat) /\ future.event \in Seq(Nat)
    BY DEF ItemsInv, ItemsReceived, ItemsFuture
  <2>3. (received \o <<>>) \o future.event = received \o future.event
    BY <2>2
  <2>4. received \o future.event \in Seq(Nat)
    BY <2>2
  <2>5. (received \o future.event) \o <<>> = received \o future.event
    BY <2>4
  <2> QED
    BY <1>u, <1>b, <1>c, <1>d, <2>1, <2>3, <2>5 DEF ItemsKept
<1> QED
  BY <1>1, <1>2, <1>3, <1>4, <1>5, <1>6, <1>7, <1>8, <1>9, <1>10, <1>11, <1>12, <1>13, <1>14,
      <1>15, <1>16, <1>17, <1>18 DEF ItemsInv

(* The thread of a start.                                                   *)
LEMMA ItemsStartRuns ==
    ASSUME ItemsInv,
           Items!StartRuns
    PROVE  ItemsInv'
<1>a. /\ future.start = "busy" /\ IsNew /\ ~sync.incomplete /\ DOMAIN stops = {} /\ ~facade.complete
      /\ ~facade.closed
  BY DEF ItemsInv, ItemsNewFirst, ItemsNew, ItemsClosed, IsNew, IsStopped, Items!StartRuns
<1>b. /\ ItemsSync' /\ ItemsFuture' /\ sync'.events = sync.events /\ sync'.made = sync.made
      /\ future'.poll = future.poll /\ future'.event = future.event
  BY ZenonT(60) DEF ItemsInv, ItemsSync, ItemsFuture, ItemStates, Items!StartRuns
<1>c. /\ future'.start # None /\ future'.start # "busy"
      /\ \/ future'.start = "ok" /\ sync'.state = "running" /\ ~sync'.incomplete
         \/ future'.start = "failed" /\ sync'.state = "running" /\ sync'.incomplete
         \/ future'.start = "failed" /\ sync'.state = sync.state /\ ~sync'.incomplete
  BY <1>a, ItemsSets DEF ItemsInv, ItemsSync, ItemsFuture, Items!StartRuns
<1>u. /\ sync'.events = sync.events /\ sync'.made = sync.made /\ future'.poll = future.poll
      /\ future'.event = future.event /\ stops' = stops /\ facade' = facade
      /\ task' = task /\ received' = received
  BY <1>b
  DEF Items!StartRuns
<1>1. ItemsStops' /\ ItemsFacade' /\ ItemsTasks' /\ ItemsReceived' /\ ItemsFree'
  BY <1>u
  DEF ItemsInv, ItemsStops, ItemsFacade, ItemsTasks, ItemsReceived, ItemsFree, InStart
<1>2. ItemsHolds' /\ ItemsGivenUp' /\ ItemsLast' /\ ItemsOneStop' /\ ItemsPolling'
  BY <1>u
  DEF ItemsInv, ItemsHolds, ItemsGivenUp, ItemsLast, ItemsOneStop, ItemsPolling, InStop
<1>3. ItemsEvent' /\ ItemsPending' /\ ItemsKept'
  BY <1>u
  DEF ItemsInv, ItemsEvent, ItemsPending, ItemsKept
<1>4. ItemsSync'
  BY <1>u, <1>a, <1>b, <1>c
  DEF ItemsInv, ItemsSync
<1>5. ItemsFuture'
  BY <1>u, <1>a, <1>b, <1>c
  DEF ItemsInv, ItemsFuture
<1>6. ItemsAttempted'
  BY <1>u, <1>a, <1>b, <1>c, ItemsSets
  DEF ItemsInv, ItemsAttempted
<1>7. ItemsNewFirst'
  BY <1>u, <1>a, <1>b, <1>c
  DEF ItemsInv, ItemsNewFirst, IsNew
<1>8. ItemsNew'
  BY <1>u, <1>a, <1>b, <1>c
  DEF ItemsInv, ItemsNew, IsNew
<1>9. ItemsOwed'
  BY <1>u, <1>a, <1>b, <1>c
  DEF ItemsInv, ItemsOwed, IsNew, IsRunning
<1>10. ItemsFailed'
  BY <1>u, <1>a, <1>b, <1>c
  DEF ItemsInv, ItemsFailed, IsNew, IsRunning
<1>11. ItemsClosed'
  BY <1>u, <1>a, <1>b, <1>c
  DEF ItemsInv, ItemsClosed, IsStopped, IsNew
<1>12. ItemsStarting'
  BY <1>u, <1>a, <1>b, <1>c
  DEF ItemsInv, ItemsStarting, InStart
<1>13. ItemsPolls'
  BY <1>u, <1>a, <1>b, <1>c
  DEF ItemsInv, ItemsPolls, InPoll, IsNew
<1>14. ItemsOver'
  BY <1>u, <1>a, <1>b, <1>c
  DEF ItemsInv, ItemsOver, IsStopped
<1>15. ItemsHeld'
  BY <1>u, <1>a, <1>b, <1>c
  DEF ItemsInv, ItemsHeld, IsNew, IsStopped
<1> QED
  BY <1>1, <1>2, <1>3, <1>4, <1>5, <1>6, <1>7, <1>8, <1>9, <1>10, <1>11, <1>12, <1>13, <1>14,
      <1>15 DEF ItemsInv

(* The thread of a stop.                                                    *)
LEMMA ItemsStopRuns ==
    ASSUME ItemsInv,
           NEW k \in DOMAIN stops,
           Items!StopRuns(k)
    PROVE  ItemsInv'
<1>a. ~IsNew /\ stops[k] = "busy"
  BY DEF ItemsInv, ItemsNew, Items!StopRuns
<1>b. SessionGoesOn
  <2>1. CASE sync' = sync
    BY <2>1 DEF SessionGoesOn, ItemsInv, ItemsSync
  <2>2. CASE sync' \in Items!Finished
    BY <2>2, ItemsFinish DEF ItemsInv
  <2>3. CASE sync' = Items!Unfinished /\ ~Items!Stopped
    <3>1. IsRunning
      BY <1>a, <2>3 DEF ItemsInv, ItemsSync, ItemStates, IsNew, IsRunning, Items!Stopped
    <3> QED
      BY <2>3, <3>1, ItemsUnfinished DEF ItemsInv
  <2> QED
    BY <2>1, <2>2, <2>3 DEF Items!StopRuns
<1>c. /\ ItemsStops'
      /\ \/ StopEnds(k, "ok") /\ IsStopped'
         \/ StopEnds(k, "failed") /\ ~IsStopped /\ sync'.state = sync.state /\ sync'.incomplete
  <2>1. CASE /\ stops' = [stops EXCEPT ![k] = "ok"]
             /\ sync' \in (IF Items!Stopped THEN {sync} ELSE Items!Finished)
    <3>1. IsStopped'
      BY <2>1, ItemsFinish DEF ItemsInv, Items!Stopped, IsStopped
    <3> QED
      BY <2>1, <3>1, ItemsEnds DEF ItemsInv
  <2>2. CASE stops' = [stops EXCEPT ![k] = "failed"] /\ ~Items!Stopped /\ sync' = Items!Unfinished
    <3>1. sync'.state = sync.state /\ sync'.incomplete
      BY <2>2 DEF ItemsInv, ItemsSync, Items!Unfinished
    <3> QED
      BY <2>2, <3>1, ItemsEnds DEF ItemsInv, Items!Stopped, IsStopped
  <2> QED
    BY <2>1, <2>2 DEF Items!StopRuns
<1>d. IsStopped => IsStopped' /\ ~sync'.incomplete /\ sync'.state = sync.state
  BY <1>b DEF ItemsInv, ItemsOwed, IsRunning, IsStopped, SessionGoesOn
<1>e. /\ ~IsNew'
      /\ \/ sync'.state = sync.state /\ sync'.incomplete = sync.incomplete
         \/ sync'.state = "stopped" /\ ~sync'.incomplete
         \/ sync'.state = sync.state /\ sync'.incomplete /\ IsRunning
  BY <1>a, <1>b DEF SessionGoesOn, IsNew, IsStopped, IsRunning
<1>u. /\ future' = future /\ facade' = facade /\ task' = task /\ received' = received
  BY DEF Items!StopRuns
<1>1. ItemsFuture' /\ ItemsFacade' /\ ItemsTasks' /\ ItemsReceived' /\ ItemsAttempted'
  BY <1>u
  DEF ItemsInv, ItemsFuture, ItemsFacade, ItemsTasks, ItemsReceived, ItemsAttempted
<1>2. ItemsFree' /\ ItemsStarting' /\ ItemsPolling' /\ ItemsEvent' /\ ItemsPending'
  BY <1>u
  DEF ItemsInv, ItemsFree, ItemsStarting, ItemsPolling, ItemsEvent, ItemsPending, InStart
<1>3. ItemsSync'
  BY <1>b DEF SessionGoesOn
<1>4. ItemsStops'
  BY <1>u, <1>a, <1>c, <1>d, <1>e
  DEF ItemsInv, ItemsStops, StopEnds
<1>5. ItemsNewFirst'
  BY <1>u, <1>a, <1>c, <1>d, <1>e
  DEF ItemsInv, ItemsNewFirst, IsNew, StopEnds
<1>6. ItemsNew'
  BY <1>u, <1>a, <1>c, <1>d, <1>e
  DEF ItemsInv, ItemsNew, IsNew, StopEnds
<1>7. ItemsOwed'
  BY <1>u, <1>a, <1>c, <1>d, <1>e
  DEF ItemsInv, ItemsOwed, IsRunning, StopEnds
<1>8. ItemsFailed'
  BY <1>u, <1>a, <1>c, <1>d, <1>e
  DEF ItemsInv, ItemsFailed, IsRunning, StopEnds
<1>9. ItemsClosed'
  BY <1>u, <1>a, <1>c, <1>d, <1>e
  DEF ItemsInv, ItemsClosed, IsStopped, IsNew, StopEnds
<1>10. ItemsHolds'
  BY <1>u, <1>a, <1>c, <1>d, <1>e
  DEF ItemsInv, ItemsHolds, InStop, StopEnds
<1>11. ItemsGivenUp'
  BY <1>u, <1>a, <1>c, <1>d, <1>e
  DEF ItemsInv, ItemsGivenUp, StopEnds
<1>12. ItemsPolls'
  <2>1. ~IsNew'
    BY <1>a, <1>b DEF SessionGoesOn, IsNew, IsRunning, IsStopped
  <2> QED
    BY <1>u, <2>1 DEF ItemsInv, ItemsPolls, InPoll
<1>13. ItemsOver'
  BY <1>u, <1>a, <1>c, <1>d, <1>e
  DEF ItemsInv, ItemsOver, IsStopped, StopEnds
<1>14. ItemsLast'
  BY <1>u, <1>a, <1>c, <1>d, <1>e
  DEF ItemsInv, ItemsLast, StopEnds
<1>15. ItemsHeld'
  BY <1>u, <1>a, <1>c, <1>d, <1>e
  DEF ItemsInv, ItemsHeld, IsStopped, StopEnds
<1>16. ItemsOneStop'
  BY <1>u, <1>a, <1>c, <1>d, <1>e
  DEF ItemsInv, ItemsOneStop, StopEnds
<1>17. ItemsKept'
  <2>1. ((received \o facade.pending) \o future.event) \o sync.events = Counted(sync.made)
    BY DEF ItemsInv, ItemsKept

  <2> DEFINE s == (received \o facade.pending) \o future.event
  <2>2. s \in Seq(Nat) /\ sync.events \in Seq(Nat) /\ sync.made \in Nat
    BY DEF ItemsInv, ItemsReceived, ItemsFacade, ItemsFuture, ItemsSync
  <2>3. s \o sync.events = Counted(sync.made)
    BY <2>1 DEF s
  <2> HIDE DEF s
  <2>4. s \o Append(sync.events, sync.made + 1) = Counted(sync.made + 1)
    BY <2>2, <2>3, CountOn
  <2>5. s \o sync'.events = Counted(sync'.made)
    BY <1>b, <2>3, <2>4 DEF SessionGoesOn
  <2> QED
    BY <1>u, <2>5 DEF ItemsKept, s
<1> QED
  BY <1>1, <1>2, <1>3, <1>4, <1>5, <1>6, <1>7, <1>8, <1>9, <1>10, <1>11, <1>12, <1>13, <1>14,
      <1>15, <1>16, <1>17 DEF ItemsInv

(* stop of a session that has stopped.                                      *)
LEMMA ItemsStopAgain ==
    ASSUME ItemsInv,
           IsStopped,
           facade' = Items!Close(facade, TRUE),
           UNCHANGED <<sync, future, stops, task, received>>
    PROVE  ItemsInv'
<1>a. /\ ItemsFacade' /\ facade'.attempted = facade.attempted /\ facade'.complete = facade.complete
      /\ facade'.stop = facade.stop /\ facade'.polling = facade.polling /\ facade'.closed
      /\ facade'.pending = facade.pending /\ UNCHANGED <<sync, future, stops, task, received>>
  BY DEF ItemsInv, ItemsFacade, Items!Close
<1>u. /\ sync' = sync /\ future' = future /\ stops' = stops
      /\ facade'.attempted = facade.attempted /\ facade'.complete = facade.complete
      /\ facade'.stop = facade.stop /\ facade'.polling = facade.polling
      /\ facade'.pending = facade.pending /\ task' = task /\ received' = received
  BY <1>a
<1>1. ItemsSync' /\ ItemsFuture' /\ ItemsStops' /\ ItemsTasks' /\ ItemsReceived' /\
      ItemsAttempted'
  BY <1>u
  DEF ItemsInv, ItemsSync, ItemsFuture, ItemsStops, ItemsTasks, ItemsReceived, ItemsAttempted
<1>2. ItemsNewFirst' /\ ItemsNew' /\ ItemsOwed' /\ ItemsFailed' /\ ItemsFree' /\ ItemsHolds'
  BY <1>u
  DEF ItemsInv, ItemsNewFirst, ItemsNew, ItemsOwed, ItemsFailed, ItemsFree, ItemsHolds, IsNew,
      IsRunning, InStart, InStop
<1>3. ItemsStarting' /\ ItemsPolls' /\ ItemsOver' /\ ItemsLast' /\ ItemsHeld' /\ ItemsOneStop'
  BY <1>u
  DEF ItemsInv, ItemsStarting, ItemsPolls, ItemsOver, ItemsLast, ItemsHeld, ItemsOneStop,
      InStart, InPoll, IsNew, IsStopped
<1>4. ItemsPolling' /\ ItemsEvent' /\ ItemsPending' /\ ItemsKept'
  BY <1>u
  DEF ItemsInv, ItemsPolling, ItemsEvent, ItemsPending, ItemsKept
<1>5. ItemsFacade'
  BY <1>u, <1>a
  DEF ItemsInv, ItemsFacade
<1>6. ItemsClosed'
  BY <1>u, <1>a
  DEF ItemsInv, ItemsClosed, IsStopped, IsNew
<1>7. ItemsGivenUp'
  BY <1>u, <1>a
  DEF ItemsInv, ItemsGivenUp
<1> QED
  BY <1>1, <1>2, <1>3, <1>4, <1>5, <1>6, <1>7 DEF ItemsInv

(* An event comes, or the session ends by itself or fails to.               *)
LEMMA ItemsSessionGoes ==
    ASSUME ItemsInv,
           ~IsNew,
           SessionGoesOn,
           UNCHANGED <<future, stops, facade, task, received>>
    PROVE  ItemsInv'
<1>a. ~IsNew'
  BY DEF SessionGoesOn, IsNew, IsStopped, IsRunning
<1>u. /\ future' = future /\ stops' = stops /\ facade' = facade /\ task' = task
      /\ received' = received
  OBVIOUS
<1>1. ItemsFuture' /\ ItemsStops' /\ ItemsFacade' /\ ItemsTasks' /\ ItemsReceived'
  BY <1>u
  DEF ItemsInv, ItemsFuture, ItemsStops, ItemsFacade, ItemsTasks, ItemsReceived
<1>2. ItemsAttempted' /\ ItemsFree' /\ ItemsHolds' /\ ItemsGivenUp' /\ ItemsStarting'
  BY <1>u
  DEF ItemsInv, ItemsAttempted, ItemsFree, ItemsHolds, ItemsGivenUp, ItemsStarting, InStart,
      InStop
<1>3. ItemsLast' /\ ItemsOneStop' /\ ItemsPolling' /\ ItemsEvent' /\ ItemsPending'
  BY <1>u
  DEF ItemsInv, ItemsLast, ItemsOneStop, ItemsPolling, ItemsEvent, ItemsPending
<1>4. ItemsSync'
  BY <1>u, <1>a
  DEF ItemsInv, ItemsSync, SessionGoesOn
<1>5. ItemsNewFirst'
  BY <1>u, <1>a
  DEF ItemsInv, ItemsNewFirst, IsNew, SessionGoesOn
<1>6. ItemsNew'
  BY <1>u, <1>a
  DEF ItemsInv, ItemsNew, IsNew, SessionGoesOn
<1>7. ItemsOwed'
  BY <1>u, <1>a
  DEF ItemsInv, ItemsOwed, IsStopped, IsRunning, SessionGoesOn
<1>8. ItemsFailed'
  BY <1>u, <1>a
  DEF ItemsInv, ItemsFailed, IsStopped, IsRunning, SessionGoesOn
<1>9. ItemsClosed'
  BY <1>u, <1>a
  DEF ItemsInv, ItemsClosed, IsStopped, IsNew, SessionGoesOn
<1>10. ItemsPolls'
  BY <1>u, <1>a
  DEF ItemsInv, ItemsPolls, InPoll, IsNew, SessionGoesOn
<1>11. ItemsOver'
  BY <1>u, <1>a
  DEF ItemsInv, ItemsOver, IsStopped, IsRunning, SessionGoesOn
<1>12. ItemsHeld'
  BY <1>u, <1>a
  DEF ItemsInv, ItemsHeld, IsStopped, IsRunning, SessionGoesOn
<1>13. ItemsKept'
  <2>1. ((received \o facade.pending) \o future.event) \o sync.events = Counted(sync.made)
    BY DEF ItemsInv, ItemsKept

  <2> DEFINE s == (received \o facade.pending) \o future.event
  <2>2. s \in Seq(Nat) /\ sync.events \in Seq(Nat) /\ sync.made \in Nat
    BY DEF ItemsInv, ItemsReceived, ItemsFacade, ItemsFuture, ItemsSync
  <2>3. s \o sync.events = Counted(sync.made)
    BY <2>1 DEF s
  <2> HIDE DEF s
  <2>4. s \o Append(sync.events, sync.made + 1) = Counted(sync.made + 1)
    BY <2>2, <2>3, CountOn
  <2>5. s \o sync'.events = Counted(sync'.made)
    BY <2>3, <2>4 DEF SessionGoesOn
  <2> QED
    BY <1>u, <2>5 DEF ItemsKept, s
<1> QED
  BY <1>1, <1>2, <1>3, <1>4, <1>5, <1>6, <1>7, <1>8, <1>9, <1>10, <1>11, <1>12, <1>13 DEF
      ItemsInv

(* The thread of a poll takes an event.                                     *)
LEMMA ItemsPollTakes ==
    ASSUME ItemsInv,
           future.poll = "busy",
           sync.events # <<>>,
           future' = [future EXCEPT !.poll = "event", !.event = <<Head(sync.events)>>],
           sync' = [sync EXCEPT !.events = Tail(@)],
           UNCHANGED <<stops, facade, task, received>>
    PROVE  ItemsInv'
<1>a. /\ sync.events \in Seq(Nat) /\ future.event = <<>>
  BY DEF ItemsInv, ItemsSync, ItemsEvent
<1>b. /\ ItemsSync' /\ sync'.state = sync.state /\ sync'.incomplete = sync.incomplete
      /\ sync'.made = sync.made /\ sync'.events = Tail(sync.events)
      /\ ItemsFuture' /\ future'.start = future.start /\ future'.poll = "event"
      /\ future'.event = <<Head(sync.events)>> /\ UNCHANGED <<stops, facade, task, received>>
  BY <1>a, TakeFirst DEF ItemsInv, ItemsSync, ItemsFuture
<1>c. "event" # None /\ "busy" # None /\ Len(<<Head(sync.events)>>) = 1
  BY ItemsSets
<1>u. /\ sync'.state = sync.state /\ sync'.incomplete = sync.incomplete
      /\ sync'.made = sync.made /\ future'.start = future.start /\ stops' = stops
      /\ facade' = facade /\ task' = task /\ received' = received
  BY <1>b
<1>1. ItemsStops' /\ ItemsFacade' /\ ItemsTasks' /\ ItemsReceived' /\ ItemsAttempted'
  BY <1>u
  DEF ItemsInv, ItemsStops, ItemsFacade, ItemsTasks, ItemsReceived, ItemsAttempted
<1>2. ItemsNewFirst' /\ ItemsNew' /\ ItemsOwed' /\ ItemsFailed' /\ ItemsClosed'
  BY <1>u
  DEF ItemsInv, ItemsNewFirst, ItemsNew, ItemsOwed, ItemsFailed, ItemsClosed, IsNew, IsRunning,
      IsStopped
<1>3. ItemsFree' /\ ItemsHolds' /\ ItemsGivenUp' /\ ItemsStarting' /\ ItemsPolls'
  BY ZenonT(60), <1>u
  DEF ItemsInv, ItemsFree, ItemsHolds, ItemsGivenUp, ItemsStarting, ItemsPolls, InStart, InStop,
      InPoll, IsNew
<1>4. ItemsOver' /\ ItemsLast' /\ ItemsHeld' /\ ItemsOneStop' /\ ItemsPending'
  BY <1>u
  DEF ItemsInv, ItemsOver, ItemsLast, ItemsHeld, ItemsOneStop, ItemsPending, IsStopped
<1>5. ItemsSync'
  BY <1>u, <1>a, <1>b, <1>c
  DEF ItemsInv, ItemsSync
<1>6. ItemsFuture'
  BY <1>u, <1>a, <1>b, <1>c
  DEF ItemsInv, ItemsFuture
<1>7. ItemsPolling'
  BY <1>u, <1>a, <1>b, <1>c
  DEF ItemsInv, ItemsPolling
<1>8. ItemsEvent'
  BY <1>u, <1>a, <1>b, <1>c
  DEF ItemsInv, ItemsEvent
<1>9. ItemsKept'
  <2>1. ((received \o facade.pending) \o future.event) \o sync.events = Counted(sync.made)
    BY DEF ItemsInv, ItemsKept

  <2> DEFINE s == received \o facade.pending
  <2>2. s \in Seq(Nat) /\ s \o <<>> = s
    BY DEF ItemsInv, ItemsReceived, ItemsFacade
  <2> HIDE DEF s
  <2>3. (s \o <<Head(sync.events)>>) \o Tail(sync.events) = s \o sync.events
    BY ZenonT(60), <1>a, <2>2, TakeFirst
  <2>4. s \o sync.events = Counted(sync.made)
    BY <1>a, <2>1, <2>2 DEF s
  <2>5. (s \o future'.event) \o sync'.events = Counted(sync'.made)
    BY <1>b, <2>3, <2>4
  <2> QED
    BY <1>u, <2>5 DEF ItemsKept, s
<1> QED
  BY <1>1, <1>2, <1>3, <1>4, <1>5, <1>6, <1>7, <1>8, <1>9 DEF ItemsInv

(* The thread of a poll ends without an event.                              *)
LEMMA ItemsPollEnds ==
    ASSUME ItemsInv,
           future.poll = "busy",
           \E outcome \in {"end", "error"} : future' = [future EXCEPT !.poll = outcome],
           UNCHANGED <<sync, stops, facade, task, received>>
    PROVE  ItemsInv'
<1>a. future.event = <<>>
  BY DEF ItemsInv, ItemsEvent
<1>b. /\ ItemsFuture' /\ future'.start = future.start /\ future'.poll # None
      /\ future'.event = future.event /\ UNCHANGED <<sync, stops, facade, task, received>>
  BY ItemsSets DEF ItemsInv, ItemsFuture
<1>u. /\ sync' = sync /\ future'.start = future.start /\ future'.event = future.event
      /\ stops' = stops /\ facade' = facade /\ task' = task /\ received' = received
  BY <1>b
<1>1. ItemsSync' /\ ItemsStops' /\ ItemsFacade' /\ ItemsTasks' /\ ItemsReceived' /\
      ItemsAttempted'
  BY <1>u
  DEF ItemsInv, ItemsSync, ItemsStops, ItemsFacade, ItemsTasks, ItemsReceived, ItemsAttempted
<1>2. ItemsNewFirst' /\ ItemsNew' /\ ItemsOwed' /\ ItemsFailed' /\ ItemsClosed' /\ ItemsFree'
  BY <1>u
  DEF ItemsInv, ItemsNewFirst, ItemsNew, ItemsOwed, ItemsFailed, ItemsClosed, ItemsFree, IsNew,
      IsRunning, IsStopped, InStart
<1>3. ItemsHolds' /\ ItemsGivenUp' /\ ItemsStarting' /\ ItemsPolls' /\ ItemsOver' /\ ItemsLast'
  BY ZenonT(60), <1>u
  DEF ItemsInv, ItemsHolds, ItemsGivenUp, ItemsStarting, ItemsPolls, ItemsOver, ItemsLast,
      InStop, InStart, InPoll, IsNew, IsStopped
<1>4. ItemsHeld' /\ ItemsOneStop' /\ ItemsPending' /\ ItemsKept'
  BY <1>u
  DEF ItemsInv, ItemsHeld, ItemsOneStop, ItemsPending, ItemsKept, IsStopped
<1>5. ItemsFuture'
  BY <1>u, <1>a, <1>b
  DEF ItemsInv, ItemsFuture
<1>6. ItemsPolling'
  BY <1>u, <1>a, <1>b, ItemsSets
  DEF ItemsInv, ItemsPolling
<1>7. ItemsEvent'
  BY <1>u, <1>a, <1>b
  DEF ItemsInv, ItemsEvent
<1> QED
  BY <1>1, <1>2, <1>3, <1>4, <1>5, <1>6, <1>7 DEF ItemsInv

(* Nothing changes.                                                         *)
LEMMA ItemsStutter ==
    ASSUME ItemsInv,
           UNCHANGED Items!vars
    PROVE  ItemsInv'
<1>u. /\ sync' = sync /\ future' = future /\ stops' = stops /\ facade' = facade
      /\ task' = task /\ received' = received
  BY DEF Items!vars
<1>1. ItemsSync' /\ ItemsFuture' /\ ItemsStops' /\ ItemsFacade' /\ ItemsTasks'
  BY <1>u
  DEF ItemsInv, ItemsSync, ItemsFuture, ItemsStops, ItemsFacade, ItemsTasks
<1>2. ItemsReceived' /\ ItemsAttempted' /\ ItemsNewFirst' /\ ItemsNew' /\ ItemsOwed'
  BY <1>u
  DEF ItemsInv, ItemsReceived, ItemsAttempted, ItemsNewFirst, ItemsNew, ItemsOwed, IsNew,
      IsRunning
<1>3. ItemsFailed' /\ ItemsClosed' /\ ItemsFree' /\ ItemsHolds' /\ ItemsGivenUp'
  BY <1>u
  DEF ItemsInv, ItemsFailed, ItemsClosed, ItemsFree, ItemsHolds, ItemsGivenUp, IsRunning,
      IsStopped, IsNew, InStart, InStop
<1>4. ItemsStarting' /\ ItemsPolls' /\ ItemsOver' /\ ItemsLast' /\ ItemsHeld'
  BY <1>u
  DEF ItemsInv, ItemsStarting, ItemsPolls, ItemsOver, ItemsLast, ItemsHeld, InStart, InPoll,
      IsNew, IsStopped
<1>5. ItemsOneStop' /\ ItemsPolling' /\ ItemsEvent' /\ ItemsPending' /\ ItemsKept'
  BY <1>u
  DEF ItemsInv, ItemsOneStop, ItemsPolling, ItemsEvent, ItemsPending, ItemsKept
<1> QED
  BY <1>1, <1>2, <1>3, <1>4, <1>5 DEF ItemsInv

(* Nothing has happened at first.                                           *)
LEMMA ItemsInit == Items!Init => ItemsInv
<1> SUFFICES ASSUME Items!Init PROVE ItemsInv
  OBVIOUS
<1> USE DEF Items!Init
<1>1. ItemsSync /\ ItemsFuture /\ ItemsStops /\ ItemsFacade /\ ItemsTasks /\ ItemsReceived
  BY DEF ItemsSync, ItemsFuture, ItemsStops, ItemsFacade, ItemsTasks, ItemsReceived, ItemStates,
     ItemLabels
<1>2. ItemsAttempted /\ ItemsNewFirst /\ ItemsNew /\ ItemsOwed /\ ItemsFailed /\ ItemsClosed
  BY ItemsSets DEF ItemsAttempted, ItemsNewFirst, ItemsNew, ItemsOwed, ItemsFailed, ItemsClosed,
     IsNew, IsRunning
<1>3. ItemsFree /\ ItemsHolds /\ ItemsGivenUp /\ ItemsStarting /\ ItemsPolls
  BY DEF ItemsFree, ItemsHolds, ItemsGivenUp, ItemsStarting, ItemsPolls, InStart, InStop, InPoll
<1>4. ItemsOver /\ ItemsLast /\ ItemsHeld /\ ItemsOneStop
  BY DEF ItemsOver, ItemsLast, ItemsHeld, ItemsOneStop
<1>5. ItemsPolling /\ ItemsEvent /\ ItemsPending
  BY DEF ItemsPolling, ItemsEvent, ItemsPending
<1>6. ItemsKept
  BY DEF ItemsKept, Counted
<1> QED
  BY <1>1, <1>2, <1>3, <1>4, <1>5, <1>6 DEF ItemsInv

(* A start that is over leaves the pool open for a stop, or closes it; one  *)
(* that was cancelled and is to be stopped is another matter.               *)
LEMMA ItemsStartEnds ==
    ASSUME ItemsInv, Items!StartReturns \/ Items!StartSettles
    PROVE  \/ StartIsOver("starting") \/ StartIsOver("start settles")
           \/ /\ Items!StartSettles /\ (future.start = "ok" \/ sync.incomplete)
              /\ Items!EnsureStop([facade EXCEPT !.complete = TRUE], "control", "stop settles")
<1> DEFINE f == [facade EXCEPT !.complete = TRUE]
<1>1. facade \in FacadeRecords /\ f \in FacadeRecords
  BY DEF ItemsInv, ItemsFacade, FacadeRecords
<1>2. ASSUME facade' = f, future.start = "ok" \/ sync.incomplete
      PROVE  /\ ItemsFacade' /\ facade'.attempted = facade.attempted /\ facade'.stop = facade.stop
             /\ facade'.polling = facade.polling /\ facade'.pending = facade.pending
             /\ facade'.complete /\ facade'.closed = facade.closed
  BY <1>1, <1>2 DEF FacadeRecords, ItemsFacade
<1>3. ASSUME facade' = Items!Close(facade, TRUE)
      PROVE  /\ ItemsFacade' /\ facade'.attempted = facade.attempted /\ facade'.stop = facade.stop
             /\ facade'.polling = facade.polling /\ facade'.pending = facade.pending
             /\ facade'.closed /\ facade'.complete = facade.complete
  BY <1>1, <1>3, ItemsClose
<1>4. CASE Items!StartReturns
  BY <1>2, <1>3, <1>4 DEF Items!StartReturns, Items!At, StartIsOver
<1>5. CASE Items!StartSettles /\ future.start # "ok" /\ ~sync.incomplete
  BY <1>3, <1>5 DEF Items!StartSettles, Items!At, StartIsOver
<1>6. CASE /\ Items!StartSettles /\ (future.start = "ok" \/ sync.incomplete)
           /\ Items!Refused(f) /\ facade' = Items!SettleStop(f, "control")
           /\ Items!Return("control") /\ UNCHANGED stops
  <2>1. f.stop = 0 /\ f.closed /\ facade.closed /\ f.complete
    BY <1>1, <1>6 DEF Items!Refused, FacadeRecords
  <2>2. facade' = f
    BY <1>1, <1>6, <2>1 DEF Items!SettleStop, Items!ForgetStop, Items!Close, FacadeRecords
  <2> HIDE DEF f
  <2>3. task["control"].at = "start settles" /\ future.start # "busy"
        /\ UNCHANGED <<sync, future, stops, received>>
    BY <1>6 DEF Items!StartSettles, Items!At
  <2> QED
    BY <1>2, <1>6, <2>2, <2>3 DEF StartIsOver
<1> QED
  BY <1>4, <1>5, <1>6 DEF Items!StartSettles

(* A stop that has settled has stopped the session, or is owed.             *)
LEMMA ItemsSettled ==
    ASSUME ItemsInv, NEW t \in Items!Tasks, InStop(t), Items!Settled(t)
    PROVE  /\ stops[task[t].stop] # "busy" /\ task[t].stop # 0
           /\ stops[task[t].stop] = "ok" => IsStopped
           /\ ~sync.incomplete => IsStopped
<1>1. task[t].stop \in DOMAIN stops
  BY DEF ItemsInv, ItemsHolds
<1>2. task[t].stop # 0 /\ stops[task[t].stop] \in {"busy", "ok", "failed"}
  BY <1>1, ItemsIndex DEF ItemsInv
<1>3. stops[task[t].stop] # "busy"
  BY <1>2 DEF Items!Settled
<1> QED
  BY <1>1, <1>2, <1>3 DEF ItemsInv, ItemsOver

(* So a stop that returns closes the pool, or is forgotten.                 *)
LEMMA ItemsStopEnds ==
    ASSUME ItemsInv, NEW t \in Items!Tasks, Items!StopReturns(t) \/ Items!StopSettles(t)
    PROVE  StopIsOver(t)
<1>1. /\ InStop(t) /\ Items!Settled(t) /\ (task[t].at = "stopping" \/ task[t].at = "stop settles")
      /\ UNCHANGED <<sync, future, stops, received>> /\ Items!Return(t)
  BY DEF Items!StopReturns, Items!StopSettles, InStop, Items!At
<1>2. /\ stops[task[t].stop] # "busy" /\ task[t].stop # 0
      /\ stops[task[t].stop] = "ok" => IsStopped
      /\ ~sync.incomplete => IsStopped
  BY <1>1, ItemsSettled
<1>3. ItemsTasks' /\ ItemGoes(t, "idle", 0)
  BY <1>1, ItemsWith DEF ItemsInv, Items!Return, ItemLabels
<1>4. facade \in FacadeRecords
  BY DEF ItemsInv, ItemsFacade, FacadeRecords
<1>5. /\ facade' = Items!Close(facade, TRUE) /\ IsStopped
      \/ facade' = Items!ForgetStop(facade, t)
  BY <1>2 DEF Items!StopReturns, Items!StopSettles, Items!SettleStop, Items!Stopped, IsStopped
<1>6. CASE facade' = Items!Close(facade, TRUE) /\ IsStopped
  <2>1. /\ ItemsFacade' /\ facade'.attempted = facade.attempted /\ facade'.stop = facade.stop
        /\ facade'.polling = facade.polling /\ facade'.pending = facade.pending
        /\ facade'.closed /\ facade'.complete = facade.complete
    BY <1>4, <1>6, ItemsClose
  <2> QED
    BY <1>1, <1>3, <1>6, <2>1 DEF StopIsOver
<1>7. CASE facade' = Items!ForgetStop(facade, t)
  <2>1. /\ ItemsFacade' /\ facade'.attempted = facade.attempted
        /\ facade'.polling = facade.polling /\ facade'.pending = facade.pending
        /\ facade'.closed = facade.closed /\ facade'.complete = facade.complete
        /\ facade'.stop = IF facade.stop = task[t].stop THEN 0 ELSE facade.stop
    BY <1>4, <1>7 DEF Items!ForgetStop, FacadeRecords, ItemsFacade
  <2> QED
    BY <1>1, <1>2, <1>3, <2>1 DEF StopIsOver
<1> QED
  BY <1>5, <1>6, <1>7

(* A poll is answered by the facade, or begins in a thread.                 *)
LEMMA ItemsPollCall ==
    ASSUME ItemsInv, NEW t \in Items!Tasks, Items!PollCall(t)
    PROVE  ItemsInv'
<1>1. /\ task[t].at = "idle" /\ ~facade.polling /\ (facade.complete \/ IsStopped)
      /\ UNCHANGED stops
  BY DEF Items!PollCall, Items!At, Items!Stopped, IsStopped
<1>2. PICK b \in BOOLEAN :
         /\ b => IsStopped
         /\ LET f == Items!Close(facade, b)
            IN  \/ /\ f.pending # <<>>
                   /\ received' = Append(received, Head(f.pending))
                   /\ facade' = [f EXCEPT !.pending = Tail(@)]
                   /\ UNCHANGED <<sync, future, task>>
                \/ /\ f.pending = <<>> /\ IsStopped
                   /\ facade' = f
                   /\ IF sync.events = <<>> THEN UNCHANGED <<sync, received>>
                      ELSE /\ received' = Append(received, Head(sync.events))
                           /\ sync' = [sync EXCEPT !.events = Tail(@)]
                   /\ UNCHANGED <<future, task>>
                \/ /\ f.pending = <<>> /\ ~IsStopped /\ ~f.closed
                   /\ facade' = [f EXCEPT !.polling = TRUE]
                   /\ future' = [future EXCEPT !.poll = "busy"]
                   /\ Items!Goto(t, "polling")
                   /\ UNCHANGED <<sync, received>>
  BY DEF Items!PollCall, Items!Stopped, IsStopped
<1>3. Items!Close(facade, b).pending = facade.pending
  BY DEF Items!Close, ItemsInv, ItemsFacade
<1>4. CASE /\ facade.pending # <<>> /\ received' = Append(received, Head(facade.pending))
           /\ facade' = [Items!Close(facade, b) EXCEPT !.pending = Tail(@)]
           /\ UNCHANGED <<sync, future, task>>
  BY <1>1, <1>2, <1>4, ItemsPollPending
<1>5. CASE /\ facade.pending = <<>> /\ IsStopped /\ facade' = Items!Close(facade, b)
           /\ IF sync.events = <<>> THEN UNCHANGED <<sync, received>>
              ELSE /\ received' = Append(received, Head(sync.events))
                   /\ sync' = [sync EXCEPT !.events = Tail(@)]
           /\ UNCHANGED <<future, task>>
  BY <1>1, <1>2, <1>5, ItemsPollStopped
<1>6. CASE /\ facade.pending = <<>> /\ ~IsStopped
           /\ facade' = [Items!Close(facade, b) EXCEPT !.polling = TRUE]
           /\ future' = [future EXCEPT !.poll = "busy"]
           /\ Items!Goto(t, "polling") /\ UNCHANGED <<sync, received>>
  BY <1>1, <1>2, <1>6, ItemsPollBegins
<1> QED
  BY <1>2, <1>3, <1>4, <1>5, <1>6

(* A stop is called.                                                        *)
LEMMA ItemsStopCall ==
    ASSUME ItemsInv, NEW t \in Items!Tasks, Items!StopCall(t)
    PROVE  ItemsInv'
<1>1. task[t].at = "idle" /\ UNCHANGED <<sync, future, received>>
  BY DEF Items!StopCall, Items!At
<1>2. CASE IsStopped /\ facade' = Items!Close(facade, TRUE) /\ UNCHANGED <<stops, task>>
  BY <1>1, <1>2, ItemsStopAgain
<1>3. CASE facade.complete /\ Items!EnsureStop(facade, t, "stopping")
  <2>1. facade \in FacadeRecords
    BY DEF ItemsInv, ItemsFacade, FacadeRecords
  <2>2. /\ ItemsStops' /\ ItemsTasks' /\ ItemsFacade' /\ ItemEnsures(t, "stopping")
        /\ facade'.attempted = facade.attempted /\ facade'.complete = facade.complete
        /\ facade'.closed = facade.closed /\ facade'.polling = facade.polling
        /\ facade'.pending = facade.pending
    BY <1>3, <2>1, ItemsEnsure DEF ItemsInv, ItemLabels
  <2> QED
    BY <1>1, <1>3, <2>2, ItemsStopJoins
<1> QED
  BY <1>2, <1>3 DEF Items!StopCall, Items!Stopped, IsStopped

(* A poll is cancelled.                                                     *)
LEMMA ItemsPollCancelled ==
    ASSUME ItemsInv, NEW t \in Items!Tasks, Items!PollCancelled(t)
    PROVE  ItemsInv'
<1>1. task[t].at = "polling" /\ UNCHANGED <<sync, future, received>>
  BY DEF Items!PollCancelled, Items!At
<1>2. CASE /\ Items!Refused(facade) /\ Items!Goto(t, "poll settles")
           /\ UNCHANGED <<stops, facade>>
  BY <1>1, <1>2, ItemsPollGivenUp
<1>3. CASE Items!EnsureStop(facade, t, "poll stops")
  <2>1. facade \in FacadeRecords
    BY DEF ItemsInv, ItemsFacade, FacadeRecords
  <2>2. /\ ItemsStops' /\ ItemsTasks' /\ ItemsFacade' /\ ItemEnsures(t, "poll stops")
        /\ facade'.attempted = facade.attempted /\ facade'.complete = facade.complete
        /\ facade'.closed = facade.closed /\ facade'.polling = facade.polling
        /\ facade'.pending = facade.pending
    BY <1>3, <2>1, ItemsEnsure DEF ItemsInv, ItemLabels
  <2> QED
    BY <1>1, <2>2, ItemsStopJoins
<1> QED
  BY <1>2, <1>3 DEF Items!PollCancelled

(* The thread of a poll.                                                    *)
LEMMA ItemsPollRuns ==
    ASSUME ItemsInv, Items!PollRuns \/ Items!PollTimesOut
    PROVE  ItemsInv'
<1>1. future.poll = "busy" /\ UNCHANGED <<stops, facade, task, received>>
  BY DEF Items!PollRuns, Items!PollTimesOut
<1>2. CASE /\ sync.events # <<>>
           /\ future' = [future EXCEPT !.poll = "event", !.event = <<Head(sync.events)>>]
           /\ sync' = [sync EXCEPT !.events = Tail(@)]
  BY <1>1, <1>2, ItemsPollTakes
<1>3. CASE /\ \E outcome \in {"end", "error"} : future' = [future EXCEPT !.poll = outcome]
           /\ UNCHANGED sync
  BY <1>1, <1>3, ItemsPollEnds
<1> QED
  BY <1>2, <1>3 DEF Items!PollRuns, Items!PollTimesOut

(* The session's own threads.                                               *)
LEMMA ItemsSession ==
    ASSUME ItemsInv, Items!EventComes \/ Items!SessionEnds
    PROVE  ItemsInv'
<1>1. IsRunning /\ ~IsNew /\ UNCHANGED <<future, stops, facade, task, received>>
  BY DEF Items!EventComes, Items!SessionEnds, IsRunning, IsNew
<1>2. SessionGoesOn
  <2>1. CASE sync' = [sync EXCEPT !.made = @ + 1, !.events = Append(@, sync.made + 1)]
    <3>1. /\ sync.made \in Nat /\ sync.events \in Seq(Nat)
      BY DEF ItemsInv, ItemsSync
    <3>2. sync.made + 1 \in Nat /\ Append(sync.events, sync.made + 1) \in Seq(Nat)
      BY <3>1
    <3> QED
      BY <2>1, <3>2 DEF ItemsInv, ItemsSync, SessionGoesOn
  <2>2. CASE sync' \in Items!Finished \/ sync' = Items!Unfinished
    BY <1>1, <2>2, ItemsFinish, ItemsUnfinished DEF ItemsInv
  <2> QED
    BY <2>1, <2>2 DEF Items!EventComes, Items!SessionEnds
<1> QED
  BY <1>1, <1>2, ItemsSessionGoes

(* Every step of the facade of the item session preserves the invariant.    *)
LEMMA ItemsNext == ItemsInv /\ [Items!Next]_(Items!vars) => ItemsInv'
<1> SUFFICES ASSUME ItemsInv, [Items!Next]_(Items!vars) PROVE ItemsInv'
  OBVIOUS
<1>1. CASE UNCHANGED Items!vars
  BY <1>1, ItemsStutter
<1>2. CASE Items!StartCall \/ Items!StartCancelled \/ Items!StartRuns
  BY <1>2, ItemsStartCall, ItemsStartCancelled, ItemsStartRuns
<1>3. CASE Items!StartReturns \/ Items!StartSettles
  BY <1>3, ItemsStartEnds, ItemsStartOver, ItemsStartUndone
<1>4. ASSUME NEW t \in Items!Tasks,
             Items!Calls(t) \/ Items!Cancels(t) \/ Items!Resumes(t)
      PROVE  ItemsInv'
  <2>1. CASE Items!Calls(t)
    BY <2>1, ItemsStopCall, ItemsPollCall DEF Items!Calls
  <2>2. CASE Items!Cancels(t)
    BY <2>2, ItemsStopCancelled, ItemsPollCancelled DEF Items!Cancels
  <2>3. CASE Items!StopReturns(t) \/ Items!StopSettles(t)
    BY <2>3, ItemsStopEnds, ItemsStopsOver
  <2>4. CASE Items!PollReturns(t) \/ Items!PollStops(t) \/ Items!PollSettles(t)
    BY <2>4, ItemsPollReturns, ItemsPollStops, ItemsPollSettles
  <2> QED
    BY <1>4, <2>1, <2>2, <2>3, <2>4 DEF Items!Resumes
<1>5. ASSUME NEW k \in 1..MaxStops, Items!StopRuns(k) PROVE ItemsInv'
  BY <1>5, ItemsStopRuns DEF Items!StopRuns
<1>6. CASE Items!PollRuns \/ Items!PollTimesOut
  BY <1>6, ItemsPollRuns
<1>7. CASE Items!EventComes \/ Items!SessionEnds
  BY <1>7, ItemsSession
<1> QED
  BY <1>1, <1>2, <1>3, <1>4, <1>5, <1>6, <1>7 DEF Items!Next

(* While the session runs its pool is open, a stop that failed is forgotten *)
(* when the task that awaits it goes on, and of the two threads one is free *)
(* for the next (_async_sessions.py:67-72, 226-237, 300-307).               *)
LEMMA ItemsCanBeStopped == ItemsInv => Items!CanBeStopped
<1> SUFFICES ASSUME ItemsInv, sync.state = "running" /\ facade.complete
             PROVE  Items!CanBeStopped
  BY DEF Items!CanBeStopped
<1>1. ~IsStopped /\ ~IsNew
  BY DEF IsStopped, IsNew
<1>2. ~facade.closed
  BY <1>1 DEF ItemsInv, ItemsClosed
<1>3. facade.stop = 0 \/ \E t \in Items!Tasks : task[t].stop = facade.stop
  BY <1>1, ItemsSets DEF ItemsInv, ItemsHeld
<1>4. Items!Busy \subseteq {facade.stop}
  BY DEF ItemsInv, ItemsOneStop, Items!Busy
<1>5. Cardinality(Items!Busy) \in Nat /\ Cardinality(Items!Busy) <= 1
  <2>1. IsFiniteSet({facade.stop}) /\ Cardinality({facade.stop}) = 1
    BY FS_Singleton
  <2> QED
    BY <1>4, <2>1, FS_Subset, FS_CardinalityType
<1>6. Items!Cardinality(Items!Busy) = Cardinality(Items!Busy)
  BY DEF Items!Cardinality, Cardinality
<1>7. Items!Cardinality(Items!Busy) + (IF future.poll = "busy" THEN 1 ELSE 0) <= Items!Threads
  BY <1>5, <1>6 DEF Items!Threads
<1> QED
  BY <1>2, <1>3, <1>7 DEF Items!CanBeStopped

(* No event is lost, repeated or reordered, whatever was cancelled          *)
(* (_async_sessions.py:76-79, 286-299).                                     *)
LEMMA ItemsEventsKept == ItemsInv => Items!EventsKept
<1> SUFFICES ASSUME ItemsInv PROVE Items!EventsKept
  OBVIOUS
<1>1. received \o facade.pending \o future.event \o sync.events = [i \in 1..sync.made |-> i]
  BY DEF ItemsInv, ItemsKept, Counted
<1>2. Len(facade.pending) <= 1
  <2>1. CASE facade.pending = <<>>
    BY <2>1
  <2>2. CASE facade.pending # <<>>
    <3>1. ItemsPending
      BY DEF ItemsInv
    <3>2. Len(facade.pending) = 1
      BY <2>2, <3>1 DEF ItemsPending
    <3> QED
      BY <3>2
  <2> QED
    BY <2>1, <2>2
<1> QED
  BY <1>1, <1>2 DEF Items!EventsKept

-----------------------------------------------------------------------------
(* SolareSession.  Where a thread is, or will be when the callback it is in *)
(* returns, and what it does there.                                         *)
doing == [t \in Solare!Finishers |-> IF pc[t] = "notify" THEN back[t] ELSE pc[t]]

Opens(t) == doing[t] = "open" \/ doing[t] = "launch" \/ doing[t] = "undo"
Handles(t) == doing[t] = "write" \/ doing[t] = "decode" \/ doing[t] = "decoded"
Loops(t) ==
    \/ doing[t] = "wait" \/ doing[t] = "loop" \/ doing[t] = "empty"
    \/ doing[t] = "service" \/ doing[t] = "check"
Closes(t) == doing[t] = "warn" \/ doing[t] = "finished" \/ doing[t] = "settle"
Empties(t) == doing[t] = "final" \/ doing[t] = "build" \/ Closes(t)
Finishes(t) == doing[t] = "release" \/ doing[t] = "drain" \/ Empties(t)
Gone == doing["worker"] = "absent" \/ doing["worker"] = "dead"

(* Every component of the state has its type.                               *)
SolThreads == Solare!Finishers \cup {"sniffer", "consumer"}
Returns ==
    {"idle", "check", "decode", "decoded", "service", "drain", "build", "finished", "settle"}
Verdicts == {None, "clean", "lossy"}
Kinds == {"ready", "traffic", "confirmed", "warning", "finished"}
PipeRecords ==
    [packets : Seq(Nat), updates : Seq(Kinds), writer : BOOLEAN, broken : BOOLEAN,
     overflow : BOOLEAN, gaps : BOOLEAN, warned : BOOLEAN, traffic : BOOLEAN]

SolCapture == Solare!CaptureTypeOK
SolSession ==
    session \in [attempted : BOOLEAN, started : BOOLEAN, requested : BOOLEAN,
                 stopped : BOOLEAN, ready : BOOLEAN, incomplete : BOOLEAN, failed : BOOLEAN,
                 reason : {None, "requested", "resource-limit", "error", "ended"}]
SolPipe == pipe \in PipeRecords /\ Len(pipe.updates) <= UpdateQueueSize
SolSnapshot ==
    snapshot \in [confirmed : BOOLEAN, latched : Verdicts,
                  result : {None, "complete", "incomplete"}]
SolPlaces ==
    /\ pc \in [SolThreads -> Solare!Labels]
    /\ back \in [Solare!Finishers -> Solare!Labels \cup {None}]
    /\ \A t \in Solare!Finishers : pc[t] = "notify" => back[t] \in Returns
SolLock == lock \in Solare!Finishers \cup {None}
SolHands == hand \in Nat /\ sent \in Nat /\ accepted \in Seq(Nat) /\ written \in Seq(Nat)
SolHistory ==
    finals \in Nat /\ finalSeen \in BOOLEAN /\ announced \in Verdicts /\ rawFailed \in BOOLEAN

(* The lock: who opens or finishes the session holds it, and who holds it   *)
(* does one of the two; a caller that finishes has seen the worker gone.    *)
SolLocked == \A t \in Solare!Finishers : Opens(t) \/ Finishes(t) => lock = t
SolHandling == \A t \in Solare!Callers : Handles(t) => lock = t
SolHolder == lock # None => Opens(lock) \/ Finishes(lock) \/ Handles(lock)
SolAlone ==
    \A t \in Solare!Callers : doing[t] = "lock" \/ Finishes(t) \/ Handles(t) => Gone

(* Before start, and before it has started.                                 *)
SolFresh ==
    ~session.attempted =>
        ~startAttempted /\ ~session.started /\ ~session.stopped /\ lock = None
SolIdle ==
    ~session.started =>
        /\ doing["stopper"] = "idle" /\ doing["worker"] = "absent"
        /\ doing["main"] = "idle" \/ Opens("main")
SolNew == ~session.started => ~pipe.writer /\ ~pipe.broken
SolOpening ==
    ~Opens("stopper") /\ ~Opens("worker") /\ (session.started => ~Opens("main"))
SolCallers == \A t \in Solare!Callers : ~Loops(t) /\ doing[t] # "absent" /\ doing[t] # "dead"
SolUnopened ==
    ~startAttempted =>
        /\ sniffer = "none" /\ ~socket /\ pipe.packets = <<>>
        /\ ~captureStarted /\ ~captureIncomplete /\ ~captureStopped

(* The capture: a callback runs on a live thread; a stopped capture has     *)
(* none; and past its stop, what finishes the session goes on in order.     *)
SolPut == pc["sniffer"] = "put" => sniffer = "alive"
SolReleased == captureStopped => sniffer # "alive" /\ ~socket
SolStopsFirst ==
    lock # None /\ (doing[lock] = "drain" \/ Empties(lock) \/ Handles(lock)) => captureStopped
SolDrained == lock # None /\ Empties(lock) => pipe.packets = <<>>
SolClosed == lock # None /\ Closes(lock) => ~pipe.writer
SolStopped ==
    session.stopped =>
        /\ lock = None /\ Gone /\ sniffer # "alive" /\ ~socket
        /\ ~pipe.writer /\ pipe.packets = <<>>
SolUnbroken == lock # "worker" /\ (Loops("worker") \/ Handles("worker")) => ~pipe.broken

(* The verdict: what is confirmed is latched once, and so announced.        *)
SolConfirmed ==
    /\ snapshot.confirmed => snapshot.latched # None
    /\ ~snapshot.confirmed => announced = None
    /\ snapshot.latched = announced
SolResult == snapshot.result # None => (snapshot.result = "complete" <=> announced = "clean")
SolDecided == snapshot.result # None => session.stopped \/ (lock # None /\ Closes(lock))
Settles == lock # None /\ doing[lock] = "settle"
SolOnce == finals # 0 => session.stopped \/ Settles
Kept == finalSeen \/ "finished" \in Solare!Range(pipe.updates)
SolFinal ==
    snapshot.result # None /\ (session.stopped \/ Settles) => finals = 1 /\ Kept

(* The raw file is open until the session closes it, and holds with what is *)
(* in hand and what is queued all that was accepted.                        *)
SolWriter ==
    SavePcap /\ ~rawFailed /\ session.started =>
        pipe.writer \/ session.stopped \/ (lock # None /\ Closes(lock))
Writes(t) == doing[t] = "write"
Writing == Writes("main") \/ Writes("stopper") \/ Writes("worker")
InHand == IF Writing THEN <<hand>> ELSE <<>>
SolRaw == SavePcap /\ ~rawFailed => (written \o InHand) \o pipe.packets = accepted

(* Who has the session in hand: one thread at a time.                       *)
Busy(t) == Opens(t) \/ Handles(t) \/ Loops(t) \/ Finishes(t)

SolControl ==
    /\ SolLock /\ SolLocked /\ SolHandling /\ SolHolder /\ SolAlone
    /\ SolFresh /\ SolIdle /\ SolOpening /\ SolCallers

SolInv ==
    /\ SolCapture /\ SolSession /\ SolPipe /\ SolSnapshot /\ SolPlaces /\ SolHands /\ SolHistory
    /\ SolControl
    /\ SolNew /\ SolUnopened /\ SolPut /\ SolReleased
    /\ SolStopsFirst /\ SolDrained /\ SolClosed /\ SolStopped /\ SolUnbroken
    /\ SolConfirmed /\ SolResult /\ SolDecided /\ SolOnce /\ SolFinal
    /\ SolWriter /\ SolRaw

(* The threads, and what the constants allow.                               *)
LEMMA SolSets ==
    /\ Solare!Finishers = {"main", "stopper", "worker"} /\ Solare!Callers = {"main", "stopper"}
    /\ SolThreads = {"main", "stopper", "worker", "sniffer", "consumer"}
    /\ None # "main" /\ None # "stopper" /\ None # "worker"
    /\ None # "complete" /\ None # "incomplete" /\ None # "clean" /\ None # "lossy"
    /\ UpdateQueueSize \in Nat \ {0}
BY SessionsConstants DEF Solare!SolareConstants, Solare!Finishers, Solare!Callers, SolThreads

(* What a label is not.                                                     *)
LEMMA SolAt ==
    ASSUME NEW t \in Solare!Finishers, pc[t] # "notify"
    PROVE  doing[t] = pc[t]
BY DEF doing

(* Thread t goes on at a label, now or when its callback returns; the       *)
(* others stay where they are.                                              *)
SolMoves(t, l) ==
    /\ SolPlaces' /\ pc'["sniffer"] = pc["sniffer"] /\ doing'[t] = l
    /\ \A u \in Solare!Finishers : u # t => doing'[u] = doing[u]

(* A thread that goes to a label moves, and no other.                       *)
LEMMA SolGoto ==
    ASSUME SolPlaces, NEW t \in Solare!Finishers, NEW l \in Solare!Labels, l # "notify",
           pc' = [pc EXCEPT ![t] = l], back' = back
    PROVE  SolMoves(t, l)
<1>1. /\ t \in SolThreads /\ "sniffer" \in SolThreads /\ t # "sniffer"
      /\ Solare!Finishers \subseteq SolThreads
  BY SolSets
<1>2. SolPlaces' /\ pc'["sniffer"] = pc["sniffer"]
  BY <1>1 DEF SolPlaces
<1>3. pc'[t] = l /\ \A u \in Solare!Finishers : u # t => pc'[u] = pc[u]
  BY <1>1 DEF SolPlaces
<1> QED
  BY <1>2, <1>3 DEF SolMoves, doing

(* One that goes into a callback will be where the callback returns to.     *)
LEMMA SolCallback ==
    ASSUME SolPlaces, NEW t \in Solare!Finishers, NEW l \in Returns,
           pc' = [pc EXCEPT ![t] = "notify"], back' = [back EXCEPT ![t] = l]
    PROVE  SolMoves(t, l)
<1>1. /\ t \in SolThreads /\ "sniffer" \in SolThreads /\ t # "sniffer"
      /\ Solare!Finishers \subseteq SolThreads
  BY SolSets
<1>2. l \in Solare!Labels /\ "notify" \in Solare!Labels
  BY DEF Returns, Solare!Labels
<1>3. /\ pc' \in [SolThreads -> Solare!Labels]
      /\ back' \in [Solare!Finishers -> Solare!Labels \cup {None}]
      /\ pc'["sniffer"] = pc["sniffer"]
  BY <1>1, <1>2 DEF SolPlaces
<1>4. /\ pc'[t] = "notify" /\ \A u \in Solare!Finishers : u # t => pc'[u] = pc[u]
      /\ back'[t] = l /\ \A u \in Solare!Finishers : u # t => back'[u] = back[u]
  BY <1>1 DEF SolPlaces
<1>5. \A u \in Solare!Finishers : pc'[u] = "notify" => back'[u] \in Returns
  BY <1>4 DEF SolPlaces
<1> QED
  BY <1>3, <1>4, <1>5 DEF SolMoves, SolPlaces, doing

(* A callback that returns was already where it returns to.                 *)
LEMMA SolReturns ==
    ASSUME SolPlaces, NEW t \in Solare!Finishers, pc[t] = "notify",
           pc' = [pc EXCEPT ![t] = back[t]], back' = back
    PROVE  SolPlaces' /\ pc'["sniffer"] = pc["sniffer"] /\ doing' = doing
<1>1. /\ t \in SolThreads /\ "sniffer" \in SolThreads /\ t # "sniffer"
      /\ Solare!Finishers \subseteq SolThreads
  BY SolSets
<1>2. back[t] \in Returns /\ back[t] \in Solare!Labels /\ back[t] # "notify"
  BY DEF SolPlaces, Returns, Solare!Labels
<1>3. SolPlaces' /\ pc'["sniffer"] = pc["sniffer"]
  BY <1>1, <1>2 DEF SolPlaces
<1>4. pc'[t] = back[t] /\ \A u \in Solare!Finishers : u # t => pc'[u] = pc[u]
  BY <1>1, <1>2 DEF SolPlaces
<1>5. \A u \in Solare!Finishers : doing'[u] = doing[u]
  BY <1>2, <1>4 DEF doing
<1> QED
  BY <1>3, <1>5 DEF doing

(* The largest of one and a number.                                         *)
LEMMA SolMax ==
    ASSUME NEW n \in Int
    PROVE  Solare!Max({1, n}) = IF n > 1 THEN n ELSE 1
<1> DEFINE m == IF n > 1 THEN n ELSE 1
<1>1. m \in {1, n} /\ \A y \in {1, n} : m >= y
  OBVIOUS
<1>2. \A x \in {1, n} : (\A y \in {1, n} : x >= y) => x = m
  OBVIOUS
<1> QED
  BY <1>1, <1>2 DEF Solare!Max

(* The bounded queue keeps its bound, and the update that was just put.     *)
LEMMA SolQueued ==
    ASSUME NEW u \in Seq(Kinds), NEW kind \in Kinds
    PROVE  /\ Solare!Queued(u, kind) \in Seq(Kinds)
           /\ Len(Solare!Queued(u, kind)) <= UpdateQueueSize
           /\ kind \in Solare!Range(Solare!Queued(u, kind))
<1> DEFINE all == Append(u, kind)
           n == Len(all)
           m == IF n - UpdateQueueSize + 1 > 1 THEN n - UpdateQueueSize + 1 ELSE 1
<1>1. all \in Seq(Kinds) /\ n = Len(all) /\ n \in Nat /\ n >= 1 /\ all[n] = kind
  OBVIOUS
<1>k. UpdateQueueSize \in Nat /\ UpdateQueueSize >= 1
  BY SolSets
<1>2. Solare!Queued(u, kind) = SubSeq(all, m, n)
  <2>1. n - UpdateQueueSize + 1 \in Int
    BY <1>1, <1>k
  <2>2. Solare!Max({1, n - UpdateQueueSize + 1}) = m
    BY <2>1, SolMax
  <2> QED
    BY <2>2 DEF Solare!Queued
<1> HIDE DEF all, n
<1>3. m \in 1..n /\ n - m + 1 <= UpdateQueueSize /\ n - m + 1 \in 1..n /\ m \in Int /\ n \in Int
  BY <1>1, <1>k
<1>4. \A i \in m..n : all[i] \in Kinds
  BY <1>1, <1>3
<1> HIDE DEF m
<1>5. /\ SubSeq(all, m, n) \in Seq(Kinds) /\ Len(SubSeq(all, m, n)) = n - m + 1
      /\ SubSeq(all, m, n)[n - m + 1] = all[m + (n - m + 1) - 1]
  BY <1>1, <1>3, <1>4
<1>6. SubSeq(all, m, n)[n - m + 1] = kind
  BY <1>1, <1>3, <1>5
<1>7. n - m + 1 \in DOMAIN SubSeq(all, m, n)
  BY <1>3, <1>5
<1> QED
  BY <1>2, <1>3, <1>5, <1>6, <1>7 DEF Solare!Range

(* A shutdown of the capture leaves less of it, and all of it while a       *)
(* callback runs.                                                           *)
CaptureGoes ==
    /\ SolCapture' /\ startAttempted' = startAttempted /\ captureStarted' = captureStarted
    /\ captureStopped => captureStopped'
    /\ sniffer' = "alive" => sniffer = "alive"
    /\ socket' => socket
    /\ captureStopped' => sniffer' # "alive" /\ ~socket'
    /\ pc["sniffer"] = "put" => sniffer' = sniffer
    /\ ~startAttempted => UNCHANGED Solare!captureVars

(* StopAttempt is such a shutdown.                                          *)
LEMMA SolStopAttempt ==
    ASSUME SolInv, Solare!StopAttempt
    PROVE  CaptureGoes
<1> USE DEF SolInv, SolCapture, Solare!CaptureTypeOK
<1>1. CASE UNCHANGED Solare!captureVars
  BY <1>1 DEF CaptureGoes, Solare!captureVars, SolReleased
<1>2. CASE Solare!CaptureStop(pc["sniffer"] = "put")
  <2>1. startAttempted
    BY <1>2 DEF Solare!CaptureStop, SolUnopened
  <2>2. PICK threadLeft \in BOOLEAN, socketLeft \in BOOLEAN, failed \in BOOLEAN :
           /\ Solare!ShutdownOutcome(threadLeft, socketLeft, pc["sniffer"] = "put")
           /\ Solare!ShutdownBackend(threadLeft, socketLeft, failed)
    BY <1>2 DEF Solare!CaptureStop
  <2>3. /\ startAttempted' = startAttempted /\ captureStarted' = captureStarted
        /\ ~captureStopped
    BY <1>2 DEF Solare!CaptureStop
  <2> QED
    BY <2>1, <2>2, <2>3, SolSets DEF CaptureGoes, Solare!ShutdownOutcome, Solare!ShutdownBackend
<1> QED
  BY <1>1, <1>2 DEF Solare!StopAttempt

(* One thread has the session in hand: it holds the lock, or is the worker  *)
(* in its loop.                                                             *)
LEMMA SolSole ==
    ASSUME SolInv, NEW t \in Solare!Finishers, Busy(t)
    PROVE  /\ ~session.stopped
           /\ lock = t \/ (t = "worker" /\ lock = None /\ ~Opens(t) /\ ~Finishes(t))
           /\ \A u \in Solare!Finishers : u # t => ~Busy(u)
           /\ ~Gone \/ t # "worker"
<1> USE SolSets
<1>1. SolLocked /\ SolHandling /\ SolHolder /\ SolAlone /\ SolIdle /\ SolOpening /\ SolCallers
      /\ SolLock /\ SolStopped
  BY DEF SolInv, SolControl
<1>2. Busy("worker") => ~Gone
  BY DEF Busy, Gone, Opens, Handles, Loops, Finishes, Empties, Closes
<1>3. ASSUME lock # None
      PROVE  lock \in Solare!Finishers /\ (Opens(lock) \/ Finishes(lock) \/ Handles(lock))
  BY <1>1, <1>3 DEF SolLock, SolHolder
<1>4. \A c \in Solare!Callers : Opens(c) \/ Finishes(c) \/ Handles(c) => Gone /\ lock = c
  BY <1>1 DEF SolLocked, SolHandling, SolAlone, SolOpening, SolIdle, Gone
<1>5. \A c \in Solare!Callers : Busy(c) => Opens(c) \/ Finishes(c) \/ Handles(c)
  BY <1>1 DEF SolCallers, Busy
<1>6. Opens("worker") \/ Finishes("worker") => lock = "worker"
  BY <1>1 DEF SolLocked
<1>7. ~Opens("worker")
  BY <1>1 DEF SolOpening
<1>8. CASE t = "worker"
  <2>1. ~Gone
    BY <1>2, <1>8
  <2>2. \A c \in Solare!Callers : ~Busy(c) /\ lock # c
    <3>1. \A c \in Solare!Callers : ~Busy(c)
      BY <1>4, <1>5, <2>1
    <3>2. \A c \in Solare!Callers : lock # c
      BY <1>3, <3>1 DEF Busy
    <3> QED
      BY <3>1, <3>2
  <2>3. lock = "worker" \/ lock = None
    BY <1>1, <2>2 DEF SolLock
  <2>4. ~session.stopped
    BY <1>1, <2>1 DEF SolStopped
  <2> QED
    BY <1>6, <1>7, <1>8, <2>1, <2>2, <2>3, <2>4
<1>9. CASE t \in Solare!Callers
  <2>1. Gone /\ lock = t
    BY <1>4, <1>5, <1>9
  <2>2. ~session.stopped
    BY <1>1, <1>9, <2>1 DEF SolStopped
  <2>3. ~Busy("worker")
    BY <1>2, <2>1
  <2>4. \A c \in Solare!Callers : c # t => ~Busy(c)
    BY <1>4, <1>5, <2>1
  <2> QED
    BY <1>9, <2>1, <2>2, <2>3, <2>4
<1> QED
  BY <1>8, <1>9

(* The flags of the session that only a start and an end set.               *)
SolFlags ==
    /\ SolSession' /\ session'.attempted = session.attempted
    /\ session'.started = session.started /\ session'.stopped = session.stopped

(* A busy thread that goes on keeps what it has in hand.                    *)
SolGoesOn(t) ==
    \/ lock = t /\ (Opens(t) <=> Opens(t)') /\ (Opens(t)' \/ Handles(t)' \/ Finishes(t)')
    \/ lock # t /\ t = "worker" /\ (Loops(t)' \/ Handles(t)' \/ doing'[t] = "lock")

(* So it goes on alone.                                                     *)
LEMMA SolGoing ==
    ASSUME SolInv, NEW t \in Solare!Finishers, NEW l, Busy(t), SolMoves(t, l), SolGoesOn(t),
           SolFlags, lock' = lock
    PROVE  /\ SolControl'
           /\ ~session'.stopped
           /\ lock = t \/ (t = "worker" /\ lock = None)
           /\ \A u \in Solare!Finishers : u # t => ~Busy(u) /\ ~Busy(u)' /\ doing'[u] = doing[u]
           /\ (Writing <=> Writes(t)) /\ (Writing' <=> Writes(t)')
           /\ t # "worker" => ~Loops("worker")' /\ ~Handles("worker")'
<1> USE SolSets
<1>1. /\ ~session.stopped
      /\ lock = t \/ (t = "worker" /\ lock = None /\ ~Opens(t) /\ ~Finishes(t))
      /\ \A u \in Solare!Finishers : u # t => ~Busy(u)
      /\ ~Gone \/ t # "worker"
  BY SolSole
<1>2. /\ SolLocked /\ SolHandling /\ SolHolder /\ SolAlone /\ SolFresh /\ SolIdle /\ SolOpening
      /\ SolCallers /\ SolLock
  BY DEF SolInv, SolControl
<1>3. \A u \in Solare!Finishers : u # t => doing'[u] = doing[u]
  BY DEF SolMoves
<1>4. \A u \in Solare!Finishers : u # t => ~Busy(u)'
  BY <1>1, <1>3 DEF Busy, Opens, Handles, Loops, Finishes, Empties, Closes
<1>5. Opens(t)' => Opens(t)
  BY <1>1 DEF SolGoesOn, Opens, Loops, Handles
<1>6. t # "worker" => Gone /\ Gone'
  <2>1. t # "worker" => Gone
    BY <1>1, <1>2 DEF Busy, SolAlone, SolOpening, SolIdle, Gone, SolCallers
  <2> QED
    BY <1>3, <2>1 DEF Gone
<1>7. SolLock' /\ SolHolder'
  BY <1>1, <1>2 DEF SolLock, SolHolder, SolGoesOn
<1>8. SolLocked' /\ SolHandling'
  <2> SUFFICES ASSUME NEW u \in Solare!Finishers
               PROVE  /\ (Opens(u) \/ Finishes(u) => lock = u)'
                      /\ u \in Solare!Callers => (Handles(u) => lock = u)'
    BY DEF SolLocked, SolHandling
  <2>1. CASE u # t
    BY <1>4, <2>1 DEF Busy
  <2>2. CASE u = t
    BY <1>1, <2>2 DEF SolGoesOn, Opens, Handles, Loops, Finishes, Empties, Closes
  <2> QED
    BY <2>1, <2>2
<1>9. SolAlone'
  <2>1. CASE t = "worker"
    <3>1. \A c \in Solare!Callers : doing'[c] # "lock"
      BY <1>1, <1>2, <1>3, <2>1 DEF SolAlone
    <3>2. \A c \in Solare!Callers : ~Busy(c)'
      BY <1>4, <2>1
    <3> QED
      BY <3>1, <3>2 DEF SolAlone, Busy
  <2>2. CASE t # "worker"
    BY <1>6, <2>2 DEF SolAlone
  <2> QED
    BY <2>1, <2>2
<1>10. SolFresh' /\ SolOpening'
  <2>1. session.attempted
    BY <1>1, <1>2 DEF SolFresh, SolIdle, Busy, Opens, Handles, Loops, Finishes, Empties, Closes,
       SolGoesOn
  <2>2. ~Opens("stopper")' /\ ~Opens("worker")' /\ (session'.started => ~Opens("main")')
    BY <1>2, <1>3, <1>5 DEF SolOpening, SolFlags, Opens
  <2> QED
    BY <2>1, <2>2 DEF SolFresh, SolOpening, SolFlags
<1>11. SolIdle'
  BY <1>1, <1>2, <1>3 DEF SolIdle, SolFlags, SolGoesOn, Opens, Handles, Loops, Finishes, Empties,
     Closes, Busy
<1>12. SolCallers'
  BY <1>1, <1>2, <1>3, <1>4 DEF SolCallers, SolGoesOn, Opens, Handles, Loops, Finishes, Empties,
     Closes, Busy
<1>13. /\ Writing <=> Writes(t)
       /\ Writing' <=> Writes(t)'
  BY <1>1, <1>4 DEF Writing, Writes, Busy, Handles
<1>14. t # "worker" => ~Loops("worker")' /\ ~Handles("worker")'
  BY <1>4 DEF Busy
<1> QED
  BY <1>1, <1>3, <1>4, <1>7, <1>8, <1>9, <1>10, <1>11, <1>12, <1>13, <1>14
  DEF SolControl, SolFlags

(* What is in hand.                                                         *)
LEMMA SolHandIs ==
    /\ InHand = IF Writing THEN <<hand>> ELSE <<>>
    /\ InHand' = IF Writing' THEN <<hand'>> ELSE <<>>
BY DEF InHand

(* It is the same while no thread moves.                                    *)
LEMMA SolHandKept ==
    ASSUME doing' = doing, hand' = hand
    PROVE  InHand' = InHand
BY DEF InHand, Writing, Writes

(* The raw file: nothing moves, a packet is taken, written, or accepted.    *)
LEMMA SolRawKept ==
    ASSUME SolRaw, InHand' = InHand, pipe'.packets = pipe.packets, written' = written,
           accepted' = accepted, rawFailed' = rawFailed
    PROVE  SolRaw'
BY DEF SolRaw

(* Sequences: the first of one is the last of another, or one more comes.   *)
LEMMA TakeOne ==
    ASSUME NEW s \in Seq(Nat), NEW v \in Seq(Nat), v # <<>>
    PROVE  (s \o <<Head(v)>>) \o Tail(v) = s \o v
BY SMTT(30), TakeFirst

(* One more at the end.                                                     *)
LEMMA PutLast ==
    ASSUME NEW s \in Seq(Nat), NEW v \in Seq(Nat), NEW x \in Nat
    PROVE  s \o Append(v, x) = Append(s \o v, x)
OBVIOUS

(* A packet goes from the queue to the hand.                                *)
LEMMA SolRawTakes ==
    ASSUME SolRaw, written \in Seq(Nat), pipe.packets \in Seq(Nat), pipe.packets # <<>>,
           ~Writing, Writing', hand' = Head(pipe.packets),
           pipe'.packets = Tail(pipe.packets), written' = written,
           accepted' = accepted, rawFailed' = rawFailed
    PROVE  SolRaw'
<1>1. SavePcap /\ ~rawFailed => (written \o <<>>) \o pipe.packets = accepted
  BY SolHandIs DEF SolRaw
<1>2. written \o <<>> = written
  OBVIOUS
<1>3. (written \o <<Head(pipe.packets)>>) \o Tail(pipe.packets) = written \o pipe.packets
  BY TakeOne
<1> QED
  BY <1>1, <1>2, <1>3, SolHandIs DEF SolRaw

(* From the hand to the file.                                               *)
LEMMA SolRawWrites ==
    ASSUME SolRaw, written \in Seq(Nat), hand \in Nat, Writing, ~Writing',
           SavePcap /\ ~rawFailed => pipe.writer,
           written' = IF pipe.writer THEN Append(written, hand) ELSE written,
           pipe' = pipe, accepted' = accepted, rawFailed' = rawFailed
    PROVE  SolRaw'
<1>1. SavePcap /\ ~rawFailed => (written \o <<hand>>) \o pipe.packets = accepted
  BY SolHandIs DEF SolRaw
<1>2. written \o <<hand>> = Append(written, hand) /\ Append(written, hand) \in Seq(Nat)
  OBVIOUS
<1>3. Append(written, hand) \o <<>> = Append(written, hand)
  BY <1>2
<1> QED
  BY <1>1, <1>2, <1>3, SolHandIs DEF SolRaw

(* And from the wire to the queue.                                          *)
LEMMA SolRawPuts ==
    ASSUME SolRaw, written \in Seq(Nat), InHand \in Seq(Nat), pipe.packets \in Seq(Nat),
           NEW x \in Nat, InHand' = InHand, pipe'.packets = Append(pipe.packets, x),
           written' = written, accepted' = Append(accepted, x), rawFailed' = rawFailed
    PROVE  SolRaw'
<1> DEFINE s == written \o InHand
<1>1. SavePcap /\ ~rawFailed => s \o pipe.packets = accepted
  BY DEF SolRaw
<1>2. s \in Seq(Nat)
  OBVIOUS
<1>3. SavePcap /\ ~rawFailed => s \o pipe'.packets = accepted'
  <2> HIDE DEF s
  <2>1. s \o Append(pipe.packets, x) = Append(s \o pipe.packets, x)
    BY <1>2, PutLast
  <2> QED
    BY <1>1, <2>1
<1> QED
  BY <1>3 DEF SolRaw

(* A caller that waits, or asks to finish, disturbs no one.                 *)
LEMMA SolResting ==
    ASSUME SolInv, NEW t \in Solare!Callers, NEW l, ~Busy(t), SolMoves(t, l), ~Busy(t)',
           l = "lock" => Gone, l # "absent" /\ l # "dead", session.started,
           SolFlags, lock' = lock, startAttempted' = startAttempted
    PROVE  /\ SolControl'
           /\ lock # None => doing'[lock] = doing[lock]
           /\ doing'["worker"] = doing["worker"]
           /\ Writing' <=> Writing
<1> USE SolSets
<1>1. t # "worker" /\ lock # t
  BY DEF SolInv, SolControl, SolHolder, Busy
<1>2. \A u \in Solare!Finishers : u # t => doing'[u] = doing[u]
  BY DEF SolMoves
<1>3. doing'["worker"] = doing["worker"] /\ (Gone <=> Gone')
  BY <1>1, <1>2 DEF Gone
<1>4. lock # None => doing'[lock] = doing[lock]
  BY <1>1, <1>2 DEF SolInv, SolControl, SolLock
<1>5. ~Writes(t) /\ ~Writes(t)'
  BY DEF Busy, Handles, Writes
<1>6. Writing' <=> Writing
  BY <1>2, <1>5 DEF Writing, Writes
<1>7. /\ ~Opens(t)' /\ ~Finishes(t)' /\ ~Handles(t)' /\ ~Loops(t)' /\ doing'[t] = l
  BY DEF Busy, SolMoves
<1>8. \A u \in Solare!Finishers : u # t =>
         /\ Opens(u)' <=> Opens(u)
         /\ Finishes(u)' <=> Finishes(u)
         /\ Handles(u)' <=> Handles(u)
         /\ Loops(u)' <=> Loops(u)
  BY <1>2 DEF Opens, Finishes, Empties, Closes, Handles, Loops
<1>9. SolLock' /\ SolLocked' /\ SolHandling' /\ SolHolder'
  BY <1>1, <1>7, <1>8 DEF SolInv, SolControl, SolLock, SolLocked, SolHandling, SolHolder
<1>10. SolAlone'
  BY <1>2, <1>3, <1>7, <1>8 DEF SolInv, SolControl, SolAlone
<1>11. SolFresh' /\ SolIdle'
  BY DEF SolInv, SolControl, SolFresh, SolIdle, SolFlags
<1>12. SolOpening'
  BY <1>1, <1>7, <1>8 DEF SolInv, SolControl, SolOpening, SolFlags
<1>13. SolCallers'
  BY <1>2, <1>7, <1>8 DEF SolInv, SolControl, SolCallers
<1> QED
  BY <1>3, <1>4, <1>6, <1>9, <1>10, <1>11, <1>12, <1>13 DEF SolControl

(* A thread that has finished, or has to give up, leaves nobody in hand.    *)
LEMMA SolLeaving ==
    ASSUME SolInv, NEW t \in Solare!Finishers, Finishes(t), lock' = None,
           SolMoves(t, IF t = "worker" THEN "dead" ELSE "idle"),
           SolSession', session'.attempted = session.attempted,
           session'.started = session.started, session'.stopped \in BOOLEAN,
           startAttempted' = startAttempted, ~session'.stopped \/ session.started
    PROVE  /\ SolControl' /\ lock = t /\ ~session.stopped /\ session.started
           /\ Gone' /\ \A u \in Solare!Finishers : ~Busy(u)'
           /\ Writing' = Writing /\ ~Writing
<1> USE SolSets
<1>1. Busy(t)
  BY DEF Busy
<1>2. /\ ~session.stopped /\ lock = t
      /\ \A u \in Solare!Finishers : u # t => ~Busy(u)
  BY <1>1, SolSole DEF SolInv, SolControl, SolLocked
<1>3. \A u \in Solare!Finishers : u # t => doing'[u] = doing[u]
  BY DEF SolMoves
<1>4. session.started
  BY <1>1 DEF SolInv, SolControl, SolIdle, Finishes, Empties, Closes, Opens
<1>5. Gone'
  <2>1. CASE t = "worker"
    BY <2>1 DEF SolMoves, Gone
  <2>2. CASE t # "worker"
    BY <1>3, <2>2 DEF SolInv, SolControl, SolAlone, Gone
  <2> QED
    BY <2>1, <2>2
<1>6. doing'[t] = IF t = "worker" THEN "dead" ELSE "idle"
  BY DEF SolMoves
<1>7. ~Busy(t)'
  BY <1>6 DEF Busy, Opens, Finishes, Empties, Closes, Handles, Loops
<1>8. \A u \in Solare!Finishers : ~Busy(u)'
  BY <1>2, <1>3, <1>7 DEF Busy, Opens, Finishes, Empties, Closes, Handles, Loops
<1>9. Writing' = Writing /\ ~Writing
  <2>1. ~Writing
    BY <1>2 DEF Writing, Writes, Busy, Handles, Finishes, Empties, Closes
  <2>2. ~Writing'
    BY <1>8 DEF Writing, Writes, Busy, Handles
  <2> QED
    BY <2>1, <2>2 DEF Writing, Writes
<1>10. SolLock' /\ SolLocked' /\ SolHandling' /\ SolHolder'
  BY <1>8 DEF SolLock, SolLocked, SolHandling, SolHolder, Busy
<1>11. SolAlone' /\ SolFresh' /\ SolIdle'
  BY <1>4, <1>5 DEF SolInv, SolControl, SolAlone, SolFresh, SolIdle
<1>12. SolOpening' /\ SolCallers'
  <2>1. SolOpening'
    BY <1>8 DEF SolOpening, Busy
  <2>2. SolCallers'
    BY <1>3, <1>6, <1>8 DEF SolInv, SolControl, SolCallers, Busy
  <2> QED
    BY <2>1, <2>2
<1> QED
  BY <1>2, <1>4, <1>5, <1>8, <1>9, <1>10, <1>11, <1>12 DEF SolControl

(* Who finishes has found the session started.                              *)
LEMMA SolStarted ==
    ASSUME SolInv, NEW t \in Solare!Finishers, Finishes(t)
    PROVE  session.started
BY SolSets DEF SolInv, SolControl, SolIdle, Finishes, Empties, Closes, Opens

(* A thread that takes the lock to finish is then alone.                    *)
LEMMA SolEntering ==
    ASSUME SolInv, NEW t \in Solare!Finishers, doing[t] = "lock", lock = None,
           SolMoves(t, "release"), SolFlags, lock' = t, startAttempted' = startAttempted
    PROVE  /\ SolControl' /\ Writing' = Writing
           /\ t # "worker" => ~Loops("worker")' /\ ~Handles("worker")'
<1> USE SolSets
<1>1. \A u \in Solare!Finishers : u # t => doing'[u] = doing[u]
  BY DEF SolMoves
<1>2. doing'[t] = "release"
  BY DEF SolMoves
<1>3. t # "worker" => Gone /\ Gone'
  BY <1>1 DEF SolInv, SolControl, SolAlone, Gone
<1>4. \A u \in Solare!Finishers : ~Opens(u) /\ ~Finishes(u) /\ (u \in Solare!Callers => ~Handles(u))
  BY DEF SolInv, SolControl, SolLocked, SolHandling
<1>5. session.started
  BY DEF SolInv, SolControl, SolIdle, Opens
<1>6. \A u \in Solare!Finishers : u # t =>
         /\ ~Opens(u)' /\ ~Finishes(u)'
         /\ Handles(u)' <=> Handles(u)
         /\ Loops(u)' <=> Loops(u)
  BY <1>1, <1>4 DEF Opens, Finishes, Empties, Closes, Handles, Loops
<1>7. Finishes(t)' /\ ~Handles(t)' /\ ~Handles(t) /\ ~Loops(t)' /\ ~Opens(t)'
  BY <1>2 DEF Opens, Finishes, Empties, Closes, Handles, Loops
<1>8. Writing' = Writing
  BY <1>1, <1>2 DEF Writing, Writes
<1>9. SolLock' /\ SolLocked' /\ SolHandling' /\ SolHolder'
  BY <1>4, <1>6, <1>7 DEF SolLock, SolLocked, SolHandling, SolHolder
<1>10. SolAlone'
  <2>1. CASE t = "worker"
    <3>1. \A c \in Solare!Callers : doing'[c] # "lock"
      BY <1>1, <2>1 DEF SolInv, SolControl, SolAlone, Gone
    <3> QED
      BY <1>4, <1>6, <2>1, <3>1 DEF SolAlone
  <2>2. CASE t # "worker"
    BY <1>3, <2>2 DEF SolAlone
  <2> QED
    BY <2>1, <2>2
<1>11. SolFresh' /\ SolIdle'
  BY <1>5 DEF SolInv, SolControl, SolFresh, SolIdle, SolFlags
<1>12. SolOpening'
  BY <1>6, <1>7 DEF SolOpening
<1>13. SolCallers'
  BY <1>1, <1>2, <1>6, <1>7 DEF SolInv, SolControl, SolCallers
<1>14. t # "worker" => ~Loops("worker")' /\ ~Handles("worker")'
  BY <1>3 DEF Gone, Loops, Handles
<1> QED
  BY <1>8, <1>9, <1>10, <1>11, <1>12, <1>13, <1>14 DEF SolControl

(* What is in a queue is its first, or in the rest.                         *)
LEMMA SolRange ==
    ASSUME NEW s \in Seq(Kinds), s # <<>>, NEW k, k \in Solare!Range(s)
    PROVE  k = Head(s) \/ k \in Solare!Range(Tail(s))
<1>1. PICK i \in 1..Len(s) : k = s[i]
  BY DEF Solare!Range
<1>2. CASE i = 1
  BY <1>1, <1>2
<1>3. CASE i # 1
  <2>1. Tail(s) \in Seq(Kinds) /\ i - 1 \in 1..Len(Tail(s)) /\ Tail(s)[i - 1] = s[i]
    BY <1>3
  <2>2. DOMAIN Tail(s) = 1..Len(Tail(s))
    BY <2>1
  <2>3. Tail(s)[i - 1] \in Solare!Range(Tail(s))
    BY <2>1, <2>2 DEF Solare!Range
  <2> QED
    BY <1>1, <2>1, <2>3
<1> QED
  BY <1>2, <1>3

(* Where the decoder goes from here.                                        *)
Goal(t, l) ==
    \/ l = "decode" \/ l = "decoded" \/ l = "drain" \/ l = "service" \/ l = "check"
    \/ l = "lock" \/ (l = "build" /\ doing[t] = "final")

(* The verdict stays, or is given, latched and announced.                   *)
SolVerdict ==
    /\ SolSnapshot' /\ snapshot'.result = snapshot.result /\ announced' \in Verdicts
    /\ \/ /\ snapshot'.confirmed = snapshot.confirmed /\ snapshot'.latched = snapshot.latched
          /\ announced' = announced
       \/ snapshot'.confirmed /\ snapshot'.latched = announced' /\ announced' # None

(* A request, a callback that returns, a reader that looks.                 *)
LEMMA SolQuiet ==
    ASSUME SolInv,
           SolFlags,
           SolPlaces',
           doing' = doing,
           pc'["sniffer"] = pc["sniffer"],
           UNCHANGED <<Solare!captureVars, pipe, snapshot, lock, hand, sent, accepted, written,
                       finals, finalSeen, announced, rawFailed>>
    PROVE  SolInv'
<1>u. /\ startAttempted' = startAttempted /\ captureStarted' = captureStarted
      /\ captureStopped' = captureStopped /\ captureIncomplete' = captureIncomplete
      /\ sniffer' = sniffer /\ socket' = socket /\ captureError' = captureError
      /\ session'.attempted = session.attempted /\ session'.started = session.started
      /\ session'.stopped = session.stopped /\ pipe' = pipe /\ snapshot' = snapshot
      /\ lock' = lock /\ doing' = doing /\ pc["sniffer"]' = pc["sniffer"] /\ hand' = hand
      /\ sent' = sent /\ accepted' = accepted /\ written' = written /\ finals' = finals
      /\ finalSeen' = finalSeen /\ announced' = announced /\ rawFailed' = rawFailed
  BY DEF SolFlags, Solare!captureVars
<1>1. SolCapture' /\ SolPipe' /\ SolSnapshot' /\ SolHands'
  BY <1>u
  DEF SolInv, SolCapture, SolPipe, SolSnapshot, SolHands, Solare!CaptureTypeOK
<1>2. SolHistory' /\ SolControl' /\ SolNew' /\ SolUnopened'
  BY <1>u
  DEF SolInv, SolHistory, SolControl, SolNew, SolUnopened, SolLock, SolLocked, SolHandling,
      SolHolder, SolAlone, SolFresh, SolIdle, SolOpening, SolCallers, Opens, Handles, Loops,
      Finishes, Empties, Closes, Gone
<1>3. SolPut' /\ SolReleased' /\ SolStopsFirst' /\ SolDrained'
  BY <1>u
  DEF SolInv, SolPut, SolReleased, SolStopsFirst, SolDrained, Empties, Closes, Handles
<1>4. SolClosed' /\ SolStopped' /\ SolUnbroken' /\ SolConfirmed'
  BY <1>u
  DEF SolInv, SolClosed, SolStopped, SolUnbroken, SolConfirmed, Closes, Gone, Loops, Handles
<1>5. SolResult' /\ SolDecided' /\ SolOnce' /\ SolFinal'
  BY <1>u
  DEF SolInv, SolResult, SolDecided, SolOnce, SolFinal, Closes, Settles, Kept
<1>6. SolWriter'
  BY <1>u
  DEF SolInv, SolWriter, Closes
<1>7. SolSession'
  BY DEF SolFlags
<1>8. SolPlaces'
  OBVIOUS
<1>9. SolRaw'
  BY <1>u, SolHandKept, SolRawKept DEF SolInv
<1> QED
  BY <1>1, <1>2, <1>3, <1>4, <1>5, <1>6, <1>7, <1>8, <1>9 DEF SolInv

(* A caller asks, joins, gives up, or finds that there is nothing to do.    *)
LEMMA SolCalls ==
    ASSUME SolInv,
           NEW t \in Solare!Callers,
           NEW l,
           ~Busy(t),
           SolMoves(t, l),
           ~Busy(t)',
           l = "lock" => Gone,
           l # "absent" /\ l # "dead",
           session.started,
           SolFlags,
           CaptureGoes,
           UNCHANGED <<startAttempted, pipe, snapshot, lock, hand, sent, accepted, written,
                       finals, finalSeen, announced, rawFailed>>
    PROVE  SolInv'
<1>c. /\ SolCapture' /\ startAttempted' = startAttempted /\ captureStarted' = captureStarted
      /\ captureStopped => captureStopped'
      /\ sniffer' = "alive" => sniffer = "alive"
      /\ socket' => socket
      /\ captureStopped' => sniffer' # "alive" /\ ~socket'
      /\ pc["sniffer"] = "put" => sniffer' = sniffer
      /\ ~startAttempted => UNCHANGED Solare!captureVars
  BY DEF CaptureGoes
<1>m. SolPlaces' /\ t \in Solare!Finishers
  BY SolSets DEF SolMoves
<1>s. /\ SolControl' /\ lock' = lock
      /\ lock # None => doing'[lock] = doing[lock]
      /\ doing'["worker"] = doing["worker"]
      /\ Writing' <=> Writing
  BY <1>c, SolResting
<1>i. InHand' = InHand
  BY <1>s, SolHandIs
<1>u. /\ startAttempted' = startAttempted /\ session'.attempted = session.attempted
      /\ session'.started = session.started /\ session'.stopped = session.stopped
      /\ pipe' = pipe /\ snapshot' = snapshot /\ lock' = lock
      /\ pc["sniffer"]' = pc["sniffer"] /\ hand' = hand /\ sent' = sent
      /\ accepted' = accepted /\ written' = written /\ finals' = finals
      /\ finalSeen' = finalSeen /\ announced' = announced /\ rawFailed' = rawFailed
  BY DEF SolMoves, SolFlags, CaptureGoes
<1>1. SolPipe' /\ SolSnapshot' /\ SolHands' /\ SolHistory'
  BY <1>u
  DEF SolInv, SolPipe, SolSnapshot, SolHands, SolHistory
<1>2. SolNew' /\ SolConfirmed' /\ SolResult'
  BY <1>u
  DEF SolInv, SolNew, SolConfirmed, SolResult
<1>3. SolCapture'
  BY <1>c
<1>4. SolSession'
  BY DEF SolFlags
<1>5. SolPlaces'
  BY <1>m
<1>6. SolControl'
  BY <1>s
<1>7. SolUnopened'
  <2>1. CASE startAttempted
    BY <1>c, <2>1 DEF SolUnopened
  <2>2. CASE ~startAttempted
    BY <1>u, <1>c, <2>2 DEF SolInv, SolUnopened, Solare!captureVars
  <2> QED
    BY <2>1, <2>2
<1>8. SolPut'
  BY <1>u, <1>s, <1>c
  DEF SolInv, SolPut, Opens, Handles, Loops, Finishes, Empties, Closes, Gone, Settles, Writes
<1>9. SolReleased'
  BY <1>u, <1>s, <1>c
  DEF SolInv, SolReleased, Opens, Handles, Loops, Finishes, Empties, Closes, Gone, Settles,
      Writes
<1>10. SolStopsFirst'
  BY <1>u, <1>s, <1>c
  DEF SolInv, SolStopsFirst, Empties, Closes, Handles, Opens, Loops, Finishes, Gone, Settles,
      Writes
<1>11. SolDrained'
  BY <1>u, <1>s, <1>c
  DEF SolInv, SolDrained, Empties, Closes, Opens, Handles, Loops, Finishes, Gone, Settles,
      Writes
<1>12. SolClosed'
  BY <1>u, <1>s, <1>c
  DEF SolInv, SolClosed, Closes, Opens, Handles, Loops, Finishes, Empties, Gone, Settles, Writes
<1>13. SolStopped'
  BY <1>u, <1>s, <1>c
  DEF SolInv, SolStopped, Gone, Opens, Handles, Loops, Finishes, Empties, Closes, Settles,
      Writes
<1>14. SolUnbroken'
  BY <1>u, <1>s, <1>c
  DEF SolInv, SolUnbroken, Loops, Handles, Opens, Finishes, Empties, Closes, Gone, Settles,
      Writes
<1>15. SolDecided'
  BY <1>u, <1>s, <1>c
  DEF SolInv, SolDecided, Closes, Opens, Handles, Loops, Finishes, Empties, Gone, Settles,
      Writes
<1>16. SolOnce'
  BY <1>u, <1>s, <1>c
  DEF SolInv, SolOnce, Settles, Opens, Handles, Loops, Finishes, Empties, Closes, Gone, Writes
<1>17. SolFinal'
  BY <1>u, <1>s, <1>c
  DEF SolInv, SolFinal, Settles, Kept, Opens, Handles, Loops, Finishes, Empties, Closes, Gone,
      Writes
<1>18. SolWriter'
  BY <1>u, <1>s, <1>c
  DEF SolInv, SolWriter, Closes, Opens, Handles, Loops, Finishes, Empties, Gone, Settles, Writes
<1>19. SolRaw'
  BY <1>u, <1>i, SolRawKept DEF SolInv
<1> QED
  BY <1>1, <1>2, <1>3, <1>4, <1>5, <1>6, <1>7, <1>8, <1>9, <1>10, <1>11, <1>12, <1>13, <1>14,
      <1>15, <1>16, <1>17, <1>18, <1>19 DEF SolInv

(* The native callback has a packet.                                        *)
LEMMA SolArrives ==
    ASSUME SolInv,
           SolPlaces',
           doing' = doing,
           sniffer = "alive",
           sent' \in Nat,
           UNCHANGED <<Solare!captureVars, session, pipe, snapshot, lock, hand, accepted, written,
                       finals, finalSeen, announced, rawFailed>>
    PROVE  SolInv'
<1>u. /\ startAttempted' = startAttempted /\ captureStarted' = captureStarted
      /\ captureStopped' = captureStopped /\ captureIncomplete' = captureIncomplete
      /\ sniffer' = sniffer /\ socket' = socket /\ captureError' = captureError
      /\ session' = session /\ pipe' = pipe /\ snapshot' = snapshot /\ lock' = lock
      /\ doing' = doing /\ hand' = hand /\ accepted' = accepted /\ written' = written
      /\ finals' = finals /\ finalSeen' = finalSeen /\ announced' = announced
      /\ rawFailed' = rawFailed
  BY DEF Solare!captureVars
<1>1. SolCapture' /\ SolSession' /\ SolPipe' /\ SolSnapshot'
  BY <1>u
  DEF SolInv, SolCapture, SolSession, SolPipe, SolSnapshot, Solare!CaptureTypeOK
<1>2. SolHistory' /\ SolControl' /\ SolNew' /\ SolUnopened'
  BY <1>u
  DEF SolInv, SolHistory, SolControl, SolNew, SolUnopened, SolLock, SolLocked, SolHandling,
      SolHolder, SolAlone, SolFresh, SolIdle, SolOpening, SolCallers, Opens, Handles, Loops,
      Finishes, Empties, Closes, Gone
<1>3. SolReleased' /\ SolStopsFirst' /\ SolDrained' /\ SolClosed'
  BY <1>u
  DEF SolInv, SolReleased, SolStopsFirst, SolDrained, SolClosed, Empties, Closes, Handles
<1>4. SolStopped' /\ SolUnbroken' /\ SolConfirmed' /\ SolResult'
  BY <1>u
  DEF SolInv, SolStopped, SolUnbroken, SolConfirmed, SolResult, Gone, Loops, Handles
<1>5. SolDecided' /\ SolOnce' /\ SolFinal' /\ SolWriter'
  BY <1>u
  DEF SolInv, SolDecided, SolOnce, SolFinal, SolWriter, Closes, Settles, Kept
<1>6. SolPlaces'
  OBVIOUS
<1>7. SolHands'
  BY <1>u
  DEF SolInv, SolHands, Opens, Handles, Loops, Finishes, Empties, Closes, Gone, Settles, Writes
<1>8. SolPut'
  BY <1>u
  DEF SolInv, SolPut, Opens, Handles, Loops, Finishes, Empties, Closes, Gone, Settles, Writes
<1>9. SolRaw'
  BY <1>u, SolHandKept, SolRawKept DEF SolInv
<1> QED
  BY <1>1, <1>2, <1>3, <1>4, <1>5, <1>6, <1>7, <1>8, <1>9 DEF SolInv

(* It puts the packet in the queue.                                         *)
LEMMA SolPuts ==
    ASSUME SolInv,
           SolPlaces',
           doing' = doing,
           pc["sniffer"] = "put",
           pc'["sniffer"] # "put",
           pipe' = [pipe EXCEPT !.packets = Append(@, sent)],
           accepted' = Append(accepted, sent),
           UNCHANGED <<Solare!captureVars, session, snapshot, lock, hand, sent, written, finals,
                       finalSeen, announced, rawFailed>>
    PROVE  SolInv'
<1>a. /\ sniffer = "alive" /\ ~captureStopped /\ ~session.stopped /\ startAttempted
      /\ pipe.packets \in Seq(Nat) /\ sent \in Nat /\ Append(pipe.packets, sent) \in Seq(Nat)
      /\ accepted \in Seq(Nat) /\ Append(accepted, sent) \in Seq(Nat)
      /\ lock # None => ~Empties(lock)
  BY DEF SolInv, SolPut, SolReleased, SolStopped, SolUnopened, SolStopsFirst, SolPipe,
     PipeRecords, SolHands
<1>b. /\ SolPipe' /\ pipe'.packets = Append(pipe.packets, sent)
      /\ pipe'.updates = pipe.updates
      /\ pipe'.writer = pipe.writer /\ pipe'.broken = pipe.broken
  BY <1>a DEF SolInv, SolPipe, PipeRecords
<1>u. /\ startAttempted' = startAttempted /\ captureStarted' = captureStarted
      /\ captureStopped' = captureStopped /\ captureIncomplete' = captureIncomplete
      /\ sniffer' = sniffer /\ socket' = socket /\ captureError' = captureError
      /\ session' = session /\ pipe'.updates = pipe.updates /\ pipe'.writer = pipe.writer
      /\ pipe'.broken = pipe.broken /\ snapshot' = snapshot /\ lock' = lock /\ doing' = doing
      /\ hand' = hand /\ sent' = sent /\ written' = written /\ finals' = finals
      /\ finalSeen' = finalSeen /\ announced' = announced /\ rawFailed' = rawFailed
  BY <1>b
  DEF Solare!captureVars
<1>1. SolCapture' /\ SolSession' /\ SolSnapshot' /\ SolHistory'
  BY <1>u
  DEF SolInv, SolCapture, SolSession, SolSnapshot, SolHistory, Solare!CaptureTypeOK
<1>2. SolControl' /\ SolNew' /\ SolReleased' /\ SolStopsFirst'
  BY <1>u
  DEF SolInv, SolControl, SolNew, SolReleased, SolStopsFirst, SolLock, SolLocked, SolHandling,
      SolHolder, SolAlone, SolFresh, SolIdle, SolOpening, SolCallers, Opens, Handles, Loops,
      Finishes, Empties, Closes, Gone
<1>3. SolClosed' /\ SolUnbroken' /\ SolConfirmed' /\ SolResult'
  BY <1>u
  DEF SolInv, SolClosed, SolUnbroken, SolConfirmed, SolResult, Closes, Loops, Handles
<1>4. SolDecided' /\ SolOnce' /\ SolFinal' /\ SolWriter'
  BY <1>u
  DEF SolInv, SolDecided, SolOnce, SolFinal, SolWriter, Closes, Settles, Kept
<1>5. SolPipe'
  BY <1>u, <1>a, <1>b
  DEF SolInv, SolPipe, Opens, Handles, Loops, Finishes, Empties, Closes, Gone, Settles, Writes
<1>6. SolPlaces'
  OBVIOUS
<1>7. SolHands'
  BY <1>u, <1>a, <1>b
  DEF SolInv, SolHands, Opens, Handles, Loops, Finishes, Empties, Closes, Gone, Settles, Writes
<1>8. SolUnopened'
  BY <1>u, <1>a, <1>b
  DEF SolInv, SolUnopened, Opens, Handles, Loops, Finishes, Empties, Closes, Gone, Settles,
      Writes
<1>9. SolPut'
  BY <1>u, <1>a, <1>b
  DEF SolInv, SolPut, Opens, Handles, Loops, Finishes, Empties, Closes, Gone, Settles, Writes
<1>10. SolDrained'
  BY <1>u, <1>a, <1>b
  DEF SolInv, SolDrained, Empties, Closes, Opens, Handles, Loops, Finishes, Gone, Settles,
      Writes
<1>11. SolStopped'
  BY <1>u, <1>a, <1>b
  DEF SolInv, SolStopped, Gone, Opens, Handles, Loops, Finishes, Empties, Closes, Settles,
      Writes
<1>12. SolRaw'
  <2>1. InHand' = InHand
    BY <1>u, SolHandKept
  <2>2. InHand \in Seq(Nat) /\ written \in Seq(Nat)
    <3>1. hand \in Nat /\ written \in Seq(Nat)
      BY DEF SolInv, SolHands
    <3>2. <<hand>> \in Seq(Nat) /\ <<>> \in Seq(Nat)
      BY <3>1
    <3> QED
      BY <3>1, <3>2, SolHandIs
  <2>3. SolRaw
    BY DEF SolInv
  <2> QED
    BY <1>u, <1>a, <1>b, <2>1, <2>2, <2>3, SolRawPuts
<1> QED
  BY <1>1, <1>2, <1>3, <1>4, <1>5, <1>6, <1>7, <1>8, <1>9, <1>10, <1>11, <1>12 DEF SolInv

(* There is no room for it, and the session is asked to end.                *)
LEMMA SolOverflows ==
    ASSUME SolInv,
           SolPlaces',
           doing' = doing,
           pc'["sniffer"] # "put",
           SolFlags,
           pipe' = [pipe EXCEPT !.overflow = TRUE],
           UNCHANGED <<Solare!captureVars, snapshot, lock, hand, sent, accepted, written, finals,
                       finalSeen, announced, rawFailed>>
    PROVE  SolInv'
<1>b. /\ SolPipe' /\ pipe'.packets = pipe.packets /\ pipe'.updates = pipe.updates
      /\ pipe'.writer = pipe.writer /\ pipe'.broken = pipe.broken
  BY DEF SolInv, SolPipe, PipeRecords
<1>u. /\ startAttempted' = startAttempted /\ captureStarted' = captureStarted
      /\ captureStopped' = captureStopped /\ captureIncomplete' = captureIncomplete
      /\ sniffer' = sniffer /\ socket' = socket /\ captureError' = captureError
      /\ session'.attempted = session.attempted /\ session'.started = session.started
      /\ session'.stopped = session.stopped /\ pipe'.packets = pipe.packets
      /\ pipe'.updates = pipe.updates /\ pipe'.writer = pipe.writer
      /\ pipe'.broken = pipe.broken /\ snapshot' = snapshot /\ lock' = lock /\ doing' = doing
      /\ hand' = hand /\ sent' = sent /\ accepted' = accepted /\ written' = written
      /\ finals' = finals /\ finalSeen' = finalSeen /\ announced' = announced
      /\ rawFailed' = rawFailed
  BY <1>b
  DEF Solare!captureVars, SolFlags
<1>1. SolCapture' /\ SolSnapshot' /\ SolHands' /\ SolHistory'
  BY <1>u
  DEF SolInv, SolCapture, SolSnapshot, SolHands, SolHistory, Solare!CaptureTypeOK
<1>2. SolControl' /\ SolNew' /\ SolUnopened' /\ SolReleased'
  BY <1>u
  DEF SolInv, SolControl, SolNew, SolUnopened, SolReleased, SolLock, SolLocked, SolHandling,
      SolHolder, SolAlone, SolFresh, SolIdle, SolOpening, SolCallers, Opens, Handles, Loops,
      Finishes, Empties, Closes, Gone
<1>3. SolStopsFirst' /\ SolDrained' /\ SolClosed' /\ SolStopped'
  BY <1>u
  DEF SolInv, SolStopsFirst, SolDrained, SolClosed, SolStopped, Empties, Closes, Handles, Gone
<1>4. SolUnbroken' /\ SolConfirmed' /\ SolResult' /\ SolDecided'
  BY <1>u
  DEF SolInv, SolUnbroken, SolConfirmed, SolResult, SolDecided, Loops, Handles, Closes
<1>5. SolOnce' /\ SolFinal' /\ SolWriter'
  BY <1>u
  DEF SolInv, SolOnce, SolFinal, SolWriter, Settles, Kept, Closes
<1>6. SolSession'
  BY DEF SolFlags
<1>7. SolPipe'
  BY <1>u, <1>b
  DEF SolInv, SolPipe, Opens, Handles, Loops, Finishes, Empties, Closes, Gone, Settles, Writes
<1>8. SolPlaces'
  OBVIOUS
<1>9. SolPut'
  BY <1>u, <1>b
  DEF SolInv, SolPut, Opens, Handles, Loops, Finishes, Empties, Closes, Gone, Settles, Writes
<1>10. SolRaw'
  BY <1>u, <1>b, SolHandKept, SolRawKept DEF SolInv
<1> QED
  BY <1>1, <1>2, <1>3, <1>4, <1>5, <1>6, <1>7, <1>8, <1>9, <1>10 DEF SolInv

(* The backend ends by itself.                                              *)
LEMMA SolEnds ==
    ASSUME SolInv,
           Solare!CaptureEnds,
           pc["sniffer"] = "idle",
           UNCHANGED <<session, pipe, snapshot, lock, pc, back, hand, sent, accepted, written,
                       finals, finalSeen, announced, rawFailed>>
    PROVE  SolInv'
<1>a. /\ sniffer = "alive" /\ sniffer' = "dead" /\ captureError' \in BOOLEAN
      /\ pc["sniffer"] # "put" /\ startAttempted
  BY DEF SolInv, SolCapture, Solare!CaptureTypeOK, SolUnopened, Solare!CaptureEnds
<1>u. /\ startAttempted' = startAttempted /\ captureStarted' = captureStarted
      /\ captureStopped' = captureStopped /\ captureIncomplete' = captureIncomplete
      /\ socket' = socket /\ session' = session /\ pipe' = pipe /\ snapshot' = snapshot
      /\ lock' = lock /\ pc' = pc /\ back' = back /\ doing' = doing /\ hand' = hand
      /\ sent' = sent /\ accepted' = accepted /\ written' = written /\ finals' = finals
      /\ finalSeen' = finalSeen /\ announced' = announced /\ rawFailed' = rawFailed
  BY DEF Solare!CaptureEnds, doing
<1>1. SolSession' /\ SolPipe' /\ SolSnapshot' /\ SolPlaces'
  BY <1>u
  DEF SolInv, SolSession, SolPipe, SolSnapshot, SolPlaces
<1>2. SolHands' /\ SolHistory' /\ SolControl' /\ SolNew'
  BY <1>u
  DEF SolInv, SolHands, SolHistory, SolControl, SolNew, SolLock, SolLocked, SolHandling,
      SolHolder, SolAlone, SolFresh, SolIdle, SolOpening, SolCallers, Opens, Handles, Loops,
      Finishes, Empties, Closes, Gone
<1>3. SolStopsFirst' /\ SolDrained' /\ SolClosed' /\ SolUnbroken'
  BY <1>u
  DEF SolInv, SolStopsFirst, SolDrained, SolClosed, SolUnbroken, Empties, Closes, Handles, Loops
<1>4. SolConfirmed' /\ SolResult' /\ SolDecided' /\ SolOnce'
  BY <1>u
  DEF SolInv, SolConfirmed, SolResult, SolDecided, SolOnce, Closes, Settles
<1>5. SolFinal' /\ SolWriter'
  BY <1>u
  DEF SolInv, SolFinal, SolWriter, Settles, Kept, Closes
<1>6. SolCapture'
  BY <1>u, <1>a
  DEF SolInv, SolCapture, Solare!CaptureTypeOK, Opens, Handles, Loops, Finishes, Empties, Closes,
      Gone, Settles, Writes
<1>7. SolUnopened'
  BY <1>u, <1>a
  DEF SolInv, SolUnopened, Opens, Handles, Loops, Finishes, Empties, Closes, Gone, Settles,
      Writes
<1>8. SolPut'
  BY <1>u, <1>a
  DEF SolInv, SolPut, Opens, Handles, Loops, Finishes, Empties, Closes, Gone, Settles, Writes
<1>9. SolReleased'
  BY <1>u, <1>a
  DEF SolInv, SolReleased, Opens, Handles, Loops, Finishes, Empties, Closes, Gone, Settles,
      Writes
<1>10. SolStopped'
  BY <1>u, <1>a
  DEF SolInv, SolStopped, Gone, Opens, Handles, Loops, Finishes, Empties, Closes, Settles,
      Writes
<1>11. SolRaw'
  BY <1>u, SolHandKept, SolRawKept DEF SolInv
<1> QED
  BY <1>1, <1>2, <1>3, <1>4, <1>5, <1>6, <1>7, <1>8, <1>9, <1>10, <1>11 DEF SolInv

(* The reader takes an update.                                              *)
LEMMA SolPolls ==
    ASSUME SolInv,
           SolPlaces',
           doing' = doing,
           pipe.updates # <<>>,
           pipe' = [pipe EXCEPT !.updates = Tail(@)],
           finalSeen' = (finalSeen \/ Head(pipe.updates) = "finished"),
           pc["sniffer"]' = pc["sniffer"],
           UNCHANGED <<Solare!captureVars, session, snapshot, lock, hand, sent, accepted, written,
                       finals, announced, rawFailed>>
    PROVE  SolInv'
<1>a. /\ pipe.updates \in Seq(Kinds) /\ Tail(pipe.updates) \in Seq(Kinds)
      /\ Len(Tail(pipe.updates)) <= UpdateQueueSize
  BY SolSets DEF SolInv, SolPipe, PipeRecords
<1>b. /\ SolPipe' /\ pipe'.packets = pipe.packets /\ pipe'.updates = Tail(pipe.updates)
      /\ pipe'.writer = pipe.writer /\ pipe'.broken = pipe.broken
  BY <1>a DEF SolInv, SolPipe, PipeRecords
<1>u. /\ startAttempted' = startAttempted /\ captureStarted' = captureStarted
      /\ captureStopped' = captureStopped /\ captureIncomplete' = captureIncomplete
      /\ sniffer' = sniffer /\ socket' = socket /\ captureError' = captureError
      /\ session' = session /\ pipe'.packets = pipe.packets /\ pipe'.writer = pipe.writer
      /\ pipe'.broken = pipe.broken /\ snapshot' = snapshot /\ lock' = lock /\ doing' = doing
      /\ pc["sniffer"]' = pc["sniffer"] /\ hand' = hand /\ sent' = sent
      /\ accepted' = accepted /\ written' = written /\ finals' = finals
      /\ announced' = announced /\ rawFailed' = rawFailed
  BY <1>b
  DEF Solare!captureVars
<1>1. SolCapture' /\ SolSession' /\ SolSnapshot' /\ SolHands'
  BY <1>u
  DEF SolInv, SolCapture, SolSession, SolSnapshot, SolHands, Solare!CaptureTypeOK
<1>2. SolControl' /\ SolNew' /\ SolUnopened' /\ SolPut'
  BY <1>u
  DEF SolInv, SolControl, SolNew, SolUnopened, SolPut, SolLock, SolLocked, SolHandling,
      SolHolder, SolAlone, SolFresh, SolIdle, SolOpening, SolCallers, Opens, Handles, Loops,
      Finishes, Empties, Closes, Gone
<1>3. SolReleased' /\ SolStopsFirst' /\ SolDrained' /\ SolClosed'
  BY <1>u
  DEF SolInv, SolReleased, SolStopsFirst, SolDrained, SolClosed, Empties, Closes, Handles
<1>4. SolStopped' /\ SolUnbroken' /\ SolConfirmed' /\ SolResult'
  BY <1>u
  DEF SolInv, SolStopped, SolUnbroken, SolConfirmed, SolResult, Gone, Loops, Handles
<1>5. SolDecided' /\ SolOnce' /\ SolWriter'
  BY <1>u
  DEF SolInv, SolDecided, SolOnce, SolWriter, Closes, Settles
<1>6. SolPipe'
  BY <1>b
<1>7. SolPlaces'
  OBVIOUS
<1>8. SolHistory'
  BY <1>u, <1>a, <1>b
  DEF SolInv, SolHistory, Opens, Handles, Loops, Finishes, Empties, Closes, Gone, Settles,
      Writes
<1>9. SolFinal'
  <2>1. Kept => Kept'
    BY <1>a, <1>b, SolRange DEF Kept
  <2> QED
    BY <1>u, <2>1 DEF SolInv, SolFinal, Settles
<1>10. SolRaw'
  BY <1>u, <1>b, SolHandKept, SolRawKept DEF SolInv
<1> QED
  BY <1>1, <1>2, <1>3, <1>4, <1>5, <1>6, <1>7, <1>8, <1>9, <1>10 DEF SolInv

(* start is called, once.                                                   *)
LEMMA SolStarts ==
    ASSUME SolInv,
           ~session.attempted,
           lock = None,
           SolMoves("main", "open"),
           lock' = "main",
           SolSession' /\ session'.attempted,
           session'.started = session.started,
           session'.stopped = session.stopped,
           UNCHANGED <<Solare!captureVars, pipe, snapshot, hand, sent, accepted, written, finals,
                       finalSeen, announced, rawFailed>>
    PROVE  SolInv'
<1>a. /\ ~startAttempted /\ ~session.started /\ ~session.stopped
      /\ doing["stopper"] = "idle" /\ doing["worker"] = "absent"
      /\ doing["main"] = "idle" \/ Opens("main")
  BY DEF SolInv, SolControl, SolFresh, SolIdle
<1>m. /\ SolPlaces' /\ doing'["main"] = "open"
      /\ doing'["stopper"] = "idle" /\ doing'["worker"] = "absent"
  BY <1>a, SolSets DEF SolMoves
<1>w. ~Writing /\ ~Writing'
  BY <1>a, <1>m DEF Writing, Writes, Opens
<1>i. InHand' = InHand
  BY <1>w, SolHandIs
<1>u. /\ startAttempted' = startAttempted /\ captureStarted' = captureStarted
      /\ captureStopped' = captureStopped /\ captureIncomplete' = captureIncomplete
      /\ sniffer' = sniffer /\ socket' = socket /\ captureError' = captureError
      /\ session'.started = session.started /\ session'.stopped = session.stopped
      /\ pipe' = pipe /\ snapshot' = snapshot /\ pc["sniffer"]' = pc["sniffer"]
      /\ hand' = hand /\ sent' = sent /\ accepted' = accepted /\ written' = written
      /\ finals' = finals /\ finalSeen' = finalSeen /\ announced' = announced
      /\ rawFailed' = rawFailed
  BY DEF SolMoves, Solare!captureVars
<1>1. SolCapture' /\ SolPipe' /\ SolSnapshot' /\ SolHands'
  BY <1>u
  DEF SolInv, SolCapture, SolPipe, SolSnapshot, SolHands, Solare!CaptureTypeOK
<1>2. SolHistory' /\ SolNew' /\ SolUnopened' /\ SolPut'
  BY <1>u
  DEF SolInv, SolHistory, SolNew, SolUnopened, SolPut
<1>3. SolReleased' /\ SolConfirmed' /\ SolResult'
  BY <1>u
  DEF SolInv, SolReleased, SolConfirmed, SolResult
<1>4. SolSession'
  OBVIOUS
<1>5. SolPlaces'
  BY <1>m
<1>6. SolControl'
  BY <1>u, <1>a, <1>m, SolSets
  DEF SolInv, SolControl, SolLock, SolLocked, SolHandling, SolHolder, SolAlone, SolFresh,
      SolIdle, SolOpening, SolCallers, Opens, Handles, Loops, Finishes, Empties, Closes, Gone,
      Settles, Writes
<1>7. SolStopsFirst'
  BY <1>u, <1>a, <1>m, SolSets
  DEF SolInv, SolStopsFirst, Empties, Closes, Handles, Opens, Loops, Finishes, Gone, Settles,
      Writes
<1>8. SolDrained'
  BY <1>u, <1>a, <1>m, SolSets
  DEF SolInv, SolDrained, Empties, Closes, Opens, Handles, Loops, Finishes, Gone, Settles,
      Writes
<1>9. SolClosed'
  BY <1>u, <1>a, <1>m, SolSets
  DEF SolInv, SolClosed, Closes, Opens, Handles, Loops, Finishes, Empties, Gone, Settles, Writes
<1>10. SolStopped'
  BY <1>u, <1>a, <1>m, SolSets
  DEF SolInv, SolStopped, Gone, Opens, Handles, Loops, Finishes, Empties, Closes, Settles,
      Writes
<1>11. SolUnbroken'
  BY <1>u, <1>a, <1>m, SolSets
  DEF SolInv, SolUnbroken, Loops, Handles, Opens, Finishes, Empties, Closes, Gone, Settles,
      Writes
<1>12. SolDecided'
  BY <1>u, <1>a, <1>m, SolSets
  DEF SolInv, SolDecided, Closes, Opens, Handles, Loops, Finishes, Empties, Gone, Settles,
      Writes
<1>13. SolOnce'
  BY <1>u, <1>a, <1>m, SolSets
  DEF SolInv, SolOnce, Settles, Opens, Handles, Loops, Finishes, Empties, Closes, Gone, Writes
<1>14. SolFinal'
  BY <1>u, <1>a, <1>m, SolSets
  DEF SolInv, SolFinal, Settles, Kept, Opens, Handles, Loops, Finishes, Empties, Closes, Gone,
      Writes
<1>15. SolWriter'
  BY <1>u, <1>a, <1>m, SolSets
  DEF SolInv, SolWriter, Closes, Opens, Handles, Loops, Finishes, Empties, Gone, Settles, Writes
<1>16. SolRaw'
  BY <1>u, <1>i, SolRawKept DEF SolInv
<1> QED
  BY <1>1, <1>2, <1>3, <1>4, <1>5, <1>6, <1>7, <1>8, <1>9, <1>10, <1>11, <1>12, <1>13, <1>14,
      <1>15, <1>16 DEF SolInv

(* A save path that cannot be used ends the session at once.                *)
LEMMA SolStartFails ==
    ASSUME SolInv,
           ~session.attempted,
           lock = None,
           SolSession' /\ session'.attempted /\ session'.stopped,
           session'.started = session.started,
           UNCHANGED <<Solare!captureVars, pipe, snapshot, lock, pc, back, hand, sent, accepted,
                       written, finals, finalSeen, announced, rawFailed>>
    PROVE  SolInv'
<1>a. /\ ~startAttempted /\ ~session.started /\ ~session.stopped /\ lock = None
      /\ doing["stopper"] = "idle" /\ doing["worker"] = "absent"
      /\ doing["main"] = "idle" \/ Opens("main")
  BY DEF SolInv, SolControl, SolFresh, SolIdle
<1>b. /\ sniffer # "alive" /\ ~socket /\ pipe.packets = <<>> /\ ~pipe.writer
      /\ snapshot.result = None /\ finals = 0
  BY <1>a DEF SolInv, SolUnopened, SolNew, SolDecided, SolOnce, Settles
<1>u. /\ startAttempted' = startAttempted /\ captureStarted' = captureStarted
      /\ captureStopped' = captureStopped /\ captureIncomplete' = captureIncomplete
      /\ sniffer' = sniffer /\ socket' = socket /\ captureError' = captureError
      /\ session'.started = session.started /\ pipe' = pipe /\ snapshot' = snapshot
      /\ lock' = lock /\ pc' = pc /\ back' = back /\ doing' = doing /\ hand' = hand
      /\ sent' = sent /\ accepted' = accepted /\ written' = written /\ finals' = finals
      /\ finalSeen' = finalSeen /\ announced' = announced /\ rawFailed' = rawFailed
  BY DEF Solare!captureVars, doing
<1>1. SolCapture' /\ SolPipe' /\ SolSnapshot' /\ SolPlaces'
  BY <1>u
  DEF SolInv, SolCapture, SolPipe, SolSnapshot, SolPlaces, Solare!CaptureTypeOK
<1>2. SolHands' /\ SolHistory' /\ SolNew' /\ SolUnopened'
  BY <1>u
  DEF SolInv, SolHands, SolHistory, SolNew, SolUnopened
<1>3. SolPut' /\ SolReleased' /\ SolStopsFirst' /\ SolDrained'
  BY <1>u
  DEF SolInv, SolPut, SolReleased, SolStopsFirst, SolDrained, Empties, Closes, Handles
<1>4. SolClosed' /\ SolUnbroken' /\ SolConfirmed' /\ SolResult'
  BY <1>u
  DEF SolInv, SolClosed, SolUnbroken, SolConfirmed, SolResult, Closes, Loops, Handles
<1>5. SolSession'
  OBVIOUS
<1>6. SolControl'
  BY <1>u, <1>a
  DEF SolInv, SolControl, SolLock, SolLocked, SolHandling, SolHolder, SolAlone, SolFresh,
      SolIdle, SolOpening, SolCallers, Opens, Handles, Loops, Finishes, Empties, Closes, Gone,
      Settles, Writes
<1>7. SolStopped'
  BY <1>u, <1>a, <1>b
  DEF SolInv, SolStopped, Gone, Opens, Handles, Loops, Finishes, Empties, Closes, Settles,
      Writes
<1>8. SolDecided'
  BY <1>u, <1>a, <1>b
  DEF SolInv, SolDecided, Closes, Opens, Handles, Loops, Finishes, Empties, Gone, Settles,
      Writes
<1>9. SolOnce'
  BY <1>u, <1>a, <1>b
  DEF SolInv, SolOnce, Settles, Opens, Handles, Loops, Finishes, Empties, Closes, Gone, Writes
<1>10. SolFinal'
  BY <1>u, <1>a, <1>b
  DEF SolInv, SolFinal, Settles, Kept, Opens, Handles, Loops, Finishes, Empties, Closes, Gone,
      Writes
<1>11. SolWriter'
  BY <1>u, <1>a
  DEF SolInv, SolWriter, Closes, Opens, Handles, Loops, Finishes, Empties, Gone, Settles, Writes
<1>12. SolRaw'
  BY <1>u, SolHandKept, SolRawKept DEF SolInv
<1> QED
  BY <1>1, <1>2, <1>3, <1>4, <1>5, <1>6, <1>7, <1>8, <1>9, <1>10, <1>11, <1>12 DEF SolInv

(* The worker begins: the session has started.                              *)
LEMMA SolLaunches ==
    ASSUME SolInv,
           doing["main"] = "launch",
           SolPlaces' /\ pc'["sniffer"] = pc["sniffer"],
           doing'["main"] = "idle" /\ doing'["worker"] = "wait",
           doing'["stopper"] = doing["stopper"],
           lock' = None,
           SolSession' /\ session'.started,
           session'.attempted = session.attempted,
           session'.stopped = session.stopped,
           SolPipe' /\ pipe'.packets = pipe.packets,
           pipe'.writer = SavePcap /\ pipe'.broken = pipe.broken,
           UNCHANGED <<Solare!captureVars, snapshot, hand, sent, accepted, written, finals,
                       finalSeen, announced, rawFailed>>
    PROVE  SolInv'
<1>a. /\ ~session.started /\ ~session.stopped /\ lock = "main" /\ session.attempted
      /\ doing["stopper"] = "idle" /\ doing["worker"] = "absent"
      /\ ~pipe.writer /\ ~pipe.broken
  BY SolSole, SolSets DEF SolInv, SolControl, SolFresh, SolIdle, SolOpening, SolNew, SolLocked,
     Busy, Opens
<1>m. /\ SolPlaces' /\ doing'["main"] = "idle"
      /\ doing'["stopper"] = "idle" /\ doing'["worker"] = "wait"
  BY <1>a, SolSets
<1>w. ~Writing /\ ~Writing'
  BY <1>a, <1>m DEF Writing, Writes
<1>i. InHand' = InHand
  BY <1>w, SolHandIs
<1>r. snapshot.result = None /\ finals = 0
  BY <1>a, SolSets DEF SolInv, SolDecided, SolOnce, Settles, Closes
<1>b. /\ SolPipe' /\ pipe'.packets = pipe.packets
      /\ pipe'.writer = SavePcap /\ pipe'.broken = pipe.broken
  OBVIOUS
<1>u. /\ startAttempted' = startAttempted /\ captureStarted' = captureStarted
      /\ captureStopped' = captureStopped /\ captureIncomplete' = captureIncomplete
      /\ sniffer' = sniffer /\ socket' = socket /\ captureError' = captureError
      /\ session'.attempted = session.attempted /\ session'.stopped = session.stopped
      /\ pipe'.packets = pipe.packets /\ pipe'.broken = pipe.broken /\ snapshot' = snapshot
      /\ pc["sniffer"]' = pc["sniffer"] /\ hand' = hand /\ sent' = sent
      /\ accepted' = accepted /\ written' = written /\ finals' = finals
      /\ finalSeen' = finalSeen /\ announced' = announced /\ rawFailed' = rawFailed
  BY DEF Solare!captureVars
<1>1. SolCapture' /\ SolSnapshot' /\ SolHands'
  BY <1>u
  DEF SolInv, SolCapture, SolSnapshot, SolHands, Solare!CaptureTypeOK
<1>2. SolHistory' /\ SolUnopened' /\ SolPut'
  BY <1>u
  DEF SolInv, SolHistory, SolUnopened, SolPut
<1>3. SolReleased' /\ SolConfirmed' /\ SolResult'
  BY <1>u
  DEF SolInv, SolReleased, SolConfirmed, SolResult
<1>4. SolSession'
  OBVIOUS
<1>5. SolPipe'
  BY <1>b
<1>6. SolPlaces'
  BY <1>m
<1>7. SolControl'
  BY <1>u, <1>a, <1>m, <1>b, <1>r, SolSets
  DEF SolInv, SolControl, SolLock, SolLocked, SolHandling, SolHolder, SolAlone, SolFresh,
      SolIdle, SolOpening, SolCallers, Opens, Handles, Loops, Finishes, Empties, Closes, Gone,
      Settles, Writes
<1>8. SolNew'
  BY <1>u, <1>a, <1>m, <1>b, <1>r
  DEF SolInv, SolNew, Opens, Handles, Loops, Finishes, Empties, Closes, Gone, Settles, Writes
<1>9. SolStopsFirst'
  BY <1>u, <1>a, <1>m, <1>b, <1>r
  DEF SolInv, SolStopsFirst, Empties, Closes, Handles, Opens, Loops, Finishes, Gone, Settles,
      Writes
<1>10. SolDrained'
  BY <1>u, <1>a, <1>m, <1>b, <1>r
  DEF SolInv, SolDrained, Empties, Closes, Opens, Handles, Loops, Finishes, Gone, Settles,
      Writes
<1>11. SolClosed'
  BY <1>u, <1>a, <1>m, <1>b, <1>r
  DEF SolInv, SolClosed, Closes, Opens, Handles, Loops, Finishes, Empties, Gone, Settles, Writes
<1>12. SolStopped'
  BY <1>u, <1>a, <1>m, <1>b, <1>r
  DEF SolInv, SolStopped, Gone, Opens, Handles, Loops, Finishes, Empties, Closes, Settles,
      Writes
<1>13. SolUnbroken'
  BY <1>u, <1>a, <1>m, <1>b, <1>r
  DEF SolInv, SolUnbroken, Loops, Handles, Opens, Finishes, Empties, Closes, Gone, Settles,
      Writes
<1>14. SolDecided'
  BY <1>u, <1>a, <1>m, <1>b, <1>r
  DEF SolInv, SolDecided, Closes, Opens, Handles, Loops, Finishes, Empties, Gone, Settles,
      Writes
<1>15. SolOnce'
  BY <1>u, <1>a, <1>m, <1>b, <1>r
  DEF SolInv, SolOnce, Settles, Opens, Handles, Loops, Finishes, Empties, Closes, Gone, Writes
<1>16. SolFinal'
  BY <1>u, <1>a, <1>m, <1>b, <1>r
  DEF SolInv, SolFinal, Settles, Kept, Opens, Handles, Loops, Finishes, Empties, Closes, Gone,
      Writes
<1>17. SolWriter'
  BY <1>u, <1>a, <1>m, <1>b, <1>r
  DEF SolInv, SolWriter, Closes, Opens, Handles, Loops, Finishes, Empties, Gone, Settles, Writes
<1>18. SolRaw'
  BY <1>u, <1>b, <1>i, SolRawKept DEF SolInv
<1> QED
  BY <1>1, <1>2, <1>3, <1>4, <1>5, <1>6, <1>7, <1>8, <1>9, <1>10, <1>11, <1>12, <1>13, <1>14,
      <1>15, <1>16, <1>17, <1>18 DEF SolInv

(* The start that failed is undone.                                         *)
LEMMA SolUndone ==
    ASSUME SolInv,
           doing["main"] = "undo",
           SolMoves("main", "idle"),
           CaptureGoes,
           captureStopped',
           lock' = None,
           SolSession' /\ session'.stopped,
           session'.attempted = session.attempted,
           session'.started = session.started,
           pipe' = [pipe EXCEPT !.packets = <<>>],
           rawFailed',
           UNCHANGED <<startAttempted, snapshot, hand, sent, accepted, written, finals, finalSeen,
                       announced>>
    PROVE  SolInv'
<1>c. /\ SolCapture' /\ startAttempted' = startAttempted /\ captureStarted' = captureStarted
      /\ captureStopped => captureStopped'
      /\ sniffer' = "alive" => sniffer = "alive"
      /\ socket' => socket
      /\ captureStopped' => sniffer' # "alive" /\ ~socket'
      /\ pc["sniffer"] = "put" => sniffer' = sniffer
      /\ ~startAttempted => UNCHANGED Solare!captureVars
  BY DEF CaptureGoes
<1>a. /\ ~session.started /\ ~session.stopped /\ lock = "main" /\ session.attempted
      /\ doing["stopper"] = "idle" /\ doing["worker"] = "absent"
      /\ ~pipe.writer /\ ~pipe.broken
  BY SolSole, SolSets DEF SolInv, SolControl, SolFresh, SolIdle, SolOpening, SolNew, SolLocked,
     Busy, Opens
<1>m. /\ SolPlaces' /\ doing'["main"] = "idle"
      /\ doing'["stopper"] = "idle" /\ doing'["worker"] = "absent"
  BY <1>a, SolSets DEF SolMoves
<1>w. ~Writing /\ ~Writing'
  BY <1>a, <1>m DEF Writing, Writes
<1>i. InHand' = InHand
  BY <1>w, SolHandIs
<1>r. snapshot.result = None /\ finals = 0
  BY <1>a, SolSets DEF SolInv, SolDecided, SolOnce, Settles, Closes
<1>n. startAttempted
  BY <1>c DEF SolInv, SolUnopened, Solare!captureVars
<1>b. /\ SolPipe' /\ pipe'.packets = <<>> /\ pipe'.updates = pipe.updates
      /\ pipe'.writer = pipe.writer /\ pipe'.broken = pipe.broken
  <2>1. <<>> \in Seq(Nat)
    OBVIOUS
  <2> QED
    BY <2>1 DEF SolInv, SolPipe, PipeRecords
<1>u. /\ startAttempted' = startAttempted /\ session'.attempted = session.attempted
      /\ session'.started = session.started /\ pipe'.updates = pipe.updates
      /\ pipe'.writer = pipe.writer /\ pipe'.broken = pipe.broken /\ snapshot' = snapshot
      /\ pc["sniffer"]' = pc["sniffer"] /\ hand' = hand /\ sent' = sent
      /\ accepted' = accepted /\ written' = written /\ finals' = finals
      /\ finalSeen' = finalSeen /\ announced' = announced
  BY <1>b
  DEF CaptureGoes, SolMoves
<1>1. SolSnapshot' /\ SolHands' /\ SolNew'
  BY <1>u
  DEF SolInv, SolSnapshot, SolHands, SolNew
<1>2. SolConfirmed' /\ SolResult'
  BY <1>u
  DEF SolInv, SolConfirmed, SolResult
<1>3. SolCapture'
  BY <1>c
<1>4. SolSession'
  OBVIOUS
<1>5. SolPipe'
  BY <1>u, <1>a, <1>m, <1>b, <1>r, <1>c
  DEF SolInv, SolPipe, Opens, Handles, Loops, Finishes, Empties, Closes, Gone, Settles, Writes
<1>6. SolPlaces'
  BY <1>m
<1>7. SolHistory'
  BY <1>u, <1>a, <1>m, <1>b, <1>r, <1>c
  DEF SolInv, SolHistory, Opens, Handles, Loops, Finishes, Empties, Closes, Gone, Settles,
      Writes
<1>8. SolControl'
  BY <1>u, <1>a, <1>m, <1>b, <1>r, <1>c, SolSets
  DEF SolInv, SolControl, SolLock, SolLocked, SolHandling, SolHolder, SolAlone, SolFresh,
      SolIdle, SolOpening, SolCallers, Opens, Handles, Loops, Finishes, Empties, Closes, Gone,
      Settles, Writes
<1>9. SolUnopened'
  BY <1>c, <1>n DEF SolUnopened
<1>10. SolPut'
  BY <1>u, <1>a, <1>m, <1>b, <1>r, <1>c
  DEF SolInv, SolPut, Opens, Handles, Loops, Finishes, Empties, Closes, Gone, Settles, Writes
<1>11. SolReleased'
  BY <1>u, <1>a, <1>m, <1>b, <1>r, <1>c
  DEF SolInv, SolReleased, Opens, Handles, Loops, Finishes, Empties, Closes, Gone, Settles,
      Writes
<1>12. SolStopsFirst'
  BY <1>u, <1>a, <1>m, <1>b, <1>r, <1>c
  DEF SolInv, SolStopsFirst, Empties, Closes, Handles, Opens, Loops, Finishes, Gone, Settles,
      Writes
<1>13. SolDrained'
  BY <1>u, <1>a, <1>m, <1>b, <1>r, <1>c
  DEF SolInv, SolDrained, Empties, Closes, Opens, Handles, Loops, Finishes, Gone, Settles,
      Writes
<1>14. SolClosed'
  BY <1>u, <1>a, <1>m, <1>b, <1>r, <1>c
  DEF SolInv, SolClosed, Closes, Opens, Handles, Loops, Finishes, Empties, Gone, Settles, Writes
<1>15. SolStopped'
  BY <1>u, <1>a, <1>m, <1>b, <1>r, <1>c
  DEF SolInv, SolStopped, Gone, Opens, Handles, Loops, Finishes, Empties, Closes, Settles,
      Writes
<1>16. SolUnbroken'
  BY <1>u, <1>a, <1>m, <1>b, <1>r, <1>c
  DEF SolInv, SolUnbroken, Loops, Handles, Opens, Finishes, Empties, Closes, Gone, Settles,
      Writes
<1>17. SolDecided'
  BY <1>u, <1>a, <1>m, <1>b, <1>r, <1>c
  DEF SolInv, SolDecided, Closes, Opens, Handles, Loops, Finishes, Empties, Gone, Settles,
      Writes
<1>18. SolOnce'
  BY <1>u, <1>a, <1>m, <1>b, <1>r, <1>c
  DEF SolInv, SolOnce, Settles, Opens, Handles, Loops, Finishes, Empties, Closes, Gone, Writes
<1>19. SolFinal'
  BY <1>u, <1>a, <1>m, <1>b, <1>r, <1>c
  DEF SolInv, SolFinal, Settles, Kept, Opens, Handles, Loops, Finishes, Empties, Closes, Gone,
      Writes
<1>20. SolWriter'
  BY <1>u, <1>a, <1>m, <1>b, <1>r, <1>c
  DEF SolInv, SolWriter, Closes, Opens, Handles, Loops, Finishes, Empties, Gone, Settles, Writes
<1>21. SolRaw'
  BY DEF SolRaw
<1> QED
  BY <1>1, <1>2, <1>3, <1>4, <1>5, <1>6, <1>7, <1>8, <1>9, <1>10, <1>11, <1>12, <1>13, <1>14,
      <1>15, <1>16, <1>17, <1>18, <1>19, <1>20, <1>21 DEF SolInv

(* The start that failed keeps its capture for a later stop.                *)
LEMMA SolUndoKept ==
    ASSUME SolInv,
           doing["main"] = "undo",
           SolMoves("main", "idle"),
           CaptureGoes,
           lock' = None,
           SolSession' /\ session'.started,
           session'.attempted = session.attempted,
           session'.stopped = session.stopped,
           rawFailed',
           UNCHANGED <<startAttempted, pipe, snapshot, hand, sent, accepted, written, finals,
                       finalSeen, announced>>
    PROVE  SolInv'
<1>c. /\ SolCapture' /\ startAttempted' = startAttempted /\ captureStarted' = captureStarted
      /\ captureStopped => captureStopped'
      /\ sniffer' = "alive" => sniffer = "alive"
      /\ socket' => socket
      /\ captureStopped' => sniffer' # "alive" /\ ~socket'
      /\ pc["sniffer"] = "put" => sniffer' = sniffer
      /\ ~startAttempted => UNCHANGED Solare!captureVars
  BY DEF CaptureGoes
<1>a. /\ ~session.started /\ ~session.stopped /\ lock = "main" /\ session.attempted
      /\ doing["stopper"] = "idle" /\ doing["worker"] = "absent"
      /\ ~pipe.writer /\ ~pipe.broken
  BY SolSole, SolSets DEF SolInv, SolControl, SolFresh, SolIdle, SolOpening, SolNew, SolLocked,
     Busy, Opens
<1>m. /\ SolPlaces' /\ doing'["main"] = "idle"
      /\ doing'["stopper"] = "idle" /\ doing'["worker"] = "absent"
  BY <1>a, SolSets DEF SolMoves
<1>w. ~Writing /\ ~Writing'
  BY <1>a, <1>m DEF Writing, Writes
<1>i. InHand' = InHand
  BY <1>w, SolHandIs
<1>r. snapshot.result = None /\ finals = 0
  BY <1>a, SolSets DEF SolInv, SolDecided, SolOnce, Settles, Closes
<1>u. /\ startAttempted' = startAttempted /\ session'.attempted = session.attempted
      /\ session'.stopped = session.stopped /\ pipe' = pipe /\ snapshot' = snapshot
      /\ pc["sniffer"]' = pc["sniffer"] /\ hand' = hand /\ sent' = sent
      /\ accepted' = accepted /\ written' = written /\ finals' = finals
      /\ finalSeen' = finalSeen /\ announced' = announced
  BY DEF CaptureGoes, SolMoves
<1>1. SolPipe' /\ SolSnapshot' /\ SolHands'
  BY <1>u
  DEF SolInv, SolPipe, SolSnapshot, SolHands
<1>2. SolConfirmed' /\ SolResult'
  BY <1>u
  DEF SolInv, SolConfirmed, SolResult
<1>3. SolCapture'
  BY <1>c
<1>4. SolSession'
  OBVIOUS
<1>5. SolPlaces'
  BY <1>m
<1>6. SolHistory'
  BY <1>u, <1>a, <1>m, <1>r, <1>c
  DEF SolInv, SolHistory, Opens, Handles, Loops, Finishes, Empties, Closes, Gone, Settles,
      Writes
<1>7. SolControl'
  BY <1>u, <1>a, <1>m, <1>r, <1>c, SolSets
  DEF SolInv, SolControl, SolLock, SolLocked, SolHandling, SolHolder, SolAlone, SolFresh,
      SolIdle, SolOpening, SolCallers, Opens, Handles, Loops, Finishes, Empties, Closes, Gone,
      Settles, Writes
<1>8. SolNew'
  BY <1>u, <1>a, <1>m, <1>r, <1>c
  DEF SolInv, SolNew, Opens, Handles, Loops, Finishes, Empties, Closes, Gone, Settles, Writes
<1>9. SolUnopened'
  <2>1. CASE startAttempted
    BY <1>c, <2>1 DEF SolUnopened
  <2>2. CASE ~startAttempted
    BY <1>u, <1>c, <2>2 DEF SolInv, SolUnopened, Solare!captureVars
  <2> QED
    BY <2>1, <2>2
<1>10. SolPut'
  BY <1>u, <1>a, <1>m, <1>r, <1>c
  DEF SolInv, SolPut, Opens, Handles, Loops, Finishes, Empties, Closes, Gone, Settles, Writes
<1>11. SolReleased'
  BY <1>u, <1>a, <1>m, <1>r, <1>c
  DEF SolInv, SolReleased, Opens, Handles, Loops, Finishes, Empties, Closes, Gone, Settles,
      Writes
<1>12. SolStopsFirst'
  BY <1>u, <1>a, <1>m, <1>r, <1>c
  DEF SolInv, SolStopsFirst, Empties, Closes, Handles, Opens, Loops, Finishes, Gone, Settles,
      Writes
<1>13. SolDrained'
  BY <1>u, <1>a, <1>m, <1>r, <1>c
  DEF SolInv, SolDrained, Empties, Closes, Opens, Handles, Loops, Finishes, Gone, Settles,
      Writes
<1>14. SolClosed'
  BY <1>u, <1>a, <1>m, <1>r, <1>c
  DEF SolInv, SolClosed, Closes, Opens, Handles, Loops, Finishes, Empties, Gone, Settles, Writes
<1>15. SolStopped'
  BY <1>u, <1>a, <1>m, <1>r, <1>c
  DEF SolInv, SolStopped, Gone, Opens, Handles, Loops, Finishes, Empties, Closes, Settles,
      Writes
<1>16. SolUnbroken'
  BY <1>u, <1>a, <1>m, <1>r, <1>c
  DEF SolInv, SolUnbroken, Loops, Handles, Opens, Finishes, Empties, Closes, Gone, Settles,
      Writes
<1>17. SolDecided'
  BY <1>u, <1>a, <1>m, <1>r, <1>c
  DEF SolInv, SolDecided, Closes, Opens, Handles, Loops, Finishes, Empties, Gone, Settles,
      Writes
<1>18. SolOnce'
  BY <1>u, <1>a, <1>m, <1>r, <1>c
  DEF SolInv, SolOnce, Settles, Opens, Handles, Loops, Finishes, Empties, Closes, Gone, Writes
<1>19. SolFinal'
  BY <1>u, <1>a, <1>m, <1>r, <1>c
  DEF SolInv, SolFinal, Settles, Kept, Opens, Handles, Loops, Finishes, Empties, Closes, Gone,
      Writes
<1>20. SolWriter'
  BY <1>u, <1>a, <1>m, <1>r, <1>c
  DEF SolInv, SolWriter, Closes, Opens, Handles, Loops, Finishes, Empties, Gone, Settles, Writes
<1>21. SolRaw'
  BY DEF SolRaw
<1> QED
  BY <1>1, <1>2, <1>3, <1>4, <1>5, <1>6, <1>7, <1>8, <1>9, <1>10, <1>11, <1>12, <1>13, <1>14,
      <1>15, <1>16, <1>17, <1>18, <1>19, <1>20, <1>21 DEF SolInv

(* A capture that has not stopped stays for a later stop.                   *)
LEMMA SolGivesUp ==
    ASSUME SolInv,
           NEW t \in Solare!Finishers,
           Finishes(t),
           lock' = None,
           SolMoves(t, IF t = "worker" THEN "dead" ELSE "idle"),
           SolSession' /\ session'.attempted = session.attempted,
           session'.started = session.started,
           doing[t] = "release",
           CaptureGoes,
           session'.stopped = session.stopped,
           UNCHANGED <<startAttempted, pipe, snapshot, hand, sent, accepted, written, finals,
                       finalSeen, announced, rawFailed>>
    PROVE  SolInv'
<1>c. /\ SolCapture' /\ startAttempted' = startAttempted /\ captureStarted' = captureStarted
      /\ captureStopped => captureStopped'
      /\ sniffer' = "alive" => sniffer = "alive"
      /\ socket' => socket
      /\ captureStopped' => sniffer' # "alive" /\ ~socket'
      /\ pc["sniffer"] = "put" => sniffer' = sniffer
      /\ ~startAttempted => UNCHANGED Solare!captureVars
  BY DEF CaptureGoes
<1>f. session'.stopped \in BOOLEAN
  BY DEF SolSession
<1>s. /\ SolControl' /\ lock = t /\ ~session.stopped /\ session.started
      /\ Gone' /\ \A u \in Solare!Finishers : ~Busy(u)'
      /\ Writing' = Writing /\ ~Writing
  BY SolLeaving, <1>c, <1>f, SolStarted DEF SolInv
<1>m. SolPlaces' /\ lock # None /\ "worker" \in Solare!Finishers
  BY <1>s, SolSets DEF SolMoves
<1>w. ~Loops("worker")' /\ ~Handles("worker")'
  BY <1>s, <1>m DEF Busy
<1>i. InHand' = InHand
  BY <1>s, SolHandIs DEF Solare!captureVars
<1>u. /\ startAttempted' = startAttempted /\ session'.attempted = session.attempted
      /\ session'.started = session.started /\ session'.stopped = session.stopped
      /\ pipe' = pipe /\ snapshot' = snapshot /\ pc["sniffer"]' = pc["sniffer"]
      /\ hand' = hand /\ sent' = sent /\ accepted' = accepted /\ written' = written
      /\ finals' = finals /\ finalSeen' = finalSeen /\ announced' = announced
      /\ rawFailed' = rawFailed
  BY DEF CaptureGoes, SolMoves
<1>1. SolPipe' /\ SolSnapshot' /\ SolHands' /\ SolHistory'
  BY <1>u
  DEF SolInv, SolPipe, SolSnapshot, SolHands, SolHistory
<1>2. SolNew' /\ SolConfirmed' /\ SolResult'
  BY <1>u
  DEF SolInv, SolNew, SolConfirmed, SolResult
<1>3. SolCapture'
  BY <1>c
<1>4. SolSession'
  OBVIOUS
<1>5. SolPlaces'
  BY <1>m
<1>6. SolControl'
  BY <1>s
<1>7. SolUnopened'
  <2>1. CASE startAttempted
    BY <1>c, <2>1 DEF SolUnopened
  <2>2. CASE ~startAttempted
    BY <1>u, <1>c, <2>2 DEF SolInv, SolUnopened, Solare!captureVars
  <2> QED
    BY <2>1, <2>2
<1>8. SolPut'
  BY <1>u, <1>s, <1>m, <1>c
  DEF SolInv, SolPut
<1>9. SolReleased'
  BY <1>u, <1>s, <1>m, <1>c
  DEF SolInv, SolReleased
<1>10. SolStopsFirst'
  BY <1>u, <1>s, <1>m, <1>c
  DEF SolInv, SolStopsFirst, Empties, Closes, Handles
<1>11. SolDrained'
  BY <1>u, <1>s, <1>m, <1>c
  DEF SolInv, SolDrained, Empties, Closes
<1>12. SolClosed'
  BY <1>u, <1>s, <1>m, <1>c
  DEF SolInv, SolClosed, Closes
<1>13. SolStopped'
  BY <1>u, <1>s, <1>m, <1>c
  DEF SolInv, SolStopped, Gone
<1>14. SolUnbroken'
  BY <1>w DEF SolUnbroken
<1>15. SolDecided'
  BY <1>u, <1>s, <1>m, <1>c
  DEF SolInv, SolDecided, Closes
<1>16. SolOnce'
  BY <1>u, <1>s, <1>m, <1>c
  DEF SolInv, SolOnce, Closes, Settles
<1>17. SolFinal'
  BY <1>u, <1>s, <1>m, <1>c
  DEF SolInv, SolFinal, Closes, Settles, Kept
<1>18. SolWriter'
  BY <1>u, <1>s, <1>m, <1>c
  DEF SolInv, SolWriter, Closes
<1>19. SolRaw'
  BY <1>u, <1>i, SolRawKept DEF SolInv
<1> QED
  BY <1>1, <1>2, <1>3, <1>4, <1>5, <1>6, <1>7, <1>8, <1>9, <1>10, <1>11, <1>12, <1>13, <1>14,
      <1>15, <1>16, <1>17, <1>18, <1>19 DEF SolInv

(* The session has stopped.                                                 *)
LEMMA SolSettles ==
    ASSUME SolInv,
           NEW t \in Solare!Finishers,
           Finishes(t),
           lock' = None,
           SolMoves(t, IF t = "worker" THEN "dead" ELSE "idle"),
           SolSession' /\ session'.attempted = session.attempted,
           session'.started = session.started,
           doing[t] = "settle",
           session'.stopped,
           UNCHANGED <<Solare!captureVars, pipe, snapshot, hand, sent, accepted, written, finals,
                       finalSeen, announced, rawFailed>>
    PROVE  SolInv'
<1>f. session'.stopped \in BOOLEAN /\ session.started
  BY SolStarted DEF SolSession
<1>s. /\ SolControl' /\ lock = t /\ ~session.stopped /\ session.started
      /\ Gone' /\ \A u \in Solare!Finishers : ~Busy(u)'
      /\ Writing' = Writing /\ ~Writing
  BY SolLeaving, <1>f DEF Solare!captureVars
<1>m. SolPlaces' /\ lock # None /\ "worker" \in Solare!Finishers
  BY <1>s, SolSets DEF SolMoves
<1>w. ~Loops("worker")' /\ ~Handles("worker")'
  BY <1>s, <1>m DEF Busy
<1>i. InHand' = InHand
  BY <1>s, SolHandIs DEF Solare!captureVars
<1>a. /\ Closes(t) /\ Empties(t) /\ captureStopped /\ sniffer # "alive" /\ ~socket
      /\ pipe.packets = <<>> /\ ~pipe.writer /\ Settles
  BY <1>s, <1>m DEF SolInv, SolStopsFirst, SolReleased, SolDrained, SolClosed, Empties, Closes,
     Settles
<1>u. /\ startAttempted' = startAttempted /\ captureStarted' = captureStarted
      /\ captureStopped' = captureStopped /\ captureIncomplete' = captureIncomplete
      /\ sniffer' = sniffer /\ socket' = socket /\ captureError' = captureError
      /\ session'.attempted = session.attempted /\ session'.started = session.started
      /\ pipe' = pipe /\ snapshot' = snapshot /\ pc["sniffer"]' = pc["sniffer"]
      /\ hand' = hand /\ sent' = sent /\ accepted' = accepted /\ written' = written
      /\ finals' = finals /\ finalSeen' = finalSeen /\ announced' = announced
      /\ rawFailed' = rawFailed
  BY DEF Solare!captureVars, SolMoves
<1>1. SolCapture' /\ SolPipe' /\ SolSnapshot' /\ SolHands'
  BY <1>u
  DEF SolInv, SolCapture, SolPipe, SolSnapshot, SolHands, Solare!CaptureTypeOK
<1>2. SolHistory' /\ SolNew' /\ SolUnopened' /\ SolPut'
  BY <1>u
  DEF SolInv, SolHistory, SolNew, SolUnopened, SolPut
<1>3. SolReleased' /\ SolConfirmed' /\ SolResult'
  BY <1>u
  DEF SolInv, SolReleased, SolConfirmed, SolResult
<1>4. SolSession'
  OBVIOUS
<1>5. SolPlaces'
  BY <1>m
<1>6. SolControl'
  BY <1>s
<1>7. SolStopsFirst'
  BY <1>u, <1>s, <1>m, <1>a
  DEF SolInv, SolStopsFirst, Empties, Closes, Handles
<1>8. SolDrained'
  BY <1>u, <1>s, <1>m, <1>a
  DEF SolInv, SolDrained, Empties, Closes
<1>9. SolClosed'
  BY <1>u, <1>s, <1>m, <1>a
  DEF SolInv, SolClosed, Closes
<1>10. SolStopped'
  BY <1>u, <1>s, <1>m, <1>a
  DEF SolInv, SolStopped, Gone
<1>11. SolUnbroken'
  BY <1>w DEF SolUnbroken
<1>12. SolDecided'
  BY <1>u, <1>s, <1>m, <1>a
  DEF SolInv, SolDecided, Closes
<1>13. SolOnce'
  BY <1>u, <1>s, <1>m, <1>a
  DEF SolInv, SolOnce, Settles
<1>14. SolFinal'
  BY <1>u, <1>s, <1>m, <1>a
  DEF SolInv, SolFinal, Settles, Kept
<1>15. SolWriter'
  BY <1>u, <1>s, <1>m, <1>a
  DEF SolInv, SolWriter, Closes
<1>16. SolRaw'
  BY <1>u, <1>i, SolRawKept DEF SolInv
<1> QED
  BY <1>1, <1>2, <1>3, <1>4, <1>5, <1>6, <1>7, <1>8, <1>9, <1>10, <1>11, <1>12, <1>13, <1>14,
      <1>15, <1>16 DEF SolInv

(* A thread begins to finish the session.                                   *)
LEMMA SolEnters ==
    ASSUME SolInv,
           NEW t \in Solare!Finishers,
           doing[t] = "lock",
           lock = None,
           ~session.stopped,
           SolMoves(t, "release"),
           SolFlags,
           lock' = t,
           UNCHANGED <<Solare!captureVars, pipe, snapshot, hand, sent, accepted, written, finals,
                       finalSeen, announced, rawFailed>>
    PROVE  SolInv'
<1>m. /\ SolPlaces' /\ t # None /\ doing'[t] = "release"
  BY SolSets DEF SolMoves
<1>s. /\ SolControl' /\ Writing' = Writing
      /\ t # "worker" => ~Loops("worker")' /\ ~Handles("worker")'
  BY SolEntering DEF Solare!captureVars
<1>i. InHand' = InHand
  BY <1>s, SolHandIs DEF Solare!captureVars
<1>u. /\ startAttempted' = startAttempted /\ captureStarted' = captureStarted
      /\ captureStopped' = captureStopped /\ captureIncomplete' = captureIncomplete
      /\ sniffer' = sniffer /\ socket' = socket /\ captureError' = captureError
      /\ session'.attempted = session.attempted /\ session'.started = session.started
      /\ session'.stopped = session.stopped /\ pipe' = pipe /\ snapshot' = snapshot
      /\ pc["sniffer"]' = pc["sniffer"] /\ hand' = hand /\ sent' = sent
      /\ accepted' = accepted /\ written' = written /\ finals' = finals
      /\ finalSeen' = finalSeen /\ announced' = announced /\ rawFailed' = rawFailed
  BY DEF Solare!captureVars, SolMoves, SolFlags
<1>1. SolCapture' /\ SolPipe' /\ SolSnapshot' /\ SolHands'
  BY <1>u
  DEF SolInv, SolCapture, SolPipe, SolSnapshot, SolHands, Solare!CaptureTypeOK
<1>2. SolHistory' /\ SolNew' /\ SolUnopened' /\ SolPut'
  BY <1>u
  DEF SolInv, SolHistory, SolNew, SolUnopened, SolPut
<1>3. SolReleased' /\ SolConfirmed' /\ SolResult'
  BY <1>u
  DEF SolInv, SolReleased, SolConfirmed, SolResult
<1>4. SolSession'
  BY DEF SolFlags
<1>5. SolPlaces'
  BY <1>m
<1>6. SolControl'
  BY <1>s
<1>7. SolStopsFirst'
  BY <1>u, <1>s, <1>m
  DEF SolInv, SolStopsFirst, Empties, Closes, Handles
<1>8. SolDrained'
  BY <1>u, <1>s, <1>m
  DEF SolInv, SolDrained, Empties, Closes
<1>9. SolClosed'
  BY <1>u, <1>s, <1>m
  DEF SolInv, SolClosed, Closes
<1>10. SolStopped'
  BY <1>u, <1>s, <1>m
  DEF SolInv, SolStopped, Gone, Closes
<1>11. SolUnbroken'
  BY <1>s DEF SolUnbroken
<1>12. SolDecided'
  BY <1>u, <1>s, <1>m
  DEF SolInv, SolDecided, Closes
<1>13. SolOnce'
  BY <1>u, <1>s, <1>m
  DEF SolInv, SolOnce, Settles, Closes
<1>14. SolFinal'
  BY <1>u, <1>s, <1>m
  DEF SolInv, SolFinal, Settles, Kept, Closes
<1>15. SolWriter'
  BY <1>u, <1>s, <1>m
  DEF SolInv, SolWriter, Closes
<1>16. SolRaw'
  BY <1>u, <1>i, SolRawKept DEF SolInv
<1> QED
  BY <1>1, <1>2, <1>3, <1>4, <1>5, <1>6, <1>7, <1>8, <1>9, <1>10, <1>11, <1>12, <1>13, <1>14,
      <1>15, <1>16 DEF SolInv

(* The worker goes on with its loop, or leaves it.                          *)
LEMMA SolTurns ==
    ASSUME SolInv,
           NEW t \in Solare!Finishers,
           NEW l,
           Busy(t),
           SolMoves(t, l),
           SolGoesOn(t),
           SolFlags,
           t = "worker" /\ Loops(t) /\ lock # t,
           Loops(t)' \/ l = "lock",
           UNCHANGED <<Solare!captureVars, pipe, snapshot, lock, hand, sent, accepted, written,
                       finals, finalSeen, announced, rawFailed>>
    PROVE  SolInv'
<1>s. /\ SolControl' /\ ~session'.stopped /\ lock' = lock
      /\ lock = t \/ (t = "worker" /\ lock = None)
      /\ \A u \in Solare!Finishers : u # t => ~Busy(u) /\ ~Busy(u)' /\ doing'[u] = doing[u]
      /\ (Writing <=> Writes(t)) /\ (Writing' <=> Writes(t)')
      /\ t # "worker" => ~Loops("worker")' /\ ~Handles("worker")'
      /\ doing'[t] = l /\ SolPlaces'
  BY SolGoing DEF SolMoves
<1>a. /\ lock = None /\ t = "worker" /\ lock # t /\ ~Handles(t)' /\ ~Finishes(t)' /\ ~Writes(t)
      /\ ~Writes(t)'
  BY <1>s, SolSets DEF SolGoesOn, Handles, Loops, Finishes, Empties, Closes, Writes, Opens
<1>h. ~Writes(t) /\ ~Writes(t)'
  BY <1>s, <1>a DEF Writes, Loops, Handles, Finishes, Empties, Closes
<1>i. InHand' = InHand
  BY <1>s, <1>h, SolHandIs
<1>u. /\ startAttempted' = startAttempted /\ captureStarted' = captureStarted
      /\ captureStopped' = captureStopped /\ captureIncomplete' = captureIncomplete
      /\ sniffer' = sniffer /\ socket' = socket /\ captureError' = captureError
      /\ session'.attempted = session.attempted /\ session'.started = session.started
      /\ session'.stopped = session.stopped /\ pipe' = pipe /\ snapshot' = snapshot
      /\ lock' = lock /\ pc["sniffer"]' = pc["sniffer"] /\ hand' = hand /\ sent' = sent
      /\ accepted' = accepted /\ written' = written /\ finals' = finals
      /\ finalSeen' = finalSeen /\ announced' = announced /\ rawFailed' = rawFailed
  BY DEF SolMoves, SolFlags, Solare!captureVars
<1>1. SolCapture' /\ SolPipe' /\ SolSnapshot' /\ SolHands'
  BY <1>u
  DEF SolInv, SolCapture, SolPipe, SolSnapshot, SolHands, Solare!CaptureTypeOK
<1>2. SolHistory' /\ SolNew' /\ SolUnopened' /\ SolPut'
  BY <1>u
  DEF SolInv, SolHistory, SolNew, SolUnopened, SolPut
<1>3. SolReleased' /\ SolConfirmed' /\ SolResult'
  BY <1>u
  DEF SolInv, SolReleased, SolConfirmed, SolResult
<1>4. SolSession'
  BY DEF SolFlags
<1>5. SolPlaces'
  BY <1>s
<1>6. SolControl'
  BY <1>s
<1>7. SolStopsFirst'
  BY <1>u, <1>s, <1>a, SolSets
  DEF SolInv, SolStopsFirst, Empties, Closes, Handles, Busy, Opens, Loops, Finishes, Gone,
      Settles, Writes
<1>8. SolDrained'
  BY <1>u, <1>s, <1>a, SolSets
  DEF SolInv, SolDrained, Empties, Closes, Busy, Opens, Handles, Loops, Finishes, Gone, Settles,
      Writes
<1>9. SolClosed'
  BY <1>u, <1>s, <1>a, SolSets
  DEF SolInv, SolClosed, Closes, Busy, Opens, Handles, Loops, Finishes, Empties, Gone, Settles,
      Writes
<1>10. SolStopped'
  BY <1>u, <1>s, <1>a
  DEF SolInv, SolStopped, Gone, Busy, Opens, Handles, Loops, Finishes, Empties, Closes, Settles,
      Writes
<1>11. SolUnbroken'
  BY <1>u, <1>s, <1>a, SolSets
  DEF SolInv, SolUnbroken, Loops, Handles, Busy, Opens, Finishes, Empties, Closes, Gone,
      Settles, Writes
<1>12. SolDecided'
  BY <1>u, <1>s, <1>a, SolSets
  DEF SolInv, SolDecided, Closes, Busy, Opens, Handles, Loops, Finishes, Empties, Gone, Settles,
      Writes
<1>13. SolOnce'
  BY <1>u, <1>s, <1>a, SolSets
  DEF SolInv, SolOnce, Settles, Busy, Opens, Handles, Loops, Finishes, Empties, Closes, Gone,
      Writes
<1>14. SolFinal'
  BY <1>u, <1>s, <1>a, SolSets
  DEF SolInv, SolFinal, Settles, Kept, Busy, Opens, Handles, Loops, Finishes, Empties, Closes,
      Gone, Writes
<1>15. SolWriter'
  BY <1>u, <1>s, <1>a, SolSets
  DEF SolInv, SolWriter, Closes, Busy, Opens, Handles, Loops, Finishes, Empties, Gone, Settles,
      Writes
<1>16. SolRaw'
  BY <1>u, <1>i, SolRawKept DEF SolInv
<1> QED
  BY <1>1, <1>2, <1>3, <1>4, <1>5, <1>6, <1>7, <1>8, <1>9, <1>10, <1>11, <1>12, <1>13, <1>14,
      <1>15, <1>16 DEF SolInv

(* A packet is taken from the queue.                                        *)
LEMMA SolTakes ==
    ASSUME SolInv,
           NEW t \in Solare!Finishers,
           NEW l,
           Busy(t),
           SolMoves(t, l),
           SolGoesOn(t),
           SolFlags,
           l = "write",
           (lock = t /\ doing[t] = "drain") \/ (lock # t /\ Loops(t)),
           pipe.packets # <<>>,
           hand' = Head(pipe.packets),
           pipe' = [pipe EXCEPT !.packets = Tail(@)],
           UNCHANGED <<Solare!captureVars, snapshot, lock, sent, accepted, written, finals,
                       finalSeen, announced, rawFailed>>
    PROVE  SolInv'
<1>s. /\ SolControl' /\ ~session'.stopped /\ lock' = lock
      /\ lock = t \/ (t = "worker" /\ lock = None)
      /\ \A u \in Solare!Finishers : u # t => ~Busy(u) /\ ~Busy(u)' /\ doing'[u] = doing[u]
      /\ (Writing <=> Writes(t)) /\ (Writing' <=> Writes(t)')
      /\ t # "worker" => ~Loops("worker")' /\ ~Handles("worker")'
      /\ doing'[t] = l /\ SolPlaces'
  BY SolGoing DEF SolMoves
<1>a. /\ pipe.packets \in Seq(Nat) /\ Tail(pipe.packets) \in Seq(Nat) /\ Head(pipe.packets) \in Nat
      /\ ~Writes(t) /\ Writes(t)'
      /\ lock = t \/ (lock = None /\ t = "worker" /\ Loops(t))
  BY <1>s DEF SolInv, SolPipe, PipeRecords, Writes, Loops
<1>b. /\ SolPipe' /\ pipe'.packets = Tail(pipe.packets) /\ pipe'.updates = pipe.updates
      /\ pipe'.writer = pipe.writer /\ pipe'.broken = pipe.broken
  BY <1>a DEF SolInv, SolPipe, PipeRecords
<1>u. /\ startAttempted' = startAttempted /\ captureStarted' = captureStarted
      /\ captureStopped' = captureStopped /\ captureIncomplete' = captureIncomplete
      /\ sniffer' = sniffer /\ socket' = socket /\ captureError' = captureError
      /\ session'.attempted = session.attempted /\ session'.started = session.started
      /\ session'.stopped = session.stopped /\ pipe'.updates = pipe.updates
      /\ pipe'.writer = pipe.writer /\ pipe'.broken = pipe.broken /\ snapshot' = snapshot
      /\ lock' = lock /\ pc["sniffer"]' = pc["sniffer"] /\ sent' = sent
      /\ accepted' = accepted /\ written' = written /\ finals' = finals
      /\ finalSeen' = finalSeen /\ announced' = announced /\ rawFailed' = rawFailed
  BY <1>b
  DEF SolMoves, SolFlags, Solare!captureVars
<1>1. SolCapture' /\ SolSnapshot' /\ SolHistory' /\ SolNew'
  BY <1>u
  DEF SolInv, SolCapture, SolSnapshot, SolHistory, SolNew, Solare!CaptureTypeOK
<1>2. SolPut' /\ SolReleased' /\ SolConfirmed' /\ SolResult'
  BY <1>u
  DEF SolInv, SolPut, SolReleased, SolConfirmed, SolResult
<1>3. SolSession'
  BY DEF SolFlags
<1>4. SolPipe'
  BY <1>u, <1>s, <1>a, <1>b
  DEF SolInv, SolPipe, Busy, Opens, Handles, Loops, Finishes, Empties, Closes, Gone, Settles,
      Writes
<1>5. SolPlaces'
  BY <1>s
<1>6. SolHands'
  BY <1>u, <1>s, <1>a, <1>b
  DEF SolInv, SolHands, Busy, Opens, Handles, Loops, Finishes, Empties, Closes, Gone, Settles,
      Writes
<1>7. SolControl'
  BY <1>s
<1>8. SolUnopened'
  BY <1>u, <1>s, <1>a, <1>b
  DEF SolInv, SolUnopened, Busy, Opens, Handles, Loops, Finishes, Empties, Closes, Gone,
      Settles, Writes
<1>9. SolStopsFirst'
  BY <1>u, <1>s, <1>a, <1>b, SolSets
  DEF SolInv, SolStopsFirst, Empties, Closes, Handles, Busy, Opens, Loops, Finishes, Gone,
      Settles, Writes
<1>10. SolDrained'
  BY SMTT(30), <1>u, <1>s, <1>a, <1>b, SolSets
  DEF SolInv, SolDrained, Empties, Closes, Busy, Opens, Handles, Loops, Finishes, Gone, Settles,
      Writes
<1>11. SolClosed'
  BY <1>u, <1>s, <1>a, <1>b, SolSets
  DEF SolInv, SolClosed, Closes, Busy, Opens, Handles, Loops, Finishes, Empties, Gone, Settles,
      Writes
<1>12. SolStopped'
  BY <1>u, <1>s, <1>a, <1>b
  DEF SolInv, SolStopped, Gone, Busy, Opens, Handles, Loops, Finishes, Empties, Closes, Settles,
      Writes
<1>13. SolUnbroken'
  BY <1>u, <1>s, <1>a, <1>b, SolSets
  DEF SolInv, SolUnbroken, Loops, Handles, Busy, Opens, Finishes, Empties, Closes, Gone,
      Settles, Writes
<1>14. SolDecided'
  BY <1>u, <1>s, <1>a, <1>b, SolSets
  DEF SolInv, SolDecided, Closes, Busy, Opens, Handles, Loops, Finishes, Empties, Gone, Settles,
      Writes
<1>15. SolOnce'
  BY <1>u, <1>s, <1>a, <1>b, SolSets
  DEF SolInv, SolOnce, Settles, Busy, Opens, Handles, Loops, Finishes, Empties, Closes, Gone,
      Writes
<1>16. SolFinal'
  BY <1>u, <1>s, <1>a, <1>b, SolSets
  DEF SolInv, SolFinal, Settles, Kept, Busy, Opens, Handles, Loops, Finishes, Empties, Closes,
      Gone, Writes
<1>17. SolWriter'
  BY <1>u, <1>s, <1>a, <1>b, SolSets
  DEF SolInv, SolWriter, Closes, Busy, Opens, Handles, Loops, Finishes, Empties, Gone, Settles,
      Writes
<1>18. SolRaw'
  <2>1. ~Writing /\ Writing'
    BY <1>s, <1>a
  <2>2. written \in Seq(Nat) /\ SolRaw
    BY DEF SolInv, SolHands
  <2> QED
    BY <1>u, <1>a, <1>b, <2>1, <2>2, SolRawTakes
<1> QED
  BY <1>1, <1>2, <1>3, <1>4, <1>5, <1>6, <1>7, <1>8, <1>9, <1>10, <1>11, <1>12, <1>13, <1>14,
      <1>15, <1>16, <1>17, <1>18 DEF SolInv

(* The queue is drained.                                                    *)
LEMMA SolDrainsAll ==
    ASSUME SolInv,
           NEW t \in Solare!Finishers,
           NEW l,
           Busy(t),
           SolMoves(t, l),
           SolGoesOn(t),
           SolFlags,
           l = "final",
           lock = t /\ doing[t] = "drain",
           pipe.packets = <<>>,
           UNCHANGED <<Solare!captureVars, pipe, snapshot, lock, hand, sent, accepted, written,
                       finals, finalSeen, announced, rawFailed>>
    PROVE  SolInv'
<1>s. /\ SolControl' /\ ~session'.stopped /\ lock' = lock
      /\ lock = t \/ (t = "worker" /\ lock = None)
      /\ \A u \in Solare!Finishers : u # t => ~Busy(u) /\ ~Busy(u)' /\ doing'[u] = doing[u]
      /\ (Writing <=> Writes(t)) /\ (Writing' <=> Writes(t)')
      /\ t # "worker" => ~Loops("worker")' /\ ~Handles("worker")'
      /\ doing'[t] = l /\ SolPlaces'
  BY SolGoing DEF SolMoves
<1>h. ~Writes(t) /\ ~Writes(t)'
  BY <1>s DEF Writes, Loops, Handles, Finishes, Empties, Closes
<1>i. InHand' = InHand
  BY <1>s, <1>h, SolHandIs
<1>u. /\ startAttempted' = startAttempted /\ captureStarted' = captureStarted
      /\ captureStopped' = captureStopped /\ captureIncomplete' = captureIncomplete
      /\ sniffer' = sniffer /\ socket' = socket /\ captureError' = captureError
      /\ session'.attempted = session.attempted /\ session'.started = session.started
      /\ session'.stopped = session.stopped /\ pipe' = pipe /\ snapshot' = snapshot
      /\ lock' = lock /\ pc["sniffer"]' = pc["sniffer"] /\ hand' = hand /\ sent' = sent
      /\ accepted' = accepted /\ written' = written /\ finals' = finals
      /\ finalSeen' = finalSeen /\ announced' = announced /\ rawFailed' = rawFailed
  BY DEF SolMoves, SolFlags, Solare!captureVars
<1>1. SolCapture' /\ SolPipe' /\ SolSnapshot' /\ SolHands'
  BY <1>u
  DEF SolInv, SolCapture, SolPipe, SolSnapshot, SolHands, Solare!CaptureTypeOK
<1>2. SolHistory' /\ SolNew' /\ SolUnopened' /\ SolPut'
  BY <1>u
  DEF SolInv, SolHistory, SolNew, SolUnopened, SolPut
<1>3. SolReleased' /\ SolConfirmed' /\ SolResult'
  BY <1>u
  DEF SolInv, SolReleased, SolConfirmed, SolResult
<1>4. SolSession'
  BY DEF SolFlags
<1>5. SolPlaces'
  BY <1>s
<1>6. SolControl'
  BY <1>s
<1>7. SolStopsFirst'
  BY <1>u, <1>s, SolSets
  DEF SolInv, SolStopsFirst, Empties, Closes, Handles, Busy, Opens, Loops, Finishes, Gone,
      Settles, Writes
<1>8. SolDrained'
  BY <1>u, <1>s, SolSets
  DEF SolInv, SolDrained, Empties, Closes, Busy, Opens, Handles, Loops, Finishes, Gone, Settles,
      Writes
<1>9. SolClosed'
  BY <1>u, <1>s, SolSets
  DEF SolInv, SolClosed, Closes, Busy, Opens, Handles, Loops, Finishes, Empties, Gone, Settles,
      Writes
<1>10. SolStopped'
  BY <1>u, <1>s
  DEF SolInv, SolStopped, Gone, Busy, Opens, Handles, Loops, Finishes, Empties, Closes, Settles,
      Writes
<1>11. SolUnbroken'
  BY <1>u, <1>s, SolSets
  DEF SolInv, SolUnbroken, Loops, Handles, Busy, Opens, Finishes, Empties, Closes, Gone,
      Settles, Writes
<1>12. SolDecided'
  BY <1>u, <1>s, SolSets
  DEF SolInv, SolDecided, Closes, Busy, Opens, Handles, Loops, Finishes, Empties, Gone, Settles,
      Writes
<1>13. SolOnce'
  BY <1>u, <1>s, SolSets
  DEF SolInv, SolOnce, Settles, Busy, Opens, Handles, Loops, Finishes, Empties, Closes, Gone,
      Writes
<1>14. SolFinal'
  BY <1>u, <1>s, SolSets
  DEF SolInv, SolFinal, Settles, Kept, Busy, Opens, Handles, Loops, Finishes, Empties, Closes,
      Gone, Writes
<1>15. SolWriter'
  BY <1>u, <1>s, SolSets
  DEF SolInv, SolWriter, Closes, Busy, Opens, Handles, Loops, Finishes, Empties, Gone, Settles,
      Writes
<1>16. SolRaw'
  BY <1>u, <1>i, SolRawKept DEF SolInv
<1> QED
  BY <1>1, <1>2, <1>3, <1>4, <1>5, <1>6, <1>7, <1>8, <1>9, <1>10, <1>11, <1>12, <1>13, <1>14,
      <1>15, <1>16 DEF SolInv

(* A packet is written, if the raw file is open.                            *)
LEMMA SolWrites ==
    ASSUME SolInv,
           NEW t \in Solare!Finishers,
           NEW l,
           Busy(t),
           SolMoves(t, l),
           SolGoesOn(t),
           SolFlags,
           doing[t] = "write",
           l = "drain" \/ (l = "decode" /\ ~pipe.broken),
           written' = IF pipe.writer THEN Append(written, hand) ELSE written,
           UNCHANGED <<Solare!captureVars, pipe, snapshot, lock, hand, sent, accepted, finals,
                       finalSeen, announced, rawFailed>>
    PROVE  SolInv'
<1>s. /\ SolControl' /\ ~session'.stopped /\ lock' = lock
      /\ lock = t \/ (t = "worker" /\ lock = None)
      /\ \A u \in Solare!Finishers : u # t => ~Busy(u) /\ ~Busy(u)' /\ doing'[u] = doing[u]
      /\ (Writing <=> Writes(t)) /\ (Writing' <=> Writes(t)')
      /\ t # "worker" => ~Loops("worker")' /\ ~Handles("worker")'
      /\ doing'[t] = l /\ SolPlaces'
  BY SolGoing DEF SolMoves
<1>a. /\ Writes(t) /\ ~Writes(t)' /\ written \in Seq(Nat) /\ hand \in Nat
      /\ Append(written, hand) \in Seq(Nat)
      /\ lock # t => l = "decode"
  BY <1>s DEF SolInv, SolHands, Writes, SolGoesOn, Loops, Handles
<1>u. /\ startAttempted' = startAttempted /\ captureStarted' = captureStarted
      /\ captureStopped' = captureStopped /\ captureIncomplete' = captureIncomplete
      /\ sniffer' = sniffer /\ socket' = socket /\ captureError' = captureError
      /\ session'.attempted = session.attempted /\ session'.started = session.started
      /\ session'.stopped = session.stopped /\ pipe' = pipe /\ snapshot' = snapshot
      /\ lock' = lock /\ pc["sniffer"]' = pc["sniffer"] /\ hand' = hand /\ sent' = sent
      /\ accepted' = accepted /\ finals' = finals /\ finalSeen' = finalSeen
      /\ announced' = announced /\ rawFailed' = rawFailed
  BY DEF SolMoves, SolFlags, Solare!captureVars
<1>1. SolCapture' /\ SolPipe' /\ SolSnapshot' /\ SolHistory'
  BY <1>u
  DEF SolInv, SolCapture, SolPipe, SolSnapshot, SolHistory, Solare!CaptureTypeOK
<1>2. SolNew' /\ SolUnopened' /\ SolPut' /\ SolReleased'
  BY <1>u
  DEF SolInv, SolNew, SolUnopened, SolPut, SolReleased
<1>3. SolConfirmed' /\ SolResult'
  BY <1>u
  DEF SolInv, SolConfirmed, SolResult
<1>4. SolSession'
  BY DEF SolFlags
<1>5. SolPlaces'
  BY <1>s
<1>6. SolHands'
  BY <1>u, <1>s, <1>a
  DEF SolInv, SolHands, Busy, Opens, Handles, Loops, Finishes, Empties, Closes, Gone, Settles,
      Writes
<1>7. SolControl'
  BY <1>s
<1>8. SolStopsFirst'
  BY <1>u, <1>s, <1>a, SolSets
  DEF SolInv, SolStopsFirst, Empties, Closes, Handles, Busy, Opens, Loops, Finishes, Gone,
      Settles, Writes
<1>9. SolDrained'
  BY <1>u, <1>s, <1>a, SolSets
  DEF SolInv, SolDrained, Empties, Closes, Busy, Opens, Handles, Loops, Finishes, Gone, Settles,
      Writes
<1>10. SolClosed'
  BY <1>u, <1>s, <1>a, SolSets
  DEF SolInv, SolClosed, Closes, Busy, Opens, Handles, Loops, Finishes, Empties, Gone, Settles,
      Writes
<1>11. SolStopped'
  BY <1>u, <1>s, <1>a
  DEF SolInv, SolStopped, Gone, Busy, Opens, Handles, Loops, Finishes, Empties, Closes, Settles,
      Writes
<1>12. SolUnbroken'
  BY <1>u, <1>s, <1>a, SolSets
  DEF SolInv, SolUnbroken, Loops, Handles, Busy, Opens, Finishes, Empties, Closes, Gone,
      Settles, Writes
<1>13. SolDecided'
  BY <1>u, <1>s, <1>a, SolSets
  DEF SolInv, SolDecided, Closes, Busy, Opens, Handles, Loops, Finishes, Empties, Gone, Settles,
      Writes
<1>14. SolOnce'
  BY <1>u, <1>s, <1>a, SolSets
  DEF SolInv, SolOnce, Settles, Busy, Opens, Handles, Loops, Finishes, Empties, Closes, Gone,
      Writes
<1>15. SolFinal'
  BY <1>u, <1>s, <1>a, SolSets
  DEF SolInv, SolFinal, Settles, Kept, Busy, Opens, Handles, Loops, Finishes, Empties, Closes,
      Gone, Writes
<1>16. SolWriter'
  BY <1>u, <1>s, <1>a, SolSets
  DEF SolInv, SolWriter, Closes, Busy, Opens, Handles, Loops, Finishes, Empties, Gone, Settles,
      Writes
<1>17. SolRaw'
  <2>1. SavePcap /\ ~rawFailed => pipe.writer
    <3>1. session.started
      BY <1>s, SolSets DEF SolInv, SolControl, SolIdle, Opens
    <3>2. ~session.stopped /\ (lock # None => ~Closes(lock))
      BY <1>s DEF SolFlags, Closes
    <3> QED
      BY <3>1, <3>2 DEF SolInv, SolWriter
  <2>2. Writing /\ ~Writing'
    BY <1>s, <1>a
  <2>3. SolRaw
    BY DEF SolInv
  <2> QED
    BY <1>u, <1>a, <2>1, <2>2, <2>3, SolRawWrites
<1> QED
  BY <1>1, <1>2, <1>3, <1>4, <1>5, <1>6, <1>7, <1>8, <1>9, <1>10, <1>11, <1>12, <1>13, <1>14,
      <1>15, <1>16, <1>17 DEF SolInv

(* The raw file fails and is given up.                                      *)
LEMMA SolWriteFails ==
    ASSUME SolInv,
           NEW t \in Solare!Finishers,
           NEW l,
           Busy(t),
           SolMoves(t, l),
           SolGoesOn(t),
           SolFlags,
           doing[t] = "write",
           l = "drain" \/ (l = "decode" /\ ~pipe.broken),
           pipe' = [pipe EXCEPT !.writer = FALSE],
           rawFailed',
           UNCHANGED <<Solare!captureVars, snapshot, lock, hand, sent, accepted, written, finals,
                       finalSeen, announced>>
    PROVE  SolInv'
<1>s. /\ SolControl' /\ ~session'.stopped /\ lock' = lock
      /\ lock = t \/ (t = "worker" /\ lock = None)
      /\ \A u \in Solare!Finishers : u # t => ~Busy(u) /\ ~Busy(u)' /\ doing'[u] = doing[u]
      /\ (Writing <=> Writes(t)) /\ (Writing' <=> Writes(t)')
      /\ t # "worker" => ~Loops("worker")' /\ ~Handles("worker")'
      /\ doing'[t] = l /\ SolPlaces'
  BY SolGoing DEF SolMoves
<1>a. lock # t => l = "decode"
  BY <1>s DEF SolGoesOn, Loops, Handles
<1>b. /\ SolPipe' /\ pipe'.packets = pipe.packets /\ pipe'.updates = pipe.updates
      /\ ~pipe'.writer /\ pipe'.broken = pipe.broken
  BY DEF SolInv, SolPipe, PipeRecords
<1>u. /\ startAttempted' = startAttempted /\ captureStarted' = captureStarted
      /\ captureStopped' = captureStopped /\ captureIncomplete' = captureIncomplete
      /\ sniffer' = sniffer /\ socket' = socket /\ captureError' = captureError
      /\ session'.attempted = session.attempted /\ session'.started = session.started
      /\ session'.stopped = session.stopped /\ pipe'.packets = pipe.packets
      /\ pipe'.updates = pipe.updates /\ pipe'.broken = pipe.broken /\ snapshot' = snapshot
      /\ lock' = lock /\ pc["sniffer"]' = pc["sniffer"] /\ hand' = hand /\ sent' = sent
      /\ accepted' = accepted /\ written' = written /\ finals' = finals
      /\ finalSeen' = finalSeen /\ announced' = announced
  BY <1>b
  DEF SolMoves, SolFlags, Solare!captureVars
<1>1. SolCapture' /\ SolSnapshot' /\ SolHands' /\ SolUnopened'
  BY <1>u
  DEF SolInv, SolCapture, SolSnapshot, SolHands, SolUnopened, Solare!CaptureTypeOK
<1>2. SolPut' /\ SolReleased' /\ SolConfirmed' /\ SolResult'
  BY <1>u
  DEF SolInv, SolPut, SolReleased, SolConfirmed, SolResult
<1>3. SolSession'
  BY DEF SolFlags
<1>4. SolPipe'
  BY <1>u, <1>s, <1>a, <1>b
  DEF SolInv, SolPipe, Busy, Opens, Handles, Loops, Finishes, Empties, Closes, Gone, Settles,
      Writes
<1>5. SolPlaces'
  BY <1>s
<1>6. SolHistory'
  BY <1>u, <1>s, <1>a, <1>b
  DEF SolInv, SolHistory, Busy, Opens, Handles, Loops, Finishes, Empties, Closes, Gone, Settles,
      Writes
<1>7. SolControl'
  BY <1>s
<1>8. SolNew'
  BY <1>u, <1>s, <1>a, <1>b
  DEF SolInv, SolNew, Busy, Opens, Handles, Loops, Finishes, Empties, Closes, Gone, Settles,
      Writes
<1>9. SolStopsFirst'
  BY <1>u, <1>s, <1>a, <1>b, SolSets
  DEF SolInv, SolStopsFirst, Empties, Closes, Handles, Busy, Opens, Loops, Finishes, Gone,
      Settles, Writes
<1>10. SolDrained'
  BY <1>u, <1>s, <1>a, <1>b, SolSets
  DEF SolInv, SolDrained, Empties, Closes, Busy, Opens, Handles, Loops, Finishes, Gone, Settles,
      Writes
<1>11. SolClosed'
  BY <1>u, <1>s, <1>a, <1>b, SolSets
  DEF SolInv, SolClosed, Closes, Busy, Opens, Handles, Loops, Finishes, Empties, Gone, Settles,
      Writes
<1>12. SolStopped'
  BY <1>u, <1>s, <1>a, <1>b
  DEF SolInv, SolStopped, Gone, Busy, Opens, Handles, Loops, Finishes, Empties, Closes, Settles,
      Writes
<1>13. SolUnbroken'
  BY <1>u, <1>s, <1>a, <1>b, SolSets
  DEF SolInv, SolUnbroken, Loops, Handles, Busy, Opens, Finishes, Empties, Closes, Gone,
      Settles, Writes
<1>14. SolDecided'
  BY <1>u, <1>s, <1>a, <1>b, SolSets
  DEF SolInv, SolDecided, Closes, Busy, Opens, Handles, Loops, Finishes, Empties, Gone, Settles,
      Writes
<1>15. SolOnce'
  BY <1>u, <1>s, <1>a, <1>b, SolSets
  DEF SolInv, SolOnce, Settles, Busy, Opens, Handles, Loops, Finishes, Empties, Closes, Gone,
      Writes
<1>16. SolFinal'
  BY <1>u, <1>s, <1>a, <1>b, SolSets
  DEF SolInv, SolFinal, Settles, Kept, Busy, Opens, Handles, Loops, Finishes, Empties, Closes,
      Gone, Writes
<1>17. SolWriter'
  BY <1>u, <1>s, <1>a, <1>b, SolSets
  DEF SolInv, SolWriter, Closes, Busy, Opens, Handles, Loops, Finishes, Empties, Gone, Settles,
      Writes
<1>18. SolRaw'
  BY <1>u, <1>s, <1>a, <1>b
  DEF SolInv, SolRaw, InHand, Writing, Writes, Busy, Opens, Handles, Loops, Finishes, Empties,
      Closes, Gone, Settles
<1> QED
  BY <1>1, <1>2, <1>3, <1>4, <1>5, <1>6, <1>7, <1>8, <1>9, <1>10, <1>11, <1>12, <1>13, <1>14,
      <1>15, <1>16, <1>17, <1>18 DEF SolInv

(* The decoder goes on: it may announce, warn, confirm or break.            *)
LEMMA SolDecodes ==
    ASSUME SolInv,
           NEW t \in Solare!Finishers,
           NEW l,
           Busy(t),
           SolMoves(t, l),
           SolGoesOn(t),
           SolFlags,
           Handles(t) \/ doing[t] = "service" \/ doing[t] = "final",
           doing[t] # "write",
           Goal(t, l),
           SolPipe' /\ pipe'.packets = pipe.packets /\ pipe'.writer = pipe.writer,
           pipe'.broken = pipe.broken \/ lock = t \/ l = "lock",
           SolVerdict,
           UNCHANGED <<Solare!captureVars, lock, hand, sent, accepted, written, finals, finalSeen,
                       rawFailed>>
    PROVE  SolInv'
<1>s. /\ SolControl' /\ ~session'.stopped /\ lock' = lock
      /\ lock = t \/ (t = "worker" /\ lock = None)
      /\ \A u \in Solare!Finishers : u # t => ~Busy(u) /\ ~Busy(u)' /\ doing'[u] = doing[u]
      /\ (Writing <=> Writes(t)) /\ (Writing' <=> Writes(t)')
      /\ t # "worker" => ~Loops("worker")' /\ ~Handles("worker")'
      /\ doing'[t] = l /\ SolPlaces'
  BY SolGoing DEF SolMoves
<1>a. /\ ~Writes(t) /\ ~Writes(t)' /\ ~Closes(t) /\ ~Closes(t)'
      /\ (lock # t => l # "drain" /\ l # "build")
      /\ session.started /\ (lock = t => doing[t] # "service")
      /\ (lock # t => doing[t] # "final")
  BY <1>s, SolSets DEF SolHolder, SolLocked, Finishes, Empties, Writes, Closes, SolGoesOn, Loops,
     Handles, Opens, Goal, SolInv, SolControl, SolIdle
<1>b. /\ lock # None => lock = t
      /\ SolPipe' /\ pipe'.packets = pipe.packets /\ pipe'.writer = pipe.writer
      /\ pipe'.broken = pipe.broken \/ lock = t \/ l = "lock"
  BY <1>s
<1>r. snapshot.result = None
  BY <1>s, <1>a, <1>b DEF SolInv, SolDecided, SolFlags
<1>v. /\ SolSnapshot' /\ snapshot'.result = snapshot.result
      /\ announced' \in Verdicts
      /\ \/ /\ snapshot'.confirmed = snapshot.confirmed /\ snapshot'.latched = snapshot.latched
            /\ announced' = announced
         \/ snapshot'.confirmed /\ snapshot'.latched = announced' /\ announced' # None
  BY DEF SolVerdict
<1>h. ~Writes(t) /\ ~Writes(t)'
  BY <1>s, <1>a DEF Writes, Loops, Handles, Finishes, Empties, Closes
<1>i. InHand' = InHand
  BY <1>s, <1>h, SolHandIs
<1>u. /\ startAttempted' = startAttempted /\ captureStarted' = captureStarted
      /\ captureStopped' = captureStopped /\ captureIncomplete' = captureIncomplete
      /\ sniffer' = sniffer /\ socket' = socket /\ captureError' = captureError
      /\ session'.attempted = session.attempted /\ session'.started = session.started
      /\ session'.stopped = session.stopped /\ pipe'.packets = pipe.packets
      /\ pipe'.writer = pipe.writer /\ snapshot'.result = snapshot.result /\ lock' = lock
      /\ pc["sniffer"]' = pc["sniffer"] /\ hand' = hand /\ sent' = sent
      /\ accepted' = accepted /\ written' = written /\ finals' = finals
      /\ finalSeen' = finalSeen /\ rawFailed' = rawFailed
  BY SolSets
  DEF SolMoves, SolFlags, Solare!captureVars, SolVerdict
<1>1. SolCapture' /\ SolHands' /\ SolUnopened'
  BY <1>u
  DEF SolInv, SolCapture, SolHands, SolUnopened, Solare!CaptureTypeOK
<1>2. SolPut' /\ SolReleased'
  BY <1>u
  DEF SolInv, SolPut, SolReleased
<1>3. SolSession'
  BY DEF SolFlags
<1>4. SolPipe'
  BY <1>u, <1>s, <1>a, <1>b, <1>r, <1>v
  DEF SolInv, SolPipe, Busy, Opens, Handles, Loops, Finishes, Empties, Closes, Gone, Settles,
      Writes
<1>5. SolSnapshot'
  BY <1>u, <1>s, <1>a, <1>b, <1>r, <1>v
  DEF SolInv, SolSnapshot, Busy, Opens, Handles, Loops, Finishes, Empties, Closes, Gone,
      Settles, Writes
<1>6. SolPlaces'
  BY <1>s
<1>7. SolHistory'
  BY <1>u, <1>s, <1>a, <1>b, <1>r, <1>v
  DEF SolInv, SolHistory, Busy, Opens, Handles, Loops, Finishes, Empties, Closes, Gone, Settles,
      Writes
<1>8. SolControl'
  BY <1>s
<1>9. SolNew'
  BY <1>u, <1>s, <1>a, <1>b, <1>r, <1>v
  DEF SolInv, SolNew, Busy, Opens, Handles, Loops, Finishes, Empties, Closes, Gone, Settles,
      Writes
<1>10. SolStopsFirst'
  BY <1>u, <1>s, <1>a, <1>b, <1>r, <1>v, SolSets
  DEF SolInv, SolStopsFirst, Goal, Empties, Closes, Handles, Busy, Opens, Loops, Finishes, Gone,
      Settles, Writes
<1>11. SolDrained'
  BY <1>u, <1>s, <1>a, <1>b, <1>r, <1>v, SolSets
  DEF SolInv, SolDrained, Goal, Empties, Closes, Busy, Opens, Handles, Loops, Finishes, Gone,
      Settles, Writes
<1>12. SolClosed'
  BY <1>u, <1>s, <1>a, <1>b, <1>r, <1>v, SolSets
  DEF SolInv, SolClosed, Closes, Busy, Opens, Handles, Loops, Finishes, Empties, Gone, Settles,
      Writes
<1>13. SolStopped'
  BY <1>u, <1>s, <1>a, <1>b, <1>r, <1>v
  DEF SolInv, SolStopped, Gone, Busy, Opens, Handles, Loops, Finishes, Empties, Closes, Settles,
      Writes
<1>14. SolUnbroken'
  BY <1>u, <1>s, <1>a, <1>b, <1>r, <1>v, SolSets
  DEF SolInv, SolUnbroken, Goal, Loops, Handles, Busy, Opens, Finishes, Empties, Closes, Gone,
      Settles, Writes
<1>15. SolConfirmed'
  BY <1>u, <1>s, <1>a, <1>b, <1>r, <1>v
  DEF SolInv, SolConfirmed, Busy, Opens, Handles, Loops, Finishes, Empties, Closes, Gone,
      Settles, Writes
<1>16. SolResult'
  BY <1>u, <1>s, <1>a, <1>b, <1>r, <1>v
  DEF SolInv, SolResult, Busy, Opens, Handles, Loops, Finishes, Empties, Closes, Gone, Settles,
      Writes
<1>17. SolDecided'
  BY <1>u, <1>s, <1>a, <1>b, <1>r, <1>v, SolSets
  DEF SolInv, SolDecided, Closes, Busy, Opens, Handles, Loops, Finishes, Empties, Gone, Settles,
      Writes
<1>18. SolOnce'
  BY <1>u, <1>s, <1>a, <1>b, <1>r, <1>v, SolSets
  DEF SolInv, SolOnce, Settles, Busy, Opens, Handles, Loops, Finishes, Empties, Closes, Gone,
      Writes
<1>19. SolFinal'
  BY <1>u, <1>s, <1>a, <1>b, <1>r, <1>v, SolSets
  DEF SolInv, SolFinal, Settles, Kept, Busy, Opens, Handles, Loops, Finishes, Empties, Closes,
      Gone, Writes
<1>20. SolWriter'
  BY <1>u, <1>s, <1>a, <1>b, <1>r, <1>v, SolSets
  DEF SolInv, SolWriter, Closes, Busy, Opens, Handles, Loops, Finishes, Empties, Gone, Settles,
      Writes
<1>21. SolRaw'
  BY <1>u, <1>i, <1>b, SolRawKept DEF SolInv
<1> QED
  BY <1>1, <1>2, <1>3, <1>4, <1>5, <1>6, <1>7, <1>8, <1>9, <1>10, <1>11, <1>12, <1>13, <1>14,
      <1>15, <1>16, <1>17, <1>18, <1>19, <1>20, <1>21 DEF SolInv

(* The capture has stopped: what is queued is drained.                      *)
LEMMA SolReleases ==
    ASSUME SolInv,
           NEW t \in Solare!Finishers,
           NEW l,
           Busy(t),
           SolMoves(t, l),
           SolGoesOn(t),
           SolFlags,
           doing[t] = "release" /\ l = "drain" /\ lock = t,
           CaptureGoes,
           captureStopped',
           UNCHANGED <<startAttempted, pipe, snapshot, lock, hand, sent, accepted, written,
                       finals, finalSeen, announced, rawFailed>>
    PROVE  SolInv'
<1>s. /\ SolControl' /\ ~session'.stopped /\ lock' = lock
      /\ lock = t \/ (t = "worker" /\ lock = None)
      /\ \A u \in Solare!Finishers : u # t => ~Busy(u) /\ ~Busy(u)' /\ doing'[u] = doing[u]
      /\ (Writing <=> Writes(t)) /\ (Writing' <=> Writes(t)')
      /\ t # "worker" => ~Loops("worker")' /\ ~Handles("worker")'
      /\ doing'[t] = l /\ SolPlaces'
  BY SolGoing DEF SolMoves
<1>c. /\ SolCapture' /\ startAttempted' = startAttempted
      /\ sniffer' = "alive" => sniffer = "alive"
      /\ socket' => socket
      /\ captureStopped' /\ sniffer' # "alive" /\ ~socket'
      /\ pc["sniffer"] = "put" => sniffer' = sniffer
      /\ ~startAttempted =>
            /\ captureStopped' = captureStopped
            /\ sniffer' = sniffer
            /\ socket' = socket
            /\ captureStarted' = captureStarted /\ captureIncomplete' = captureIncomplete
  BY DEF CaptureGoes, Solare!captureVars
<1>h. ~Writes(t) /\ ~Writes(t)'
  BY <1>s DEF Writes, Loops, Handles, Finishes, Empties, Closes
<1>i. InHand' = InHand
  BY <1>s, <1>h, SolHandIs
<1>u. /\ startAttempted' = startAttempted /\ session'.attempted = session.attempted
      /\ session'.started = session.started /\ session'.stopped = session.stopped
      /\ pipe' = pipe /\ snapshot' = snapshot /\ lock' = lock
      /\ pc["sniffer"]' = pc["sniffer"] /\ hand' = hand /\ sent' = sent
      /\ accepted' = accepted /\ written' = written /\ finals' = finals
      /\ finalSeen' = finalSeen /\ announced' = announced /\ rawFailed' = rawFailed
  BY DEF SolMoves, SolFlags, Solare!captureVars
<1>1. SolPipe' /\ SolSnapshot' /\ SolHands' /\ SolHistory'
  BY <1>u
  DEF SolInv, SolPipe, SolSnapshot, SolHands, SolHistory
<1>2. SolNew' /\ SolConfirmed' /\ SolResult'
  BY <1>u
  DEF SolInv, SolNew, SolConfirmed, SolResult
<1>3. SolCapture'
  BY <1>c
<1>4. SolSession'
  BY DEF SolFlags
<1>5. SolPlaces'
  BY <1>s
<1>6. SolControl'
  BY <1>s
<1>7. SolUnopened'
  <2>1. startAttempted
    BY <1>c DEF SolInv, SolUnopened
  <2> QED
    BY <1>c, <2>1 DEF SolUnopened
<1>8. SolPut'
  BY <1>u, <1>s, <1>c
  DEF SolInv, SolPut, Busy, Opens, Handles, Loops, Finishes, Empties, Closes, Gone, Settles,
      Writes
<1>9. SolReleased'
  BY <1>u, <1>s, <1>c
  DEF SolInv, SolReleased, Busy, Opens, Handles, Loops, Finishes, Empties, Closes, Gone,
      Settles, Writes
<1>10. SolStopsFirst'
  BY <1>u, <1>s, <1>c, SolSets
  DEF SolInv, SolStopsFirst, Empties, Closes, Handles, Busy, Opens, Loops, Finishes, Gone,
      Settles, Writes
<1>11. SolDrained'
  BY <1>u, <1>s, <1>c, SolSets
  DEF SolInv, SolDrained, Empties, Closes, Busy, Opens, Handles, Loops, Finishes, Gone, Settles,
      Writes
<1>12. SolClosed'
  BY <1>u, <1>s, <1>c, SolSets
  DEF SolInv, SolClosed, Closes, Busy, Opens, Handles, Loops, Finishes, Empties, Gone, Settles,
      Writes
<1>13. SolStopped'
  BY <1>u, <1>s, <1>c
  DEF SolInv, SolStopped, Gone, Busy, Opens, Handles, Loops, Finishes, Empties, Closes, Settles,
      Writes
<1>14. SolUnbroken'
  BY <1>u, <1>s, <1>c, SolSets
  DEF SolInv, SolUnbroken, Loops, Handles, Busy, Opens, Finishes, Empties, Closes, Gone,
      Settles, Writes
<1>15. SolDecided'
  BY <1>u, <1>s, <1>c, SolSets
  DEF SolInv, SolDecided, Closes, Busy, Opens, Handles, Loops, Finishes, Empties, Gone, Settles,
      Writes
<1>16. SolOnce'
  BY <1>u, <1>s, <1>c, SolSets
  DEF SolInv, SolOnce, Settles, Busy, Opens, Handles, Loops, Finishes, Empties, Closes, Gone,
      Writes
<1>17. SolFinal'
  BY <1>u, <1>s, <1>c, SolSets
  DEF SolInv, SolFinal, Settles, Kept, Busy, Opens, Handles, Loops, Finishes, Empties, Closes,
      Gone, Writes
<1>18. SolWriter'
  BY <1>u, <1>s, <1>c, SolSets
  DEF SolInv, SolWriter, Closes, Busy, Opens, Handles, Loops, Finishes, Empties, Gone, Settles,
      Writes
<1>19. SolRaw'
  BY <1>u, <1>i, SolRawKept DEF SolInv
<1> QED
  BY <1>1, <1>2, <1>3, <1>4, <1>5, <1>6, <1>7, <1>8, <1>9, <1>10, <1>11, <1>12, <1>13, <1>14,
      <1>15, <1>16, <1>17, <1>18, <1>19 DEF SolInv

(* The raw file is closed; the result says what was announced.              *)
LEMMA SolBuilds ==
    ASSUME SolInv,
           NEW t \in Solare!Finishers,
           NEW l,
           Busy(t),
           SolMoves(t, l),
           SolGoesOn(t),
           SolFlags,
           doing[t] = "build" /\ lock = t,
           (l = "settle" /\ snapshot' = snapshot) \/ l = "warn" \/ l = "finished",
           l # "settle" => snapshot' = [snapshot EXCEPT !.result = Solare!Verdict],
           pipe' = [pipe EXCEPT !.writer = FALSE],
           UNCHANGED <<Solare!captureVars, lock, hand, sent, accepted, written, finals, finalSeen,
                       announced, rawFailed>>
    PROVE  SolInv'
<1>s. /\ SolControl' /\ ~session'.stopped /\ lock' = lock
      /\ lock = t \/ (t = "worker" /\ lock = None)
      /\ \A u \in Solare!Finishers : u # t => ~Busy(u) /\ ~Busy(u)' /\ doing'[u] = doing[u]
      /\ (Writing <=> Writes(t)) /\ (Writing' <=> Writes(t)')
      /\ t # "worker" => ~Loops("worker")' /\ ~Handles("worker")'
      /\ doing'[t] = l /\ SolPlaces'
  BY SolGoing DEF SolMoves
<1>a. ~Writes(t) /\ ~Writes(t)' /\ Closes(t)' /\ ~Closes(t) /\ lock = t
  BY <1>s DEF Writes, Closes
<1>b. /\ SolPipe' /\ pipe'.packets = pipe.packets /\ pipe'.updates = pipe.updates
      /\ ~pipe'.writer /\ pipe'.broken = pipe.broken
  BY DEF SolInv, SolPipe, PipeRecords
<1>r. snapshot.result = None /\ finals = 0
  BY <1>s, <1>a, SolSets DEF SolInv, SolDecided, SolOnce, Settles, SolFlags
<1>v. /\ SolSnapshot' /\ snapshot'.confirmed = snapshot.confirmed
      /\ snapshot'.latched = snapshot.latched
      /\ l = "settle" => snapshot'.result = None
      /\ l # "settle" => snapshot'.result # None /\ snapshot'.result = Solare!Verdict
  BY <1>r, SolSets DEF SolInv, SolSnapshot, Solare!Verdict
<1>h. ~Writes(t) /\ ~Writes(t)'
  BY <1>s, <1>a DEF Writes, Loops, Handles, Finishes, Empties, Closes
<1>i. InHand' = InHand
  BY <1>s, <1>h, SolHandIs
<1>u. /\ startAttempted' = startAttempted /\ captureStarted' = captureStarted
      /\ captureStopped' = captureStopped /\ captureIncomplete' = captureIncomplete
      /\ sniffer' = sniffer /\ socket' = socket /\ captureError' = captureError
      /\ session'.attempted = session.attempted /\ session'.started = session.started
      /\ session'.stopped = session.stopped /\ pipe'.packets = pipe.packets
      /\ pipe'.updates = pipe.updates /\ pipe'.broken = pipe.broken
      /\ snapshot'.confirmed = snapshot.confirmed /\ snapshot'.latched = snapshot.latched
      /\ lock' = lock /\ pc["sniffer"]' = pc["sniffer"] /\ hand' = hand /\ sent' = sent
      /\ accepted' = accepted /\ written' = written /\ finals' = finals
      /\ finalSeen' = finalSeen /\ announced' = announced /\ rawFailed' = rawFailed
  BY <1>b, <1>v
  DEF SolMoves, SolFlags, Solare!captureVars
<1>1. SolCapture' /\ SolHands' /\ SolHistory' /\ SolUnopened'
  BY <1>u
  DEF SolInv, SolCapture, SolHands, SolHistory, SolUnopened, Solare!CaptureTypeOK
<1>2. SolPut' /\ SolReleased' /\ SolConfirmed'
  BY <1>u
  DEF SolInv, SolPut, SolReleased, SolConfirmed
<1>3. SolSession'
  BY DEF SolFlags
<1>4. SolPipe'
  BY <1>u, <1>s, <1>a, <1>b, <1>r, <1>v
  DEF SolInv, SolPipe, Busy, Opens, Handles, Loops, Finishes, Empties, Closes, Gone, Settles,
      Writes
<1>5. SolSnapshot'
  BY <1>u, <1>s, <1>a, <1>b, <1>r, <1>v
  DEF SolInv, SolSnapshot, Busy, Opens, Handles, Loops, Finishes, Empties, Closes, Gone,
      Settles, Writes
<1>6. SolPlaces'
  BY <1>s
<1>7. SolControl'
  BY <1>s
<1>8. SolNew'
  BY <1>u, <1>s, <1>a, <1>b, <1>r, <1>v
  DEF SolInv, SolNew, Busy, Opens, Handles, Loops, Finishes, Empties, Closes, Gone, Settles,
      Writes
<1>9. SolStopsFirst'
  BY <1>u, <1>s, <1>a, <1>b, <1>r, <1>v, SolSets
  DEF SolInv, SolStopsFirst, Empties, Closes, Handles, Busy, Opens, Loops, Finishes, Gone,
      Settles, Writes
<1>10. SolDrained'
  BY <1>u, <1>s, <1>a, <1>b, <1>r, <1>v, SolSets
  DEF SolInv, SolDrained, Empties, Closes, Busy, Opens, Handles, Loops, Finishes, Gone, Settles,
      Writes
<1>11. SolClosed'
  BY <1>u, <1>s, <1>a, <1>b, <1>r, <1>v, SolSets
  DEF SolInv, SolClosed, Closes, Busy, Opens, Handles, Loops, Finishes, Empties, Gone, Settles,
      Writes
<1>12. SolStopped'
  BY <1>u, <1>s, <1>a, <1>b, <1>r, <1>v
  DEF SolInv, SolStopped, Gone, Busy, Opens, Handles, Loops, Finishes, Empties, Closes, Settles,
      Writes
<1>13. SolUnbroken'
  BY <1>u, <1>s, <1>a, <1>b, <1>r, <1>v, SolSets
  DEF SolInv, SolUnbroken, Loops, Handles, Busy, Opens, Finishes, Empties, Closes, Gone,
      Settles, Writes
<1>14. SolResult'
  <2>1. CASE l = "settle"
    BY <1>v, <2>1 DEF SolResult
  <2>2. CASE l # "settle"
    <3>1. snapshot.latched \in Verdicts /\ snapshot.confirmed \in BOOLEAN
      BY DEF SolInv, SolSnapshot
    <3>2. Solare!Verdict = "complete" <=> announced = "clean"
      BY <3>1, SolSets DEF SolInv, SolConfirmed, Solare!Verdict, Verdicts
    <3> QED
      BY <1>u, <1>v, <2>2, <3>2 DEF SolResult
  <2> QED
    BY <2>1, <2>2
<1>15. SolDecided'
  BY <1>u, <1>s, <1>a, <1>b, <1>r, <1>v, SolSets
  DEF SolInv, SolDecided, Closes, Busy, Opens, Handles, Loops, Finishes, Empties, Gone, Settles,
      Writes
<1>16. SolOnce'
  BY <1>u, <1>s, <1>a, <1>b, <1>r, <1>v, SolSets
  DEF SolInv, SolOnce, Settles, Busy, Opens, Handles, Loops, Finishes, Empties, Closes, Gone,
      Writes
<1>17. SolFinal'
  BY <1>u, <1>s, <1>a, <1>b, <1>r, <1>v, SolSets
  DEF SolInv, SolFinal, Settles, Kept, Busy, Opens, Handles, Loops, Finishes, Empties, Closes,
      Gone, Writes
<1>18. SolWriter'
  BY <1>u, <1>s, <1>a, <1>b, <1>r, <1>v, SolSets
  DEF SolInv, SolWriter, Closes, Busy, Opens, Handles, Loops, Finishes, Empties, Gone, Settles,
      Writes
<1>19. SolRaw'
  BY <1>u, <1>i, <1>b, SolRawKept DEF SolInv
<1> QED
  BY <1>1, <1>2, <1>3, <1>4, <1>5, <1>6, <1>7, <1>8, <1>9, <1>10, <1>11, <1>12, <1>13, <1>14,
      <1>15, <1>16, <1>17, <1>18, <1>19 DEF SolInv

(* A warning comes before the last update.                                  *)
LEMMA SolWarns ==
    ASSUME SolInv,
           NEW t \in Solare!Finishers,
           NEW l,
           Busy(t),
           SolMoves(t, l),
           SolGoesOn(t),
           SolFlags,
           doing[t] = "warn" /\ l = "finished" /\ lock = t,
           SolPipe' /\ pipe'.packets = pipe.packets,
           pipe'.writer = pipe.writer /\ pipe'.broken = pipe.broken,
           UNCHANGED <<Solare!captureVars, snapshot, lock, hand, sent, accepted, written, finals,
                       finalSeen, announced, rawFailed>>
    PROVE  SolInv'
<1>s. /\ SolControl' /\ ~session'.stopped /\ lock' = lock
      /\ lock = t \/ (t = "worker" /\ lock = None)
      /\ \A u \in Solare!Finishers : u # t => ~Busy(u) /\ ~Busy(u)' /\ doing'[u] = doing[u]
      /\ (Writing <=> Writes(t)) /\ (Writing' <=> Writes(t)')
      /\ t # "worker" => ~Loops("worker")' /\ ~Handles("worker")'
      /\ doing'[t] = l /\ SolPlaces'
  BY SolGoing DEF SolMoves
<1>a. ~Writes(t) /\ ~Writes(t)' /\ Closes(t)' /\ Closes(t) /\ lock = t /\ SolPipe'
  BY <1>s DEF Writes, Closes
<1>h. ~Writes(t) /\ ~Writes(t)'
  BY <1>s, <1>a DEF Writes, Loops, Handles, Finishes, Empties, Closes
<1>i. InHand' = InHand
  BY <1>s, <1>h, SolHandIs
<1>u. /\ startAttempted' = startAttempted /\ captureStarted' = captureStarted
      /\ captureStopped' = captureStopped /\ captureIncomplete' = captureIncomplete
      /\ sniffer' = sniffer /\ socket' = socket /\ captureError' = captureError
      /\ session'.attempted = session.attempted /\ session'.started = session.started
      /\ session'.stopped = session.stopped /\ pipe'.packets = pipe.packets
      /\ pipe'.writer = pipe.writer /\ pipe'.broken = pipe.broken /\ snapshot' = snapshot
      /\ lock' = lock /\ pc["sniffer"]' = pc["sniffer"] /\ hand' = hand /\ sent' = sent
      /\ accepted' = accepted /\ written' = written /\ finals' = finals
      /\ finalSeen' = finalSeen /\ announced' = announced /\ rawFailed' = rawFailed
  BY DEF SolMoves, SolFlags, Solare!captureVars
<1>1. SolCapture' /\ SolSnapshot' /\ SolHands' /\ SolHistory'
  BY <1>u
  DEF SolInv, SolCapture, SolSnapshot, SolHands, SolHistory, Solare!CaptureTypeOK
<1>2. SolNew' /\ SolUnopened' /\ SolPut' /\ SolReleased'
  BY <1>u
  DEF SolInv, SolNew, SolUnopened, SolPut, SolReleased
<1>3. SolConfirmed' /\ SolResult'
  BY <1>u
  DEF SolInv, SolConfirmed, SolResult
<1>4. SolSession'
  BY DEF SolFlags
<1>5. SolPipe'
  BY <1>u, <1>s, <1>a
  DEF SolInv, SolPipe, Busy, Opens, Handles, Loops, Finishes, Empties, Closes, Gone, Settles,
      Writes
<1>6. SolPlaces'
  BY <1>s
<1>7. SolControl'
  BY <1>s
<1>8. SolStopsFirst'
  BY <1>u, <1>s, <1>a, SolSets
  DEF SolInv, SolStopsFirst, Empties, Closes, Handles, Busy, Opens, Loops, Finishes, Gone,
      Settles, Writes
<1>9. SolDrained'
  BY <1>u, <1>s, <1>a, SolSets
  DEF SolInv, SolDrained, Empties, Closes, Busy, Opens, Handles, Loops, Finishes, Gone, Settles,
      Writes
<1>10. SolClosed'
  BY <1>u, <1>s, <1>a, SolSets
  DEF SolInv, SolClosed, Closes, Busy, Opens, Handles, Loops, Finishes, Empties, Gone, Settles,
      Writes
<1>11. SolStopped'
  BY <1>u, <1>s, <1>a
  DEF SolInv, SolStopped, Gone, Busy, Opens, Handles, Loops, Finishes, Empties, Closes, Settles,
      Writes
<1>12. SolUnbroken'
  BY <1>u, <1>s, <1>a, SolSets
  DEF SolInv, SolUnbroken, Loops, Handles, Busy, Opens, Finishes, Empties, Closes, Gone,
      Settles, Writes
<1>13. SolDecided'
  BY <1>u, <1>s, <1>a, SolSets
  DEF SolInv, SolDecided, Closes, Busy, Opens, Handles, Loops, Finishes, Empties, Gone, Settles,
      Writes
<1>14. SolOnce'
  BY <1>u, <1>s, <1>a, SolSets
  DEF SolInv, SolOnce, Settles, Busy, Opens, Handles, Loops, Finishes, Empties, Closes, Gone,
      Writes
<1>15. SolFinal'
  BY <1>u, <1>s, <1>a, SolSets
  DEF SolInv, SolFinal, Settles, Kept, Busy, Opens, Handles, Loops, Finishes, Empties, Closes,
      Gone, Writes
<1>16. SolWriter'
  BY <1>u, <1>s, <1>a, SolSets
  DEF SolInv, SolWriter, Closes, Busy, Opens, Handles, Loops, Finishes, Empties, Gone, Settles,
      Writes
<1>17. SolRaw'
  BY <1>u, <1>i, SolRawKept DEF SolInv
<1> QED
  BY <1>1, <1>2, <1>3, <1>4, <1>5, <1>6, <1>7, <1>8, <1>9, <1>10, <1>11, <1>12, <1>13, <1>14,
      <1>15, <1>16, <1>17 DEF SolInv

(* The last update is queued.                                               *)
LEMMA SolAnnounces ==
    ASSUME SolInv,
           NEW t \in Solare!Finishers,
           NEW l,
           Busy(t),
           SolMoves(t, l),
           SolGoesOn(t),
           SolFlags,
           doing[t] = "finished" /\ l = "settle" /\ lock = t,
           SolPipe' /\ pipe'.packets = pipe.packets,
           pipe'.writer = pipe.writer /\ pipe'.broken = pipe.broken,
           "finished" \in Solare!Range(pipe'.updates),
           finals' = finals + 1,
           UNCHANGED <<Solare!captureVars, snapshot, lock, hand, sent, accepted, written,
                       finalSeen, announced, rawFailed>>
    PROVE  SolInv'
<1>s. /\ SolControl' /\ ~session'.stopped /\ lock' = lock
      /\ lock = t \/ (t = "worker" /\ lock = None)
      /\ \A u \in Solare!Finishers : u # t => ~Busy(u) /\ ~Busy(u)' /\ doing'[u] = doing[u]
      /\ (Writing <=> Writes(t)) /\ (Writing' <=> Writes(t)')
      /\ t # "worker" => ~Loops("worker")' /\ ~Handles("worker")'
      /\ doing'[t] = l /\ SolPlaces'
  BY SolGoing DEF SolMoves
<1>a. /\ ~Writes(t) /\ ~Writes(t)' /\ Closes(t)' /\ Closes(t) /\ lock = t /\ SolPipe'
      /\ "finished" \in Solare!Range(pipe'.updates)
  BY <1>s DEF Writes, Closes
<1>r. finals = 0 /\ finals' = 1
  BY <1>s, <1>a, SolSets DEF SolInv, SolOnce, Settles, SolFlags
<1>h. ~Writes(t) /\ ~Writes(t)'
  BY <1>s, <1>a DEF Writes, Loops, Handles, Finishes, Empties, Closes
<1>i. InHand' = InHand
  BY <1>s, <1>h, SolHandIs
<1>u. /\ startAttempted' = startAttempted /\ captureStarted' = captureStarted
      /\ captureStopped' = captureStopped /\ captureIncomplete' = captureIncomplete
      /\ sniffer' = sniffer /\ socket' = socket /\ captureError' = captureError
      /\ session'.attempted = session.attempted /\ session'.started = session.started
      /\ session'.stopped = session.stopped /\ pipe'.packets = pipe.packets
      /\ pipe'.writer = pipe.writer /\ pipe'.broken = pipe.broken /\ snapshot' = snapshot
      /\ lock' = lock /\ pc["sniffer"]' = pc["sniffer"] /\ hand' = hand /\ sent' = sent
      /\ accepted' = accepted /\ written' = written /\ finalSeen' = finalSeen
      /\ announced' = announced /\ rawFailed' = rawFailed
  BY DEF SolMoves, SolFlags, Solare!captureVars
<1>1. SolCapture' /\ SolSnapshot' /\ SolHands'
  BY <1>u
  DEF SolInv, SolCapture, SolSnapshot, SolHands, Solare!CaptureTypeOK
<1>2. SolNew' /\ SolUnopened' /\ SolPut'
  BY <1>u
  DEF SolInv, SolNew, SolUnopened, SolPut
<1>3. SolReleased' /\ SolConfirmed' /\ SolResult'
  BY <1>u
  DEF SolInv, SolReleased, SolConfirmed, SolResult
<1>4. SolSession'
  BY DEF SolFlags
<1>5. SolPipe'
  BY <1>u, <1>s, <1>a, <1>r
  DEF SolInv, SolPipe, Busy, Opens, Handles, Loops, Finishes, Empties, Closes, Gone, Settles,
      Writes
<1>6. SolPlaces'
  BY <1>s
<1>7. SolHistory'
  BY <1>u, <1>s, <1>a, <1>r
  DEF SolInv, SolHistory, Busy, Opens, Handles, Loops, Finishes, Empties, Closes, Gone, Settles,
      Writes
<1>8. SolControl'
  BY <1>s
<1>9. SolStopsFirst'
  BY <1>u, <1>s, <1>a, <1>r, SolSets
  DEF SolInv, SolStopsFirst, Empties, Closes, Handles, Busy, Opens, Loops, Finishes, Gone,
      Settles, Writes
<1>10. SolDrained'
  BY <1>u, <1>s, <1>a, <1>r, SolSets
  DEF SolInv, SolDrained, Empties, Closes, Busy, Opens, Handles, Loops, Finishes, Gone, Settles,
      Writes
<1>11. SolClosed'
  BY <1>u, <1>s, <1>a, <1>r, SolSets
  DEF SolInv, SolClosed, Closes, Busy, Opens, Handles, Loops, Finishes, Empties, Gone, Settles,
      Writes
<1>12. SolStopped'
  BY <1>u, <1>s, <1>a, <1>r
  DEF SolInv, SolStopped, Gone, Busy, Opens, Handles, Loops, Finishes, Empties, Closes, Settles,
      Writes
<1>13. SolUnbroken'
  BY <1>u, <1>s, <1>a, <1>r, SolSets
  DEF SolInv, SolUnbroken, Loops, Handles, Busy, Opens, Finishes, Empties, Closes, Gone,
      Settles, Writes
<1>14. SolDecided'
  BY <1>u, <1>s, <1>a, <1>r, SolSets
  DEF SolInv, SolDecided, Closes, Busy, Opens, Handles, Loops, Finishes, Empties, Gone, Settles,
      Writes
<1>15. SolOnce'
  BY <1>u, <1>s, <1>a, <1>r, SolSets
  DEF SolInv, SolOnce, Settles, Busy, Opens, Handles, Loops, Finishes, Empties, Closes, Gone,
      Writes
<1>16. SolFinal'
  BY <1>u, <1>s, <1>a, <1>r, SolSets
  DEF SolInv, SolFinal, Settles, Kept, Busy, Opens, Handles, Loops, Finishes, Empties, Closes,
      Gone, Writes
<1>17. SolWriter'
  BY <1>u, <1>s, <1>a, <1>r, SolSets
  DEF SolInv, SolWriter, Closes, Busy, Opens, Handles, Loops, Finishes, Empties, Gone, Settles,
      Writes
<1>18. SolRaw'
  BY <1>u, <1>i, SolRawKept DEF SolInv
<1> QED
  BY <1>1, <1>2, <1>3, <1>4, <1>5, <1>6, <1>7, <1>8, <1>9, <1>10, <1>11, <1>12, <1>13, <1>14,
      <1>15, <1>16, <1>17, <1>18 DEF SolInv

(* The capture starts, or does not.                                         *)
LEMMA SolOpens ==
    ASSUME SolInv,
           NEW t \in Solare!Finishers,
           NEW l,
           Busy(t),
           SolMoves(t, l),
           SolGoesOn(t),
           SolFlags,
           t = "main" /\ doing[t] = "open",
           l = "launch" \/ l = "undo",
           ~startAttempted /\ startAttempted' /\ SolCapture',
           captureStopped' => sniffer' # "alive" /\ ~socket',
           UNCHANGED <<pipe, snapshot, lock, hand, sent, accepted, written, finals, finalSeen,
                       announced, rawFailed>>
    PROVE  SolInv'
<1>s. /\ SolControl' /\ ~session'.stopped /\ lock' = lock
      /\ lock = t \/ (t = "worker" /\ lock = None)
      /\ \A u \in Solare!Finishers : u # t => ~Busy(u) /\ ~Busy(u)' /\ doing'[u] = doing[u]
      /\ (Writing <=> Writes(t)) /\ (Writing' <=> Writes(t)')
      /\ t # "worker" => ~Loops("worker")' /\ ~Handles("worker")'
      /\ doing'[t] = l /\ SolPlaces'
  BY SolGoing DEF SolMoves
<1>a. pc["sniffer"] # "put" /\ lock # "worker"
  BY <1>s, SolSets DEF SolInv, SolPut, SolUnopened
<1>h. ~Writes(t) /\ ~Writes(t)'
  BY <1>s, <1>a DEF Writes, Loops, Handles, Finishes, Empties, Closes
<1>i. InHand' = InHand
  BY <1>s, <1>h, SolHandIs
<1>u. /\ session'.attempted = session.attempted /\ session'.started = session.started
      /\ session'.stopped = session.stopped /\ pipe' = pipe /\ snapshot' = snapshot
      /\ lock' = lock /\ pc["sniffer"]' = pc["sniffer"] /\ hand' = hand /\ sent' = sent
      /\ accepted' = accepted /\ written' = written /\ finals' = finals
      /\ finalSeen' = finalSeen /\ announced' = announced /\ rawFailed' = rawFailed
  BY DEF SolMoves, SolFlags, Solare!captureVars
<1>1. SolPipe' /\ SolSnapshot' /\ SolHands' /\ SolHistory'
  BY <1>u
  DEF SolInv, SolPipe, SolSnapshot, SolHands, SolHistory
<1>2. SolNew' /\ SolConfirmed' /\ SolResult'
  BY <1>u
  DEF SolInv, SolNew, SolConfirmed, SolResult
<1>3. SolCapture'
  OBVIOUS
<1>4. SolSession'
  BY DEF SolFlags
<1>5. SolPlaces'
  BY <1>s
<1>6. SolControl'
  BY <1>s
<1>7. SolUnopened'
  BY <1>u, <1>s, <1>a
  DEF SolInv, SolUnopened, Busy, Opens, Handles, Loops, Finishes, Empties, Closes, Gone,
      Settles, Writes
<1>8. SolPut'
  BY <1>u, <1>s, <1>a
  DEF SolInv, SolPut, Busy, Opens, Handles, Loops, Finishes, Empties, Closes, Gone, Settles,
      Writes
<1>9. SolReleased'
  BY <1>u, <1>s, <1>a
  DEF SolInv, SolReleased, Busy, Opens, Handles, Loops, Finishes, Empties, Closes, Gone,
      Settles, Writes
<1>10. SolStopsFirst'
  BY <1>u, <1>s, <1>a, SolSets
  DEF SolInv, SolStopsFirst, Empties, Closes, Handles, Busy, Opens, Loops, Finishes, Gone,
      Settles, Writes
<1>11. SolDrained'
  BY <1>u, <1>s, <1>a, SolSets
  DEF SolInv, SolDrained, Empties, Closes, Busy, Opens, Handles, Loops, Finishes, Gone, Settles,
      Writes
<1>12. SolClosed'
  BY <1>u, <1>s, <1>a, SolSets
  DEF SolInv, SolClosed, Closes, Busy, Opens, Handles, Loops, Finishes, Empties, Gone, Settles,
      Writes
<1>13. SolStopped'
  BY <1>u, <1>s, <1>a
  DEF SolInv, SolStopped, Gone, Busy, Opens, Handles, Loops, Finishes, Empties, Closes, Settles,
      Writes
<1>14. SolUnbroken'
  BY <1>u, <1>s, <1>a, SolSets
  DEF SolInv, SolUnbroken, Loops, Handles, Busy, Opens, Finishes, Empties, Closes, Gone,
      Settles, Writes
<1>15. SolDecided'
  BY <1>u, <1>s, <1>a, SolSets
  DEF SolInv, SolDecided, Closes, Busy, Opens, Handles, Loops, Finishes, Empties, Gone, Settles,
      Writes
<1>16. SolOnce'
  BY <1>u, <1>s, <1>a, SolSets
  DEF SolInv, SolOnce, Settles, Busy, Opens, Handles, Loops, Finishes, Empties, Closes, Gone,
      Writes
<1>17. SolFinal'
  BY <1>u, <1>s, <1>a, SolSets
  DEF SolInv, SolFinal, Settles, Kept, Busy, Opens, Handles, Loops, Finishes, Empties, Closes,
      Gone, Writes
<1>18. SolWriter'
  BY <1>u, <1>s, <1>a, SolSets
  DEF SolInv, SolWriter, Closes, Busy, Opens, Handles, Loops, Finishes, Empties, Gone, Settles,
      Writes
<1>19. SolRaw'
  BY <1>u, <1>i, SolRawKept DEF SolInv
<1> QED
  BY <1>1, <1>2, <1>3, <1>4, <1>5, <1>6, <1>7, <1>8, <1>9, <1>10, <1>11, <1>12, <1>13, <1>14,
      <1>15, <1>16, <1>17, <1>18, <1>19 DEF SolInv

(* The raw file or the worker cannot be made.                               *)
LEMMA SolUnlaunched ==
    ASSUME SolInv,
           NEW t \in Solare!Finishers,
           NEW l,
           Busy(t),
           SolMoves(t, l),
           SolGoesOn(t),
           SolFlags,
           t = "main" /\ doing[t] = "launch" /\ l = "undo",
           UNCHANGED <<Solare!captureVars, pipe, snapshot, lock, hand, sent, accepted, written,
                       finals, finalSeen, announced, rawFailed>>
    PROVE  SolInv'
<1>s. /\ SolControl' /\ ~session'.stopped /\ lock' = lock
      /\ lock = t \/ (t = "worker" /\ lock = None)
      /\ \A u \in Solare!Finishers : u # t => ~Busy(u) /\ ~Busy(u)' /\ doing'[u] = doing[u]
      /\ (Writing <=> Writes(t)) /\ (Writing' <=> Writes(t)')
      /\ t # "worker" => ~Loops("worker")' /\ ~Handles("worker")'
      /\ doing'[t] = l /\ SolPlaces'
  BY SolGoing DEF SolMoves
<1>h. ~Writes(t) /\ ~Writes(t)'
  BY <1>s DEF Writes, Loops, Handles, Finishes, Empties, Closes
<1>i. InHand' = InHand
  BY <1>s, <1>h, SolHandIs
<1>u. /\ startAttempted' = startAttempted /\ captureStarted' = captureStarted
      /\ captureStopped' = captureStopped /\ captureIncomplete' = captureIncomplete
      /\ sniffer' = sniffer /\ socket' = socket /\ captureError' = captureError
      /\ session'.attempted = session.attempted /\ session'.started = session.started
      /\ session'.stopped = session.stopped /\ pipe' = pipe /\ snapshot' = snapshot
      /\ lock' = lock /\ pc["sniffer"]' = pc["sniffer"] /\ hand' = hand /\ sent' = sent
      /\ accepted' = accepted /\ written' = written /\ finals' = finals
      /\ finalSeen' = finalSeen /\ announced' = announced /\ rawFailed' = rawFailed
  BY DEF SolMoves, SolFlags, Solare!captureVars
<1>1. SolCapture' /\ SolPipe' /\ SolSnapshot' /\ SolHands'
  BY <1>u
  DEF SolInv, SolCapture, SolPipe, SolSnapshot, SolHands, Solare!CaptureTypeOK
<1>2. SolHistory' /\ SolNew' /\ SolUnopened' /\ SolPut'
  BY <1>u
  DEF SolInv, SolHistory, SolNew, SolUnopened, SolPut
<1>3. SolReleased' /\ SolConfirmed' /\ SolResult'
  BY <1>u
  DEF SolInv, SolReleased, SolConfirmed, SolResult
<1>4. SolSession'
  BY DEF SolFlags
<1>5. SolPlaces'
  BY <1>s
<1>6. SolControl'
  BY <1>s
<1>7. SolStopsFirst'
  BY <1>u, <1>s, SolSets
  DEF SolInv, SolStopsFirst, Empties, Closes, Handles, Busy, Opens, Loops, Finishes, Gone,
      Settles, Writes
<1>8. SolDrained'
  BY <1>u, <1>s, SolSets
  DEF SolInv, SolDrained, Empties, Closes, Busy, Opens, Handles, Loops, Finishes, Gone, Settles,
      Writes
<1>9. SolClosed'
  BY <1>u, <1>s, SolSets
  DEF SolInv, SolClosed, Closes, Busy, Opens, Handles, Loops, Finishes, Empties, Gone, Settles,
      Writes
<1>10. SolStopped'
  BY <1>u, <1>s
  DEF SolInv, SolStopped, Gone, Busy, Opens, Handles, Loops, Finishes, Empties, Closes, Settles,
      Writes
<1>11. SolUnbroken'
  BY <1>u, <1>s, SolSets
  DEF SolInv, SolUnbroken, Loops, Handles, Busy, Opens, Finishes, Empties, Closes, Gone,
      Settles, Writes
<1>12. SolDecided'
  BY <1>u, <1>s, SolSets
  DEF SolInv, SolDecided, Closes, Busy, Opens, Handles, Loops, Finishes, Empties, Gone, Settles,
      Writes
<1>13. SolOnce'
  BY <1>u, <1>s, SolSets
  DEF SolInv, SolOnce, Settles, Busy, Opens, Handles, Loops, Finishes, Empties, Closes, Gone,
      Writes
<1>14. SolFinal'
  BY <1>u, <1>s, SolSets
  DEF SolInv, SolFinal, Settles, Kept, Busy, Opens, Handles, Loops, Finishes, Empties, Closes,
      Gone, Writes
<1>15. SolWriter'
  BY <1>u, <1>s, SolSets
  DEF SolInv, SolWriter, Closes, Busy, Opens, Handles, Loops, Finishes, Empties, Gone, Settles,
      Writes
<1>16. SolRaw'
  BY <1>u, <1>i, SolRawKept DEF SolInv
<1> QED
  BY <1>1, <1>2, <1>3, <1>4, <1>5, <1>6, <1>7, <1>8, <1>9, <1>10, <1>11, <1>12, <1>13, <1>14,
      <1>15, <1>16 DEF SolInv

-----------------------------------------------------------------------------
(* Every action of the session is one of these effects.  First, what the    *)
(* steps share: a thread in its loop does not hold the lock.                *)
LEMMA SolHeld ==
    ASSUME SolInv, NEW t \in Solare!Finishers, Busy(t)
    PROVE  /\ lock = t \/ (t = "worker" /\ lock # t)
           /\ Loops(t) => t = "worker" /\ lock # t
           /\ Opens(t) \/ Finishes(t) => lock = t
<1>1. lock = t \/ (t = "worker" /\ lock = None)
  BY SolSole
<1>2. Loops(t) => t = "worker" /\ lock # t
  BY <1>1, SolSets DEF SolInv, SolControl, SolHolder, SolCallers, Opens, Finishes, Empties, Closes,
     Handles, Loops
<1>3. Opens(t) \/ Finishes(t) => lock = t
  BY DEF SolInv, SolControl, SolLocked
<1> QED
  BY <1>1, <1>2, <1>3, SolSets

(* What each mark does to the flags of the session.                         *)
SessionRecords ==
    [attempted : BOOLEAN, started : BOOLEAN, requested : BOOLEAN, stopped : BOOLEAN,
     ready : BOOLEAN, incomplete : BOOLEAN, failed : BOOLEAN,
     reason : {None, "requested", "resource-limit", "error", "ended"}]
Flagged(s, r) ==
    /\ r \in SessionRecords
    /\ r.attempted = s.attempted /\ r.started = s.started /\ r.stopped = s.stopped

(* A failure is recorded, a stop is asked for.                              *)
LEMMA SolMarks ==
    ASSUME NEW s \in SessionRecords
    PROVE  /\ Flagged(s, s)
           /\ Flagged(s, Solare!Failing(s))
           /\ \A r \in {"requested", "resource-limit", "error"} :
                 Flagged(s, Solare!Requesting(s, r))
           /\ Flagged(s, [Solare!Failing(s) EXCEPT !.incomplete = TRUE])
           /\ Flagged(s, [s EXCEPT !.ready = TRUE])
           /\ Flagged(s, [s EXCEPT !.requested = TRUE])
           /\ Flagged(s, Solare!Requesting(Solare!Failing(s), "error"))
<1>1. Flagged(s, s) /\ Flagged(s, Solare!Failing(s))
  BY DEF SessionRecords, Flagged, Solare!Failing
<1>2. \A r \in {"requested", "resource-limit", "error"} :
         Flagged(s, Solare!Requesting(s, r))
  BY DEF SessionRecords, Flagged, Solare!Requesting
<1>3. Flagged(s, [Solare!Failing(s) EXCEPT !.incomplete = TRUE])
  BY DEF SessionRecords, Flagged, Solare!Failing
<1>4. Flagged(s, [s EXCEPT !.ready = TRUE]) /\ Flagged(s, [s EXCEPT !.requested = TRUE])
  BY DEF SessionRecords, Flagged
<1>5. Flagged(s, Solare!Requesting(Solare!Failing(s), "error"))
  BY DEF SessionRecords, Flagged, Solare!Requesting, Solare!Failing
<1> QED
  BY <1>1, <1>2, <1>3, <1>4, <1>5

(* So a step that does one of these keeps what the invariant asks of them.  *)
LEMMA SolFlagged ==
    ASSUME Flagged(session, session')
    PROVE  SolFlags
BY DEF Flagged, SessionRecords, SolFlags, SolSession

(* _emit: an update is queued, and a confirmation is latched.               *)
LEMMA SolEmits ==
    ASSUME SolInv, NEW t \in Solare!Finishers, NEW kind \in Kinds, NEW next \in Returns,
           NEW p \in PipeRecords, p.updates = pipe.updates,
           Solare!Emit(t, kind, next, p), kind = "confirmed" => ~snapshot.confirmed
    PROVE  /\ SolMoves(t, next) /\ SolPipe' /\ SolVerdict
           /\ pipe'.packets = p.packets /\ pipe'.writer = p.writer /\ pipe'.broken = p.broken
           /\ kind \in Solare!Range(pipe'.updates)
           /\ finals' = IF kind = "finished" THEN finals + 1 ELSE finals
           /\ kind # "confirmed" => UNCHANGED <<snapshot, announced>>
<1>1. /\ pc' = [pc EXCEPT ![t] = "notify"] /\ back' = [back EXCEPT ![t] = next]
      /\ pipe' = [p EXCEPT !.updates = Solare!Queued(@, kind)]
      /\ finals' = IF kind = "finished" THEN finals + 1 ELSE finals
  BY DEF Solare!Emit, Solare!Goto
<1>2. SolMoves(t, next)
  BY <1>1, SolCallback DEF SolInv
<1>3. /\ Solare!Queued(p.updates, kind) \in Seq(Kinds)
      /\ Len(Solare!Queued(p.updates, kind)) <= UpdateQueueSize
      /\ kind \in Solare!Range(Solare!Queued(p.updates, kind))
  <2>1. p.updates \in Seq(Kinds)
    BY DEF PipeRecords
  <2> QED
    BY <2>1, SolQueued
<1>4. /\ SolPipe' /\ pipe'.packets = p.packets /\ pipe'.writer = p.writer
      /\ pipe'.broken = p.broken /\ kind \in Solare!Range(pipe'.updates)
  BY <1>1, <1>3 DEF SolPipe, PipeRecords
<1>5. kind # "confirmed" => UNCHANGED <<snapshot, announced>>
  BY DEF Solare!Emit
<1>6. SolVerdict
  <2>1. CASE kind # "confirmed"
    BY <1>5, <2>1 DEF SolInv, SolSnapshot, SolHistory, SolVerdict
  <2>2. CASE kind = "confirmed"
    <3>1. snapshot' = Solare!LatchedConfirmation(snapshot, p) /\ announced' = Solare!Health(p)
      BY <2>2 DEF Solare!Emit
    <3>2. snapshot.latched = None
      BY <2>2 DEF SolInv, SolConfirmed
    <3>3. /\ Solare!Health(p) \in {"clean", "lossy"} /\ Solare!Health(p) # None
          /\ Solare!Health(p) \in Verdicts
      BY SolSets DEF Solare!Health, Verdicts
    <3>4. snapshot' = [snapshot EXCEPT !.confirmed = TRUE, !.latched = Solare!Health(p)]
      BY <3>1, <3>2 DEF Solare!LatchedConfirmation, SolInv, SolSnapshot
    <3> QED
      BY <3>1, <3>3, <3>4 DEF SolInv, SolSnapshot, SolVerdict
  <2> QED
    BY <2>1, <2>2
<1> QED
  BY <1>1, <1>2, <1>4, <1>5, <1>6

(* A callback returns, or raises.                                           *)
LEMMA SolNotifies ==
    ASSUME SolInv, NEW t \in Solare!Finishers, Solare!Notify(t)
    PROVE  SolInv'
<1>1. pc[t] = "notify" /\ pc' = [pc EXCEPT ![t] = back[t]] /\ back' = back
  BY DEF Solare!Notify, Solare!Goto
<1>2. SolPlaces' /\ pc'["sniffer"] = pc["sniffer"] /\ doing' = doing
  BY <1>1, SolReturns DEF SolInv
<1>3. SolFlags
  BY DEF Solare!Notify, Solare!Requesting, Solare!Failing, SolInv, SolSession, SolFlags
<1>4. UNCHANGED <<Solare!captureVars, pipe, snapshot, lock, hand, sent, accepted, written, finals,
              finalSeen, announced, rawFailed>>
  BY DEF Solare!Notify, Solare!history
<1> QED
  BY <1>2, <1>3, <1>4, SolQuiet

(* A packet arrives.                                                        *)
LEMMA SolArriving ==
    ASSUME SolInv, pc["sniffer"] = "idle", sniffer = "alive", sent' = sent + 1,
           Solare!Goto("sniffer", "put"),
           UNCHANGED <<Solare!captureVars, session, pipe, snapshot, lock, back, hand,
              accepted, written, finals, finalSeen, announced, rawFailed>>
    PROVE  SolInv'
<1>1. /\ "sniffer" \in SolThreads /\ "sniffer" \notin Solare!Finishers
      /\ Solare!Finishers \subseteq SolThreads
      /\ "put" \in Solare!Labels
  BY SolSets DEF Solare!Labels
<1>2. pc' = [pc EXCEPT !["sniffer"] = "put"] /\ \A u \in Solare!Finishers : pc'[u] = pc[u]
  BY <1>1 DEF Solare!Goto, SolInv, SolPlaces
<1>3. SolPlaces' /\ doing' = doing
  BY <1>1, <1>2 DEF SolInv, SolPlaces, doing
<1>4. sent' \in Nat
  BY DEF SolInv, SolHands
<1> QED
  BY <1>3, <1>4, SolArrives

(* The native callback puts it, or finds no room.                           *)
LEMMA SolPutting ==
    ASSUME SolInv, Solare!PutPacket
    PROVE  SolInv'
<1>1. /\ "sniffer" \in SolThreads /\ "sniffer" \notin Solare!Finishers
      /\ Solare!Finishers \subseteq SolThreads
      /\ "idle" \in Solare!Labels
  BY SolSets DEF Solare!Labels
<1>2. pc' = [pc EXCEPT !["sniffer"] = "idle"] /\ pc["sniffer"] = "put" /\ back' = back
  BY DEF Solare!PutPacket, Solare!Goto
<1>3. /\ pc'["sniffer"] = "idle" /\ SolPlaces' /\ doing' = doing
  BY <1>1, <1>2 DEF SolInv, SolPlaces, doing
<1>4. CASE Len(pipe.packets) < PacketQueueSize
  <2>1. pipe' = [pipe EXCEPT !.packets = Append(@, sent)] /\ accepted' = Append(accepted, sent)
    BY <1>4 DEF Solare!PutPacket
  <2>2. UNCHANGED <<Solare!captureVars, session, snapshot, lock, hand, sent, written, finals,
              finalSeen, announced, rawFailed>>
    BY <1>4 DEF Solare!PutPacket, Solare!environment
  <2> QED
    BY <1>2, <1>3, <2>1, <2>2, SolPuts
<1>5. CASE ~(Len(pipe.packets) < PacketQueueSize)
  <2>1. pipe' = [pipe EXCEPT !.overflow = TRUE]
    BY <1>5 DEF Solare!PutPacket
  <2>2. SolFlags
    BY <1>5 DEF Solare!PutPacket, Solare!Requesting, SolInv, SolSession, SolFlags
  <2>3. UNCHANGED <<Solare!captureVars, snapshot, lock, hand, sent, accepted, written, finals,
              finalSeen, announced, rawFailed>>
    BY <1>5 DEF Solare!PutPacket, Solare!environment
  <2> QED
    BY <1>3, <2>1, <2>2, <2>3, SolOverflows
<1> QED
  BY <1>4, <1>5

(* The capture ends by itself.                                              *)
LEMMA SolEnding ==
    ASSUME SolInv, Solare!SourceEnds
    PROVE  SolInv'
<1>1. Solare!CaptureEnds /\ pc["sniffer"] = "idle"
  BY DEF Solare!SourceEnds
<1>2. UNCHANGED <<session, pipe, snapshot, lock, pc, back, hand, sent, accepted, written, finals,
              finalSeen, announced, rawFailed>>
  BY DEF Solare!SourceEnds, Solare!history, Solare!environment
<1> QED
  BY <1>1, <1>2, SolEnds

(* start.                                                                   *)
LEMMA SolStarting ==
    ASSUME SolInv, Solare!Start
    PROVE  SolInv'
<1>1. ~session.attempted /\ lock = None /\ pc["main"] = "idle"
  BY DEF Solare!Start
<1>2. CASE /\ session' = [session EXCEPT !.attempted = TRUE]
           /\ Solare!Goto("main", "open") /\ lock' = "main" /\ UNCHANGED failures
  <2>1. SolMoves("main", "open")
    <3>1. "open" \in Solare!Labels /\ "main" \in Solare!Finishers /\ back' = back
      BY SolSets DEF Solare!Labels, Solare!Start
    <3> QED
      BY <1>2, <3>1, SolGoto DEF Solare!Goto, SolInv
  <2>2. /\ SolSession' /\ session'.attempted
        /\ session'.started = session.started /\ session'.stopped = session.stopped
    BY <1>2 DEF SolInv, SolSession
  <2>3. UNCHANGED <<Solare!captureVars, pipe, snapshot, hand, sent, accepted, written, finals,
              finalSeen, announced, rawFailed>>
    BY DEF Solare!Start, Solare!history
  <2> QED
    BY <1>1, <1>2, <2>1, <2>2, <2>3, SolStarts
<1>3. CASE /\ Solare!MayFail
           /\ session' = [Solare!Failing(session) EXCEPT !.attempted = TRUE, !.ready = TRUE,
                              !.reason = "error", !.stopped = TRUE]
           /\ UNCHANGED <<pc, lock>>
  <2>1. /\ SolSession' /\ session'.attempted /\ session'.stopped
        /\ session'.started = session.started
    BY <1>3 DEF SolInv, SolSession, Solare!Failing
  <2>2. UNCHANGED <<Solare!captureVars, pipe, snapshot, lock, pc, back, hand, sent, accepted,
                    written, finals, finalSeen, announced, rawFailed>>
    BY <1>3 DEF Solare!Start, Solare!history
  <2> QED
    BY <1>1, <2>1, <2>2, SolStartFails
<1> QED
  BY <1>2, <1>3 DEF Solare!Start

(* The capture is opened, or not.                                           *)
LEMMA SolOpeningCapture ==
    ASSUME SolInv, Solare!OpenCapture
    PROVE  SolInv'
<1>1. /\ pc["main"] = "open" /\ "main" \in Solare!Finishers /\ doing["main"] = "open"
      /\ Busy("main") /\ Opens("main") /\ lock = "main"
  BY SolSets DEF Solare!OpenCapture, doing, Busy, Opens, SolInv, SolControl, SolLocked
<1>2. PICK l \in {"launch", "undo"} : Solare!Goto("main", l)
  BY DEF Solare!OpenCapture
<1>3. SolMoves("main", l) /\ doing'["main"] = l
  <2>1. l \in Solare!Labels /\ l # "notify" /\ back' = back
    BY <1>2 DEF Solare!OpenCapture, Solare!Labels
  <2> QED
    BY <1>1, <1>2, <2>1, SolGoto DEF Solare!Goto, SolInv, SolMoves
<1>4. SolGoesOn("main")
  BY <1>1, <1>2, <1>3 DEF SolGoesOn, Opens
<1>5. SolFlags
  BY DEF Solare!OpenCapture, SolInv, SolSession, SolFlags
<1>6. /\ ~startAttempted /\ startAttempted' /\ SolCapture'
      /\ captureStopped' => sniffer' # "alive" /\ ~socket'
  <2>1. SolCapture /\ (captureStopped => sniffer # "alive" /\ ~socket)
    BY DEF SolInv, SolReleased
  <2>2. CASE Solare!CaptureStartOK
    <3>1. ~captureStopped
      BY <2>2 DEF SolInv, SolUnopened, Solare!CaptureStartOK
    <3> QED
      BY <2>1, <2>2, <3>1, SessionsConstants
      DEF Solare!CaptureStartOK, SolCapture, Solare!CaptureTypeOK, Solare!SolareConstants
  <2>3. CASE Solare!CaptureStartRefused
    BY <2>1, <2>3 DEF Solare!CaptureStartRefused, SolCapture, Solare!CaptureTypeOK
  <2>4. CASE Solare!CaptureStartFailed
    BY <2>1, <2>4 DEF Solare!CaptureStartFailed, SolCapture, Solare!CaptureTypeOK
  <2> QED
    BY <2>2, <2>3, <2>4 DEF Solare!OpenCapture
<1>7. UNCHANGED <<pipe, snapshot, lock, hand, sent, accepted, written, finals, finalSeen,
                  announced, rawFailed>>
  BY DEF Solare!OpenCapture, Solare!history
<1> QED
  BY <1>1, <1>2, <1>3, <1>4, <1>5, <1>6, <1>7, SolOpens

(* The worker begins, or the raw file cannot be opened.                     *)
LEMMA SolLaunching ==
    ASSUME SolInv, Solare!Launch
    PROVE  SolInv'
<1>1. /\ pc["main"] = "launch" /\ "main" \in Solare!Finishers /\ doing["main"] = "launch"
      /\ Busy("main") /\ Opens("main") /\ lock = "main"
  BY SolSets DEF Solare!Launch, doing, Busy, Opens, SolInv, SolControl, SolLocked
<1>2. CASE /\ pipe' = [pipe EXCEPT !.writer = SavePcap, !.updates = Solare!Queued(@, "ready")]
           /\ session' = [session EXCEPT !.started = TRUE]
           /\ pc' = [pc EXCEPT !["main"] = "notify", !["worker"] = "wait"]
           /\ back' = [back EXCEPT !["main"] = "idle"]
           /\ lock' = None
           /\ UNCHANGED failures
  <2>1. /\ Solare!Queued(pipe.updates, "ready") \in Seq(Kinds)
        /\ Len(Solare!Queued(pipe.updates, "ready")) <= UpdateQueueSize
    <3>1. pipe.updates \in Seq(Kinds) /\ "ready" \in Kinds
      BY DEF SolInv, SolPipe, PipeRecords, Kinds
    <3> QED
      BY <3>1, SolQueued
  <2>2. /\ SolPipe' /\ pipe'.packets = pipe.packets
        /\ pipe'.writer = SavePcap /\ pipe'.broken = pipe.broken
    BY <1>2, <2>1, SessionsConstants DEF SolInv, SolPipe, PipeRecords, Solare!SolareConstants
  <2>3. /\ SolThreads = {"main", "stopper", "worker", "sniffer", "consumer"}
        /\ Solare!Finishers = {"main", "stopper", "worker"}
        /\ "notify" \in Solare!Labels /\ "wait" \in Solare!Labels /\ "idle" \in Solare!Labels
        /\ "idle" \in Returns
    BY SolSets DEF Solare!Labels, Returns
  <2>4. /\ pc' \in [SolThreads -> Solare!Labels] /\ pc'["sniffer"] = pc["sniffer"]
        /\ pc'["main"] = "notify" /\ pc'["worker"] = "wait" /\ pc'["stopper"] = pc["stopper"]
        /\ back' \in [Solare!Finishers -> Solare!Labels \cup {None}]
        /\ back'["main"] = "idle" /\ back'["stopper"] = back["stopper"]
    BY <1>2, <2>3 DEF SolInv, SolPlaces
  <2>5. SolPlaces'
    BY <2>3, <2>4 DEF SolInv, SolPlaces
  <2>6. doing'["main"] = "idle" /\ doing'["worker"] = "wait" /\ doing'["stopper"] = doing["stopper"]
    BY <2>3, <2>4 DEF doing
  <2>7. /\ SolSession' /\ session'.started /\ session'.attempted = session.attempted
        /\ session'.stopped = session.stopped
    BY <1>2 DEF SolInv, SolSession
  <2>8. UNCHANGED <<Solare!captureVars, snapshot, hand, sent, accepted, written, finals, finalSeen,
              announced, rawFailed>>
    BY DEF Solare!Launch, Solare!history
  <2> QED
    BY <1>1, <1>2, <2>2, <2>4, <2>5, <2>6, <2>7, <2>8, SolLaunches
<1>3. CASE /\ Solare!MayFail /\ Solare!Goto("main", "undo")
           /\ UNCHANGED <<pipe, session, back, lock>>
  <2>1. SolMoves("main", "undo") /\ doing'["main"] = "undo"
    <3>1. "undo" \in Solare!Labels
      BY DEF Solare!Labels
    <3> QED
      BY <1>1, <1>3, <3>1, SolGoto DEF Solare!Goto, SolInv, SolMoves
  <2>2. SolGoesOn("main")
    BY <1>1, <2>1 DEF SolGoesOn, Opens
  <2>3. SolFlags
    BY <1>3 DEF SolInv, SolSession, SolFlags
  <2>4. UNCHANGED <<Solare!captureVars, pipe, snapshot, lock, hand, sent, accepted, written, finals,
              finalSeen, announced, rawFailed>>
    BY <1>3 DEF Solare!Launch, Solare!history
  <2> QED
    BY <1>1, <2>1, <2>2, <2>3, <2>4, SolUnlaunched
<1> QED
  BY <1>2, <1>3 DEF Solare!Launch

(* What a failed start rolls back.                                          *)
LEMMA SolUndoing ==
    ASSUME SolInv, Solare!Undo
    PROVE  SolInv'
<1>1. doing["main"] = "undo" /\ "main" \in Solare!Finishers /\ pc["main"] = "undo" /\ lock' = None
  BY SolSets DEF Solare!Undo, doing
<1>2. CaptureGoes
  BY SolStopAttempt DEF Solare!Undo
<1>3. SolMoves("main", "idle")
  <2>1. "idle" \in Solare!Labels /\ back' = back
    BY DEF Solare!Labels, Solare!Undo
  <2> QED
    BY <1>1, <2>1, SolGoto DEF Solare!Goto, Solare!Undo, SolInv
<1>4. /\ rawFailed' /\ startAttempted' = startAttempted
      /\ UNCHANGED <<snapshot, hand, sent, accepted, written, finals, finalSeen, announced>>
  BY <1>2 DEF Solare!Undo, CaptureGoes
<1>5. CASE captureStopped'
  <2>1. /\ SolSession' /\ session'.stopped /\ session'.attempted = session.attempted
        /\ session'.started = session.started
    BY <1>5 DEF Solare!Undo, Solare!Failing, SolInv, SolSession
  <2>2. pipe' = [pipe EXCEPT !.packets = <<>>]
    BY <1>5 DEF Solare!Undo
  <2> QED
    BY <1>1, <1>2, <1>3, <1>4, <1>5, <2>1, <2>2, SolUndone
<1>6. CASE ~captureStopped'
  <2>1. /\ SolSession' /\ session'.started /\ session'.attempted = session.attempted
        /\ session'.stopped = session.stopped
    BY <1>6 DEF Solare!Undo, Solare!Failing, SolInv, SolSession
  <2>2. pipe' = pipe
    BY <1>6 DEF Solare!Undo
  <2> QED
    BY <1>1, <1>2, <1>3, <1>4, <2>1, <2>2, SolUndoKept
<1> QED
  BY <1>5, <1>6

(* A step of the worker in its loop.                                        *)
LEMMA SolTurning ==
    ASSUME SolInv, NEW from, NEW l \in Solare!Labels, pc["worker"] = from,
           from \in {"wait", "loop", "empty", "service", "check"},
           l \in {"loop", "empty", "service", "check", "lock"},
           Solare!Goto("worker", l), SolFlags,
           UNCHANGED <<Solare!captureVars, pipe, snapshot, lock, back, hand, sent, accepted,
              written, finals, finalSeen, announced, rawFailed>>
    PROVE  SolInv'
<1>1. "worker" \in Solare!Finishers /\ doing["worker"] = from /\ Loops("worker") /\ Busy("worker")
  BY SolSets DEF doing, Loops, Busy
<1>2. lock # "worker"
  BY <1>1, SolHeld
<1>3. SolMoves("worker", l) /\ doing'["worker"] = l
  BY <1>1, SolGoto DEF Solare!Goto, SolInv, SolMoves
<1>4. Loops("worker")' \/ l = "lock"
  BY <1>3 DEF Loops
<1>5. SolGoesOn("worker")
  BY <1>2, <1>3, <1>4 DEF SolGoesOn
<1> QED
  BY <1>1, <1>2, <1>3, <1>4, <1>5, SolTurns

(* _run_worker: one turn.                                                   *)
LEMMA SolLoop ==
    ASSUME SolInv, Solare!Loop
    PROVE  SolInv'
<1>1. "worker" \in Solare!Finishers /\ pc["worker"] \in {"wait", "loop"}
      /\ {"lock", "empty", "write"} \subseteq Solare!Labels
  BY SolSets DEF Solare!Loop, Solare!Labels
<1>2. Flagged(session, session)
  BY SolMarks DEF SolInv, SolSession, SessionRecords
<1>3. CASE Solare!Goto("worker", "lock") /\ UNCHANGED <<pipe, hand>>
           /\ session' \in {session, Solare!Failing(session)}
  <2>1. SolFlags
    BY <1>3, SolMarks, SolFlagged DEF SolInv, SolSession, SessionRecords
  <2>2. UNCHANGED <<Solare!captureVars, pipe, snapshot, lock, back, hand, sent, accepted, written,
              finals, finalSeen, announced, rawFailed>>
    BY <1>3 DEF Solare!Loop, Solare!history, Solare!environment
  <2> QED
    BY <1>1, <1>3, <2>1, <2>2, SolTurning
<1>4. CASE Solare!Goto("worker", "empty") /\ UNCHANGED <<session, pipe, hand>>
  <2>1. SolFlags
    BY <1>2, <1>4, SolFlagged
  <2>2. UNCHANGED <<Solare!captureVars, pipe, snapshot, lock, back, hand, sent, accepted, written,
              finals, finalSeen, announced, rawFailed>>
    BY <1>4 DEF Solare!Loop, Solare!history, Solare!environment
  <2> QED
    BY <1>1, <1>4, <2>1, <2>2, SolTurning
<1>5. CASE /\ pipe.packets # <<>> /\ hand' = Head(pipe.packets)
           /\ pipe' = [pipe EXCEPT !.packets = Tail(@)]
           /\ Solare!Goto("worker", "write") /\ UNCHANGED session
  <2>1. doing["worker"] = pc["worker"] /\ Loops("worker") /\ Busy("worker")
    BY <1>1 DEF doing, Loops, Busy
  <2>2. lock # "worker"
    BY <1>1, <2>1, SolHeld
  <2>3. SolMoves("worker", "write") /\ doing'["worker"] = "write"
    <3>1. back' = back
      BY DEF Solare!Loop
    <3> QED
      BY <1>1, <1>5, <3>1, SolGoto DEF Solare!Goto, SolInv, SolMoves
  <2>4. SolGoesOn("worker")
    BY <2>2, <2>3 DEF SolGoesOn, Handles
  <2>5. SolFlags
    BY <1>2, <1>5, SolFlagged
  <2>6. UNCHANGED <<Solare!captureVars, snapshot, lock, sent, accepted, written, finals, finalSeen,
              announced, rawFailed>>
    BY DEF Solare!Loop, Solare!history, Solare!environment
  <2> QED
    BY <1>1, <1>5, <2>1, <2>2, <2>3, <2>4, <2>5, <2>6, SolTakes
<1> QED
  BY <1>3, <1>4, <1>5 DEF Solare!Loop

(* Nothing was queued; the evidence is or is not complete.                  *)
LEMMA SolFoundEmpty ==
    ASSUME SolInv, Solare!FoundEmpty \/ Solare!CheckComplete
    PROVE  SolInv'
<1>1. PICK l \in {"loop", "service", "lock"} : Solare!Goto("worker", l)
  BY DEF Solare!FoundEmpty, Solare!CheckComplete
<1>2. pc["worker"] \in {"empty", "check"} /\ l \in Solare!Labels
  BY DEF Solare!FoundEmpty, Solare!CheckComplete, Solare!Labels
<1>3. SolFlags
  BY DEF Solare!FoundEmpty, Solare!CheckComplete, SolInv, SolSession, SolFlags
<1>4. UNCHANGED <<Solare!captureVars, pipe, snapshot, lock, back, hand, sent, accepted, written,
                  finals, finalSeen, announced, rawFailed>>
  BY DEF Solare!FoundEmpty, Solare!CheckComplete, Solare!history, Solare!environment
<1> QED
  BY <1>1, <1>2, <1>3, <1>4, SolTurning

(* A thread that decodes, and where it is.                                  *)
LEMMA SolDecoding ==
    ASSUME SolInv, NEW t \in Solare!Finishers, pc[t] \in {"decode", "decoded", "service", "final"}
    PROVE  /\ doing[t] = pc[t] /\ Busy(t)
           /\ Handles(t) \/ doing[t] = "service" \/ doing[t] = "final"
           /\ lock = t => doing[t] # "service"
           /\ lock # t => t = "worker" /\ doing[t] # "final"
           /\ lock = t \/ ~Opens(t)
           /\ ~Opens(t)
<1>1. doing[t] = pc[t] /\ Busy(t)
  BY DEF doing, Busy, Handles, Loops, Finishes, Empties
<1>2. lock = t => doing[t] # "service"
  BY <1>1, SolHeld DEF Loops
<1>3. lock # t => t = "worker" /\ doing[t] # "final"
  BY <1>1, SolHeld DEF Finishes, Empties
<1> QED
  BY <1>1, <1>2, <1>3 DEF Handles, Opens

(* It announces a step of the evidence.                                     *)
LEMMA SolTells ==
    ASSUME SolInv, NEW t \in Solare!Finishers, pc[t] \in {"decode", "decoded", "service", "final"},
           NEW kind \in Kinds \ {"finished"}, NEW next \in Returns, NEW p \in PipeRecords,
           p.updates = pipe.updates, p.packets = pipe.packets, p.writer = pipe.writer,
           p.broken = pipe.broken, Solare!Emit(t, kind, next, p),
           kind = "confirmed" => ~snapshot.confirmed,
           \/ lock = t /\ next \in {"decode", "decoded", "drain"}
           \/ lock # t /\ next \in {"decode", "decoded", "check", "service"}
           \/ pc[t] = "final" /\ next = "build",
           UNCHANGED <<Solare!captureVars, session, lock, hand, sent, accepted, written, finalSeen,
                       rawFailed>>
    PROVE  SolInv'
<1>1. /\ SolMoves(t, next) /\ SolPipe' /\ SolVerdict /\ pipe'.packets = pipe.packets
      /\ pipe'.writer = pipe.writer /\ pipe'.broken = pipe.broken /\ finals' = finals
  BY SolEmits
<1>2. /\ doing[t] = pc[t] /\ Busy(t)
      /\ Handles(t) \/ doing[t] = "service" \/ doing[t] = "final"
      /\ lock # t => t = "worker" /\ doing[t] # "final"
      /\ ~Opens(t)
  BY SolDecoding
<1>3. doing'[t] = next
  BY <1>1 DEF SolMoves
<1>4. SolGoesOn(t)
  BY <1>2, <1>3 DEF SolGoesOn, Opens, Handles, Loops, Finishes, Empties
<1>5. SolFlags
  BY DEF SolInv, SolSession, SolFlags
<1>6. Goal(t, next) /\ doing[t] # "write"
  BY <1>2 DEF Goal
<1> QED
  BY <1>1, <1>2, <1>4, <1>5, <1>6, SolDecodes

(* It goes on without a word, or fails.                                     *)
LEMMA SolSilent ==
    ASSUME SolInv, NEW t \in Solare!Finishers, pc[t] \in {"decode", "decoded", "service", "final"},
           NEW l \in Solare!Labels, Solare!Goto(t, l), back' = back,
           pipe' \in PipeRecords, pipe'.updates = pipe.updates, pipe'.packets = pipe.packets,
           pipe'.writer = pipe.writer,
           pipe'.broken = pipe.broken \/ lock = t \/ l = "lock",
           UNCHANGED <<snapshot, announced, finals>>, SolFlags,
           \/ lock = t /\ l \in {"decode", "decoded", "drain"}
           \/ lock # t /\ l \in {"decode", "decoded", "check", "service", "lock"}
           \/ pc[t] = "final" /\ l = "build",
           UNCHANGED <<Solare!captureVars, lock, hand, sent, accepted, written, finalSeen,
                       rawFailed>>
    PROVE  SolInv'
<1>1. /\ doing[t] = pc[t] /\ Busy(t)
      /\ Handles(t) \/ doing[t] = "service" \/ doing[t] = "final"
      /\ lock # t => t = "worker" /\ doing[t] # "final"
      /\ ~Opens(t)
  BY SolDecoding
<1>2. SolMoves(t, l) /\ doing'[t] = l
  <2>1. l # "notify"
    OBVIOUS
  <2> QED
    BY <2>1, SolGoto DEF Solare!Goto, SolInv, SolMoves
<1>3. SolGoesOn(t)
  BY <1>1, <1>2 DEF SolGoesOn, Opens, Handles, Loops, Finishes, Empties
<1>4. SolPipe'
  BY DEF SolInv, SolPipe
<1>5. SolVerdict
  BY DEF SolInv, SolSnapshot, SolHistory, SolVerdict
<1>6. Goal(t, l) /\ doing[t] # "write"
  BY <1>1 DEF Goal
<1> QED
  BY <1>1, <1>2, <1>3, <1>4, <1>5, <1>6, SolDecodes

(* _service_drained_clocks.                                                 *)
LEMMA SolServing ==
    ASSUME SolInv, Solare!Service
    PROVE  SolInv'
<1>1. /\ "worker" \in Solare!Finishers /\ pc["worker"] = "service" /\ lock # "worker"
  BY SolSets, SolDecoding DEF Solare!Service
<1>2. pipe \in PipeRecords /\ Flagged(session, session)
  BY SolMarks DEF SolInv, SolPipe, SolSession, SessionRecords
<1>3. UNCHANGED <<Solare!captureVars, lock, hand, sent, accepted, written, finalSeen, rawFailed>>
  BY DEF Solare!Service
<1>4. CASE /\ Solare!Goto("worker", "check")
           /\ UNCHANGED <<session, pipe, snapshot, back, failures, finals, announced>>
  <2>1. "check" \in Solare!Labels /\ SolFlags
    BY <1>2, <1>4, SolFlagged DEF Solare!Labels
  <2> QED
    BY <1>1, <1>2, <1>3, <1>4, <2>1, SolSilent
<1>5. CASE /\ ~snapshot.confirmed /\ Solare!Emit("worker", "confirmed", "check", pipe)
           /\ UNCHANGED <<session, failures>>
  <2>1. "confirmed" \in Kinds \ {"finished"} /\ "check" \in Returns
    BY DEF Kinds, Returns
  <2> QED
    BY <1>1, <1>2, <1>3, <1>5, <2>1, SolTells
<1>6. CASE /\ session' = Solare!Failing(session) /\ Solare!Goto("worker", "lock")
           /\ UNCHANGED <<pipe, snapshot, back, finals, announced>>
  <2>1. "lock" \in Solare!Labels /\ SolFlags
    BY <1>2, <1>6, SolMarks, SolFlagged DEF Solare!Labels, Flagged
  <2> QED
    BY <1>1, <1>2, <1>3, <1>6, <2>1, SolSilent
<1> QED
  BY <1>4, <1>5, <1>6 DEF Solare!Service

(* _process_packet: the packet is written.                                  *)
LEMMA SolWriting ==
    ASSUME SolInv, NEW t \in Solare!Finishers, Solare!WritePacket(t)
    PROVE  SolInv'
<1> DEFINE l == IF pipe.broken THEN "drain" ELSE "decode"
<1>1. doing[t] = "write" /\ Busy(t) /\ Handles(t)
  BY DEF Solare!WritePacket, doing, Busy, Handles
<1>2. l \in Solare!Labels /\ l # "notify" /\ (l = "drain" \/ (l = "decode" /\ ~pipe.broken))
  BY DEF Solare!Labels
<1>3. SolMoves(t, l) /\ doing'[t] = l
  <2> HIDE DEF l
  <2>1. pc' = [pc EXCEPT ![t] = l] /\ back' = back
    BY DEF Solare!WritePacket, Solare!Goto, l
  <2> QED
    BY <1>2, <2>1, SolGoto DEF SolInv, SolMoves
<1>4. lock # t => t = "worker" /\ l = "decode"
  <2>1. lock # t => t = "worker"
    BY <1>1, SolHeld
  <2> QED
    BY <1>1, <2>1 DEF SolInv, SolUnbroken
<1> HIDE DEF l
<1>5. SolGoesOn(t)
  BY <1>1, <1>2, <1>3, <1>4 DEF SolGoesOn, Opens, Handles, Finishes
<1>6. CASE /\ written' = IF pipe.writer THEN Append(written, hand) ELSE written
           /\ UNCHANGED <<session, pipe, failures, rawFailed>>
  <2>1. SolFlags
    BY <1>6 DEF SolInv, SolSession, SolFlags
  <2>2. UNCHANGED <<Solare!captureVars, pipe, snapshot, lock, hand, sent, accepted, finals,
                    finalSeen, announced, rawFailed>>
    BY <1>6 DEF Solare!WritePacket
  <2> QED
    BY <1>1, <1>2, <1>3, <1>5, <1>6, <2>1, <2>2, SolWrites
<1>7. CASE /\ session' = Solare!Requesting(Solare!Failing(session), "error")
           /\ pipe' = [pipe EXCEPT !.writer = FALSE] /\ rawFailed' = TRUE
           /\ UNCHANGED written
  <2>1. SolFlags
    BY <1>7, SolMarks, SolFlagged DEF SolInv, SolSession, SessionRecords
  <2>2. UNCHANGED <<Solare!captureVars, snapshot, lock, hand, sent, accepted, written, finals,
              finalSeen, announced>>
    BY <1>7 DEF Solare!WritePacket
  <2> QED
    BY <1>1, <1>2, <1>3, <1>5, <1>7, <2>1, <2>2, SolWriteFails
<1> QED
  BY <1>6, <1>7 DEF Solare!WritePacket

(* The handler decodes it.                                                  *)
LEMMA SolDecode ==
    ASSUME SolInv, NEW t \in Solare!Finishers, Solare!Decode(t)
    PROVE  SolInv'
<1>1. pc[t] = "decode" /\ pc[t] \in {"decode", "decoded", "service", "final"}
  BY DEF Solare!Decode
<1>2. pipe \in PipeRecords /\ Flagged(session, session)
  BY SolMarks DEF SolInv, SolPipe, SolSession, SessionRecords
<1>3. UNCHANGED <<Solare!captureVars, lock, hand, sent, accepted, written, finalSeen, rawFailed>>
  BY DEF Solare!Decode
<1>4. /\ {"traffic", "confirmed"} \subseteq Kinds \ {"finished"}
      /\ {"decode", "decoded"} \subseteq Returns
      /\ {"decoded", "drain", "lock"} \subseteq Solare!Labels
  BY DEF Kinds, Returns, Solare!Labels
<1>5. ASSUME Solare!Emit(t, "traffic", "decode", [pipe EXCEPT !.traffic = TRUE]),
             UNCHANGED <<session, failures>>
      PROVE  SolInv'
  <2> DEFINE p == [pipe EXCEPT !.traffic = TRUE]
  <2>1. /\ p \in PipeRecords /\ p.updates = pipe.updates /\ p.packets = pipe.packets
        /\ p.writer = pipe.writer /\ p.broken = pipe.broken
    BY <1>2 DEF PipeRecords
  <2>2. Solare!Emit(t, "traffic", "decode", p) /\ UNCHANGED session
    BY <1>5
  <2> HIDE DEF p
  <2> QED
    BY <1>1, <1>3, <1>4, <2>1, <2>2, SolTells
<1>6. ASSUME NEW gap \in {pipe.gaps, TRUE}, UNCHANGED <<session, failures>>,
             \/ /\ pipe' = [pipe EXCEPT !.gaps = gap] /\ Solare!Goto(t, "decoded")
                /\ UNCHANGED <<snapshot, back, finals, announced>>
             \/ /\ ~snapshot.confirmed
                /\ Solare!Emit(t, "confirmed", "decoded", [pipe EXCEPT !.gaps = gap])
      PROVE  SolInv'
  <2> DEFINE p == [pipe EXCEPT !.gaps = gap]
  <2>1. /\ p \in PipeRecords /\ p.updates = pipe.updates /\ p.packets = pipe.packets
        /\ p.writer = pipe.writer /\ p.broken = pipe.broken
    BY <1>2 DEF PipeRecords
  <2>2. \/ /\ pipe' = p /\ Solare!Goto(t, "decoded")
           /\ UNCHANGED <<snapshot, back, finals, announced>>
        \/ ~snapshot.confirmed /\ Solare!Emit(t, "confirmed", "decoded", p)
    BY <1>6
  <2> HIDE DEF p
  <2>3. SolFlags /\ UNCHANGED session
    BY <1>2, <1>6, SolFlagged
  <2>4. CASE /\ pipe' = p /\ Solare!Goto(t, "decoded")
             /\ UNCHANGED <<snapshot, back, finals, announced>>
    BY <1>1, <1>3, <1>4, <2>1, <2>3, <2>4, SolSilent
  <2>5. CASE ~snapshot.confirmed /\ Solare!Emit(t, "confirmed", "decoded", p)
    BY <1>1, <1>3, <1>4, <2>1, <2>3, <2>5, SolTells
  <2> QED
    BY <2>2, <2>4, <2>5
<1>7. ASSUME session' = Solare!Failing(session), pipe' = [pipe EXCEPT !.broken = TRUE],
             Solare!Goto(t, IF lock = t THEN "drain" ELSE "lock"),
             UNCHANGED <<snapshot, back, finals, announced>>
      PROVE  SolInv'
  <2>1. /\ pipe' \in PipeRecords /\ pipe'.updates = pipe.updates
        /\ pipe'.packets = pipe.packets /\ pipe'.writer = pipe.writer
    BY <1>2, <1>7 DEF PipeRecords
  <2>2. SolFlags
    BY <1>2, <1>7, SolMarks, SolFlagged DEF Flagged
  <2>3. CASE lock = t
    <3>1. Solare!Goto(t, "drain")
      BY <1>7, <2>3
    <3> QED
      BY <1>1, <1>3, <1>4, <1>7, <2>1, <2>2, <2>3, <3>1, SolSilent
  <2>4. CASE lock # t
    <3>1. Solare!Goto(t, "lock")
      BY <1>7, <2>4
    <3> QED
      BY <1>1, <1>3, <1>4, <1>7, <2>1, <2>2, <2>4, <3>1, SolSilent
  <2> QED
    BY <2>3, <2>4
<1> QED
  BY <1>5, <1>6, <1>7 DEF Solare!Decode

(* What follows a packet: a warning about a gap, once.                      *)
LEMMA SolDecoded ==
    ASSUME SolInv, NEW t \in Solare!Finishers, Solare!Decoded(t)
    PROVE  SolInv'
<1>1. pc[t] = "decoded" /\ pc[t] \in {"decode", "decoded", "service", "final"}
  BY DEF Solare!Decoded
<1>2. pipe \in PipeRecords /\ SolFlags /\ UNCHANGED session
  BY DEF Solare!Decoded, SolInv, SolPipe, SolSession, SolFlags
<1>3. UNCHANGED <<Solare!captureVars, lock, hand, sent, accepted, written, finalSeen, rawFailed>>
  BY DEF Solare!Decoded, Solare!environment
<1> DEFINE next == Solare!After(t)
<1>4. /\ "warning" \in Kinds \ {"finished"} /\ next \in Returns /\ next \in Solare!Labels
      /\ lock = t => next = "drain"
      /\ lock # t => next = "service"
  BY DEF Kinds, Returns, Solare!Labels, Solare!After
<1> HIDE DEF next
<1>5. CASE Solare!Emit(t, "warning", Solare!After(t), [pipe EXCEPT !.warned = TRUE])
  <2> DEFINE p == [pipe EXCEPT !.warned = TRUE]
  <2>1. /\ p \in PipeRecords /\ p.updates = pipe.updates /\ p.packets = pipe.packets
        /\ p.writer = pipe.writer /\ p.broken = pipe.broken
    BY <1>2 DEF PipeRecords
  <2>2. Solare!Emit(t, "warning", next, p)
    BY <1>5 DEF next
  <2> HIDE DEF p
  <2> QED
    BY <1>1, <1>2, <1>3, <1>4, <2>1, <2>2, SolTells
<1>6. CASE /\ Solare!Goto(t, Solare!After(t))
           /\ snapshot' = IF snapshot.confirmed THEN Solare!LatchedConfirmation(snapshot, pipe)
                                                ELSE snapshot
           /\ UNCHANGED <<pipe, back, finals, announced>>
  <2>1. snapshot' = snapshot
    <3>1. CASE snapshot.confirmed
      <4>1. snapshot.latched # None
        BY <3>1 DEF SolInv, SolConfirmed
      <4> QED
        BY <1>6, <3>1, <4>1 DEF Solare!LatchedConfirmation, SolInv, SolSnapshot
    <3> QED
      BY <1>6, <3>1
  <2>2. Solare!Goto(t, next)
    BY <1>6 DEF next
  <2> QED
    BY <1>1, <1>2, <1>3, <1>4, <1>6, <2>1, <2>2, SolSilent
<1> QED
  BY <1>5, <1>6 DEF Solare!Decoded

(* _finish_worker: the lock is taken, or there is nothing left to do.       *)
LEMMA SolFinishEnter ==
    ASSUME SolInv, NEW t \in Solare!Finishers, Solare!FinishEnter(t)
    PROVE  SolInv'
<1>1. pc[t] = "lock" /\ doing[t] = "lock" /\ lock = None
  BY DEF Solare!FinishEnter, doing
<1>2. session.started
  BY <1>1, SolSets DEF SolInv, SolControl, SolIdle, Opens
<1>3. CASE session.stopped
  <2>1. t \in Solare!Callers
    BY <1>1, <1>3, SolSets DEF SolInv, SolStopped, Gone
  <2>2. Solare!Goto(t, "idle") /\ UNCHANGED <<session, lock>>
    BY <1>3, <2>1, SolSets DEF Solare!FinishEnter, Solare!Leave
  <2>3. UNCHANGED <<Solare!captureVars, session, pipe, snapshot, lock, back, hand, sent, accepted,
              written, finals, finalSeen, announced, rawFailed>>
    BY <2>2 DEF Solare!FinishEnter, Solare!history, Solare!environment
  <2>4. SolMoves(t, "idle") /\ doing'[t] = "idle"
    <3>1. "idle" \in Solare!Labels /\ back' = back
      BY <2>3 DEF Solare!Labels
    <3> QED
      BY <2>2, <3>1, SolGoto DEF Solare!Goto, SolInv, SolMoves
  <2>5. ~Busy(t) /\ ~Busy(t)'
    BY <1>1, <2>4 DEF Busy, Opens, Handles, Loops, Finishes, Empties, Closes
  <2>6. SolFlags /\ CaptureGoes
    BY <2>3 DEF SolInv, SolSession, SolCapture, Solare!CaptureTypeOK, SolReleased, SolFlags,
       CaptureGoes, Solare!captureVars
  <2>7. UNCHANGED <<startAttempted, pipe, snapshot, lock, hand, sent, accepted, written, finals,
                    finalSeen, announced, rawFailed>>
    BY <2>3 DEF Solare!captureVars
  <2> QED
    BY <1>2, <2>1, <2>4, <2>5, <2>6, <2>7, SolCalls
<1>4. CASE ~session.stopped
  <2>1. /\ session' = [session EXCEPT !.requested = TRUE] /\ lock' = t
        /\ Solare!Goto(t, "release")
    BY <1>4 DEF Solare!FinishEnter
  <2>2. UNCHANGED <<Solare!captureVars, pipe, snapshot, back, hand, sent, accepted, written, finals,
              finalSeen, announced, rawFailed>>
    BY DEF Solare!FinishEnter, Solare!history, Solare!environment
  <2>3. SolMoves(t, "release")
    <3>1. "release" \in Solare!Labels /\ back' = back
      BY <2>2 DEF Solare!Labels
    <3> QED
      BY <2>1, <3>1, SolGoto DEF Solare!Goto, SolInv
  <2>4. SolFlags
    BY <2>1, SolMarks, SolFlagged DEF SolInv, SolSession, SessionRecords
  <2> QED
    BY <1>1, <1>4, <2>1, <2>2, <2>3, <2>4, SolEnters
<1> QED
  BY <1>3, <1>4

(* Its capture is stopped, or stays.                                        *)
LEMMA SolFinishCapture ==
    ASSUME SolInv, NEW t \in Solare!Finishers, Solare!FinishCapture(t)
    PROVE  SolInv'
<1>1. doing[t] = "release" /\ Finishes(t) /\ Busy(t) /\ pc[t] = "release"
  BY DEF Solare!FinishCapture, doing, Busy, Finishes
<1>2. CaptureGoes /\ lock = t
  BY <1>1, SolStopAttempt, SolHeld DEF Solare!FinishCapture
<1>3. /\ back' = back /\ startAttempted' = startAttempted
      /\ UNCHANGED <<pipe, snapshot, hand, sent, accepted, written, finals, finalSeen, announced,
                     rawFailed>>
  BY <1>2 DEF Solare!FinishCapture, Solare!history, CaptureGoes
<1>4. session \in SessionRecords
  BY DEF SolInv, SolSession, SessionRecords
<1>5. CASE captureStopped'
  <2>1. /\ session' \in {session, Solare!Failing(session)} /\ Solare!Goto(t, "drain")
        /\ lock' = lock
    BY <1>5 DEF Solare!FinishCapture
  <2>2. SolFlags
    BY <1>4, <2>1, SolMarks, SolFlagged
  <2>3. SolMoves(t, "drain") /\ doing'[t] = "drain"
    <3>1. "drain" \in Solare!Labels
      BY DEF Solare!Labels
    <3> QED
      BY <1>3, <2>1, <3>1, SolGoto DEF Solare!Goto, SolInv, SolMoves
  <2>4. SolGoesOn(t)
    BY <1>1, <1>2, <2>3 DEF SolGoesOn, Opens, Finishes
  <2> QED
    BY <1>1, <1>2, <1>3, <1>5, <2>1, <2>2, <2>3, <2>4, SolReleases
<1>6. CASE ~captureStopped'
  <2>1. /\ session' = Solare!KeptIncomplete(session) /\ lock' = None
        /\ Solare!Goto(t, IF t = "worker" THEN "dead" ELSE "idle")
    BY <1>6 DEF Solare!FinishCapture, Solare!Leave
  <2>2. SolFlags
    BY <1>4, <2>1, SolMarks, SolFlagged DEF Solare!KeptIncomplete
  <2>3. SolMoves(t, IF t = "worker" THEN "dead" ELSE "idle")
    <3> DEFINE l == IF t = "worker" THEN "dead" ELSE "idle"
    <3>1. l \in Solare!Labels /\ l # "notify"
      BY DEF Solare!Labels
    <3>2. pc' = [pc EXCEPT ![t] = l]
      BY <2>1 DEF Solare!Goto
    <3> HIDE DEF l
    <3>3. SolMoves(t, l)
      BY <1>3, <3>1, <3>2, SolGoto DEF SolInv
    <3> QED
      BY <3>3 DEF l
  <2> QED
    BY <1>1, <1>2, <1>3, <2>1, <2>2, <2>3, SolGivesUp DEF SolFlags
<1> QED
  BY <1>5, <1>6

(* What is queued is taken, or there is nothing left.                       *)
LEMMA SolDrain ==
    ASSUME SolInv, NEW t \in Solare!Finishers, Solare!Drain(t)
    PROVE  SolInv'
<1>1. doing[t] = "drain" /\ Finishes(t) /\ Busy(t) /\ pc[t] = "drain" /\ back' = back
  BY DEF Solare!Drain, doing, Busy, Finishes
<1>2. lock = t
  BY <1>1, SolHeld
<1>3. SolFlags
  BY DEF Solare!Drain, SolInv, SolSession, SolFlags
<1>4. CASE pipe.packets = <<>>
  <2>1. Solare!Goto(t, "final") /\ UNCHANGED <<pipe, hand>>
    BY <1>4 DEF Solare!Drain
  <2>2. SolMoves(t, "final") /\ doing'[t] = "final"
    <3>1. "final" \in Solare!Labels
      BY DEF Solare!Labels
    <3> QED
      BY <1>1, <2>1, <3>1, SolGoto DEF Solare!Goto, SolInv, SolMoves
  <2>3. SolGoesOn(t)
    BY <1>1, <1>2, <2>2 DEF SolGoesOn, Opens, Finishes, Empties
  <2>4. UNCHANGED <<Solare!captureVars, pipe, snapshot, lock, hand, sent, accepted, written, finals,
              finalSeen, announced, rawFailed>>
    BY <2>1 DEF Solare!Drain, Solare!history, Solare!environment
  <2> QED
    BY <1>1, <1>2, <1>3, <1>4, <2>2, <2>3, <2>4, SolDrainsAll
<1>5. CASE pipe.packets # <<>>
  <2>1. /\ hand' = Head(pipe.packets) /\ pipe' = [pipe EXCEPT !.packets = Tail(@)]
        /\ Solare!Goto(t, "write")
    BY <1>5 DEF Solare!Drain
  <2>2. SolMoves(t, "write") /\ doing'[t] = "write"
    <3>1. "write" \in Solare!Labels
      BY DEF Solare!Labels
    <3> QED
      BY <1>1, <2>1, <3>1, SolGoto DEF Solare!Goto, SolInv, SolMoves
  <2>3. SolGoesOn(t)
    BY <1>1, <1>2, <2>2 DEF SolGoesOn, Opens, Handles
  <2>4. UNCHANGED <<Solare!captureVars, snapshot, lock, sent, accepted, written, finals, finalSeen,
              announced, rawFailed>>
    BY DEF Solare!Drain, Solare!history, Solare!environment
  <2> QED
    BY <1>1, <1>2, <1>3, <1>5, <2>1, <2>2, <2>3, <2>4, SolTakes
<1> QED
  BY <1>4, <1>5

(* collector.finish() and the last look.                                    *)
LEMMA SolFinishDecoder ==
    ASSUME SolInv, NEW t \in Solare!Finishers, Solare!FinishDecoder(t)
    PROVE  SolInv'
<1>1. pc[t] = "final" /\ pc[t] \in {"decode", "decoded", "service", "final"}
  BY DEF Solare!FinishDecoder
<1>2. pipe \in PipeRecords /\ Flagged(session, session)
  BY SolMarks DEF SolInv, SolPipe, SolSession, SessionRecords
<1>3. UNCHANGED <<Solare!captureVars, lock, hand, sent, accepted, written, finalSeen, rawFailed>>
  BY DEF Solare!FinishDecoder
<1>4. "confirmed" \in Kinds \ {"finished"} /\ "build" \in Returns /\ "build" \in Solare!Labels
  BY DEF Kinds, Returns, Solare!Labels
<1>5. ASSUME NEW gap \in {pipe.gaps, pipe.gaps \/ pipe.traffic}, UNCHANGED <<session, failures>>,
             \/ /\ pipe' = [pipe EXCEPT !.gaps = gap] /\ Solare!Goto(t, "build")
                /\ UNCHANGED <<snapshot, back, finals, announced>>
             \/ /\ ~snapshot.confirmed
                /\ Solare!Emit(t, "confirmed", "build", [pipe EXCEPT !.gaps = gap])
      PROVE  SolInv'
  <2> DEFINE p == [pipe EXCEPT !.gaps = gap]
  <2>1. /\ p \in PipeRecords /\ p.updates = pipe.updates /\ p.packets = pipe.packets
        /\ p.writer = pipe.writer /\ p.broken = pipe.broken
    BY <1>2 DEF PipeRecords
  <2>2. \/ /\ pipe' = p /\ Solare!Goto(t, "build")
           /\ UNCHANGED <<snapshot, back, finals, announced>>
        \/ ~snapshot.confirmed /\ Solare!Emit(t, "confirmed", "build", p)
    BY <1>5
  <2> HIDE DEF p
  <2>3. SolFlags /\ UNCHANGED session
    BY <1>2, <1>5, SolFlagged
  <2>4. CASE /\ pipe' = p /\ Solare!Goto(t, "build")
             /\ UNCHANGED <<snapshot, back, finals, announced>>
    BY <1>1, <1>3, <1>4, <2>1, <2>3, <2>4, SolSilent
  <2>5. CASE ~snapshot.confirmed /\ Solare!Emit(t, "confirmed", "build", p)
    BY <1>1, <1>3, <1>4, <2>1, <2>3, <2>5, SolTells
  <2> QED
    BY <2>2, <2>4, <2>5
<1>6. ASSUME session' = Solare!Failing(session), pipe' = [pipe EXCEPT !.broken = TRUE],
             Solare!Goto(t, "build"), UNCHANGED <<snapshot, back, finals, announced>>
      PROVE  SolInv'
  <2>1. /\ pipe' \in PipeRecords /\ pipe'.updates = pipe.updates
        /\ pipe'.packets = pipe.packets /\ pipe'.writer = pipe.writer
    BY <1>2, <1>6 DEF PipeRecords
  <2>2. SolFlags
    BY <1>2, <1>6, SolMarks, SolFlagged DEF Flagged
  <2>3. lock = t
    BY <1>1, SolDecoding
  <2> QED
    BY <1>1, <1>3, <1>4, <1>6, <2>1, <2>2, <2>3, SolSilent
<1> QED
  BY <1>5, <1>6 DEF Solare!FinishDecoder

(* The raw file is closed and the result built.                             *)
LEMMA SolBuild ==
    ASSUME SolInv, NEW t \in Solare!Finishers, Solare!Build(t)
    PROVE  SolInv'
<1>1. doing[t] = "build" /\ Finishes(t) /\ Busy(t) /\ pc[t] = "build" /\ back' = back
  BY DEF Solare!Build, doing, Busy, Finishes, Empties
<1>2. lock = t
  BY <1>1, SolHeld
<1>3. SolFlags
  BY SolMarks, SolFlagged DEF Solare!Build, SolInv, SolSession, SessionRecords
<1>4. PICK l \in {"warn", "finished", "settle"} :
         /\ Solare!Goto(t, l)
         /\ l = "settle" => snapshot' = snapshot
         /\ l # "settle" => snapshot' = [snapshot EXCEPT !.result = Solare!Verdict]
  BY DEF Solare!Build
<1>5. SolMoves(t, l) /\ doing'[t] = l
  <2>1. l \in Solare!Labels /\ l # "notify"
    BY DEF Solare!Labels
  <2> QED
    BY <1>1, <1>4, <2>1, SolGoto DEF Solare!Goto, SolInv, SolMoves
<1>6. SolGoesOn(t)
  BY <1>1, <1>2, <1>5 DEF SolGoesOn, Opens, Finishes, Empties, Closes
<1>7. UNCHANGED <<Solare!captureVars, lock, hand, sent, accepted, written, finals, finalSeen,
                  announced, rawFailed>>
  BY DEF Solare!Build, Solare!history
<1>8. pipe' = [pipe EXCEPT !.writer = FALSE]
  BY DEF Solare!Build
<1> QED
  BY <1>1, <1>2, <1>3, <1>4, <1>5, <1>6, <1>7, <1>8, SolBuilds

(* The last updates.                                                        *)
LEMMA SolAnnounce ==
    ASSUME SolInv, NEW t \in Solare!Finishers, Solare!Announce(t)
    PROVE  SolInv'
<1>1. /\ pipe \in PipeRecords /\ {"warning", "finished"} \subseteq Kinds
      /\ {"finished", "settle"} \subseteq Returns /\ SolFlags
  BY DEF Solare!Announce, SolInv, SolPipe, SolSession, SolFlags, Kinds, Returns
<1>2. UNCHANGED <<Solare!captureVars, lock, hand, sent, accepted, written, finalSeen, rawFailed>>
  BY DEF Solare!Announce, Solare!environment
<1>3. CASE pc[t] = "warn" /\ Solare!Emit(t, "warning", "finished", pipe)
  <2>1. doing[t] = "warn" /\ Finishes(t) /\ Busy(t)
    BY <1>3 DEF doing, Busy, Finishes, Empties, Closes
  <2>2. /\ SolMoves(t, "finished") /\ SolPipe' /\ pipe'.packets = pipe.packets
        /\ pipe'.writer = pipe.writer /\ pipe'.broken = pipe.broken /\ finals' = finals
        /\ UNCHANGED <<snapshot, announced>>
    BY <1>1, <1>3, SolEmits
  <2>3. lock = t /\ doing'[t] = "finished"
    BY <2>1, <2>2, SolHeld DEF SolMoves
  <2>4. SolGoesOn(t)
    BY <2>1, <2>3 DEF SolGoesOn, Opens, Finishes, Empties, Closes
  <2> QED
    BY <1>1, <1>2, <2>1, <2>2, <2>3, <2>4, SolWarns
<1>4. CASE pc[t] = "finished" /\ Solare!Emit(t, "finished", "settle", pipe)
  <2>1. doing[t] = "finished" /\ Finishes(t) /\ Busy(t)
    BY <1>4 DEF doing, Busy, Finishes, Empties, Closes
  <2>2. /\ SolMoves(t, "settle") /\ SolPipe' /\ pipe'.packets = pipe.packets
        /\ pipe'.writer = pipe.writer /\ pipe'.broken = pipe.broken /\ finals' = finals + 1
        /\ "finished" \in Solare!Range(pipe'.updates)
        /\ UNCHANGED <<snapshot, announced>>
    BY <1>1, <1>4, SolEmits
  <2>3. lock = t /\ doing'[t] = "settle"
    BY <2>1, <2>2, SolHeld DEF SolMoves
  <2>4. SolGoesOn(t)
    BY <2>1, <2>3 DEF SolGoesOn, Opens, Finishes, Empties, Closes
  <2> QED
    BY <1>1, <1>2, <2>1, <2>2, <2>3, <2>4, SolAnnounces
<1> QED
  BY <1>3, <1>4 DEF Solare!Announce

(* The session has stopped.                                                 *)
LEMMA SolSettle ==
    ASSUME SolInv, NEW t \in Solare!Finishers, Solare!Settle(t)
    PROVE  SolInv'
<1>1. doing[t] = "settle" /\ Finishes(t) /\ lock' = None /\ pc[t] = "settle" /\ back' = back
  BY DEF Solare!Settle, doing, Finishes, Empties, Closes
<1>2. /\ SolSession' /\ session'.stopped /\ session'.attempted = session.attempted
      /\ session'.started = session.started
  BY DEF Solare!Settle, SolInv, SolSession
<1>3. SolMoves(t, IF t = "worker" THEN "dead" ELSE "idle")
  <2> DEFINE l == IF t = "worker" THEN "dead" ELSE "idle"
  <2>1. l \in Solare!Labels /\ l # "notify"
    BY DEF Solare!Labels
  <2>2. pc' = [pc EXCEPT ![t] = l]
    BY DEF Solare!Settle, Solare!Leave, Solare!Goto
  <2> HIDE DEF l
  <2>3. SolMoves(t, l)
    BY <1>1, <2>1, <2>2, SolGoto DEF SolInv
  <2> QED
    BY <2>3 DEF l
<1>4. UNCHANGED <<Solare!captureVars, pipe, snapshot, hand, sent, accepted, written, finals,
                  finalSeen, announced, rawFailed>>
  BY DEF Solare!Settle, Solare!history, Solare!environment
<1> QED
  BY <1>1, <1>2, <1>3, <1>4, SolSettles

(* A caller that comes, joins or gives up.                                  *)
LEMMA SolCalling ==
    ASSUME SolInv, NEW t \in Solare!Callers, NEW l \in {"idle", "join", "late", "lock"},
           pc[t] \in {"idle", "join", "late"}, pc' = [pc EXCEPT ![t] = l], back' = back,
           l = "lock" => Gone, session.started, SolFlags, CaptureGoes,
           UNCHANGED <<startAttempted, pipe, snapshot, lock, hand, sent, accepted, written, finals,
                       finalSeen, announced, rawFailed>>
    PROVE  SolInv'
<1>1. t \in Solare!Finishers /\ doing[t] = pc[t] /\ l \in Solare!Labels /\ l # "notify"
  BY SolSets DEF doing, Solare!Labels
<1>2. SolMoves(t, l) /\ doing'[t] = l
  BY <1>1, SolGoto DEF SolInv, SolMoves
<1>3. ~Busy(t) /\ ~Busy(t)'
  BY <1>1, <1>2 DEF Busy, Opens, Handles, Loops, Finishes, Empties, Closes
<1> QED
  BY <1>2, <1>3, SolCalls

(* While nothing happens to the capture.                                    *)
LEMMA SolCaptureStays ==
    ASSUME SolInv, UNCHANGED Solare!captureVars
    PROVE  CaptureGoes /\ startAttempted' = startAttempted
BY DEF SolInv, SolCapture, Solare!CaptureTypeOK, SolReleased, CaptureGoes, Solare!captureVars

(* request_stop, stop, the join, and its deadline.                          *)
LEMMA SolStopping ==
    ASSUME SolInv, NEW t \in Solare!Callers,
           Solare!StopCall(t) \/ Solare!JoinWorker(t) \/ Solare!JoinExpired(t)
    PROVE  SolInv'
<1>1. Flagged(session, session) /\ session \in SessionRecords
  BY SolMarks DEF SolInv, SolSession, SessionRecords
<1>2. session.started
  <2>1. pc[t] \in {"join", "late"} => session.started
    BY SolSets DEF SolInv, SolControl, SolIdle, doing, Opens
  <2> QED
    BY <2>1 DEF Solare!StopCall, Solare!JoinWorker, Solare!JoinExpired
<1>3. CASE Solare!StopCall(t)
  <2>1. SolFlags
    <3>1. Flagged(session, Solare!Asked)
      BY <1>1, SolMarks DEF Solare!Asked
    <3>2. Flagged(Solare!Asked, session')
      BY <1>3, <3>1, SolMarks DEF Solare!StopCall, Flagged
    <3> QED
      BY <3>1, <3>2, SolFlagged DEF Flagged
  <2>2. UNCHANGED <<Solare!captureVars, pipe, snapshot, lock, back, hand, sent, accepted, written,
              finals, finalSeen, announced, rawFailed>>
    BY <1>3 DEF Solare!StopCall, Solare!history, Solare!environment
  <2>3. pc[t] = "idle" /\ pc' = [pc EXCEPT ![t] = "join"]
    BY <1>3 DEF Solare!StopCall, Solare!Goto
  <2> QED
    BY <1>2, <2>1, <2>2, <2>3, SolCaptureStays, SolCalling
<1>4. CASE Solare!JoinWorker(t)
  <2>1. PICK l \in {"idle", "late", "lock"} :
           pc' = [pc EXCEPT ![t] = l] /\ (l = "lock" => ~session.stopped /\ Solare!WorkerJoined)
    BY <1>4 DEF Solare!JoinWorker, Solare!Goto
  <2>2. l = "lock" => Gone
    <3>1. Solare!WorkerGone => Gone
      BY SolSets DEF Solare!WorkerGone, Gone, doing
    <3> QED
      BY <2>1, <3>1 DEF Solare!WorkerJoined
  <2>3. UNCHANGED <<Solare!captureVars, session, pipe, snapshot, lock, back, hand, sent, accepted,
              written, finals, finalSeen, announced, rawFailed>>
    BY <1>4 DEF Solare!JoinWorker, Solare!history
  <2>4. SolFlags /\ pc[t] = "join"
    BY <1>1, <1>4, <2>3, SolFlagged DEF Solare!JoinWorker
  <2> QED
    BY <1>2, <2>1, <2>2, <2>3, <2>4, SolCaptureStays, SolCalling
<1>5. CASE Solare!JoinExpired(t)
  <2>1. SolFlags
    BY <1>1, <1>5, SolMarks, SolFlagged DEF Solare!JoinExpired
  <2>2. CaptureGoes /\ startAttempted' = startAttempted
    BY <1>5, SolStopAttempt DEF Solare!JoinExpired, CaptureGoes
  <2>3. pc[t] = "late" /\ pc' = [pc EXCEPT ![t] = "idle"] /\ back' = back
    BY <1>5 DEF Solare!JoinExpired, Solare!Goto
  <2>4. UNCHANGED <<pipe, snapshot, lock, hand, sent, accepted, written, finals, finalSeen,
                    announced, rawFailed>>
    BY <1>5 DEF Solare!JoinExpired, Solare!history
  <2> QED
    BY <1>2, <2>1, <2>2, <2>3, <2>4, SolCalling
<1> QED
  BY <1>3, <1>4, <1>5

(* A request, and a step that changes nothing.                              *)
LEMMA SolRequesting ==
    ASSUME SolInv, Solare!RequestStop \/ UNCHANGED Solare!vars
    PROVE  SolInv'
<1>1. Flagged(session, session) /\ Flagged(session, Solare!Asked)
  BY SolMarks DEF SolInv, SolSession, SessionRecords, Solare!Asked
<1>2. UNCHANGED <<Solare!captureVars, pipe, snapshot, lock, pc, back, hand, sent, accepted, written,
              finals, finalSeen, announced, rawFailed>>
  BY DEF Solare!RequestStop, Solare!vars, Solare!history, Solare!environment
<1>3. SolFlags
  BY <1>1, SolFlagged DEF Solare!RequestStop, Solare!vars
<1>4. SolPlaces' /\ doing' = doing /\ pc'["sniffer"] = pc["sniffer"]
  BY <1>2 DEF SolInv, SolPlaces, doing
<1> QED
  BY <1>2, <1>3, <1>4, SolQuiet

(* updates().                                                               *)
LEMMA SolPolling ==
    ASSUME SolInv, Solare!PollUpdate \/ Solare!PollLook
    PROVE  SolInv'
<1>1. /\ "consumer" \in SolThreads /\ "consumer" \notin Solare!Finishers /\ "consumer" # "sniffer"
      /\ Solare!Finishers \subseteq SolThreads /\ "sniffer" \in SolThreads
      /\ {"look", "done", "idle"} \subseteq Solare!Labels
  BY SolSets DEF Solare!Labels
<1>2. CASE /\ Solare!PollUpdate /\ pipe.updates # <<>>
  <2>1. UNCHANGED <<Solare!captureVars, session, snapshot, lock, pc, back, hand, sent, accepted,
              written, finals, announced, rawFailed>>
    BY <1>2 DEF Solare!PollUpdate, Solare!environment
  <2>2. /\ pipe' = [pipe EXCEPT !.updates = Tail(@)]
        /\ finalSeen' = (finalSeen \/ Head(pipe.updates) = "finished")
    BY <1>2 DEF Solare!PollUpdate
  <2>3. SolPlaces' /\ doing' = doing /\ pc["sniffer"]' = pc["sniffer"]
    BY <2>1 DEF SolInv, SolPlaces, doing
  <2> QED
    BY <1>2, <2>1, <2>2, <2>3, SolPolls
<1>3. CASE ~(Solare!PollUpdate /\ pipe.updates # <<>>)
  <2>1. PICK l \in {"look", "done", "idle"} : pc' = [pc EXCEPT !["consumer"] = l]
    BY <1>3 DEF Solare!PollUpdate, Solare!PollLook, Solare!Goto
  <2>2. UNCHANGED <<Solare!captureVars, session, pipe, snapshot, lock, back, hand, sent, accepted,
              written, finals, finalSeen, announced, rawFailed>>
    BY <1>3 DEF Solare!PollUpdate, Solare!PollLook, Solare!history, Solare!environment
  <2>3. SolPlaces' /\ doing' = doing /\ pc'["sniffer"] = pc["sniffer"]
    <3>1. l \in Solare!Labels
      BY <1>1
    <3>2. /\ pc' \in [SolThreads -> Solare!Labels]
          /\ \A u \in SolThreads \ {"consumer"} : pc'[u] = pc[u]
      BY <1>1, <2>1, <3>1 DEF SolInv, SolPlaces
    <3> QED
      BY <1>1, <2>2, <3>2 DEF SolInv, SolPlaces, doing
  <2>4. SolFlags
    BY <2>2 DEF SolInv, SolSession, SolFlags
  <2> QED
    BY <2>2, <2>3, <2>4, SolQuiet
<1> QED
  BY <1>2, <1>3

(* So the invariant is inductive, in either part, whatever is on the wire.  *)
LEMMA SolWorks ==
    ASSUME SolInv, NEW t \in Solare!Finishers,
           Solare!Process(t) \/ Solare!Finish(t) \/ Solare!Notify(t)
    PROVE  SolInv'
<1>1. Solare!Process(t) => SolInv'
  BY SolWriting, SolDecode, SolDecoded DEF Solare!Process
<1>2. Solare!Finish(t) => SolInv'
  BY SolFinishEnter, SolFinishCapture, SolDrain, SolFinishDecoder, SolBuild, SolAnnounce, SolSettle
  DEF Solare!Finish
<1> QED
  BY <1>1, <1>2, SolNotifies

(* Every step of the session but the arrival of a packet.                   *)
LEMMA SolNext ==
    ASSUME SolInv, [Solare!Next]_(Solare!vars),
           ~Solare!PacketArrives
    PROVE  SolInv'
<1>1. /\ "worker" \in Solare!Finishers /\ "main" \in Solare!Finishers
      /\ \A t \in Solare!Callers : t \in Solare!Finishers
  BY SolSets
<1>2. Solare!Worker => SolInv'
  BY <1>1, SolLoop, SolFoundEmpty, SolServing, SolWorks DEF Solare!Worker
<1>3. \A t \in Solare!Callers : Solare!Caller(t) => SolInv'
  BY <1>1, SolStopping, SolWorks DEF Solare!Caller
<1>4. Solare!Main => SolInv'
  BY <1>3, SolSets, SolStarting, SolOpeningCapture, SolLaunching, SolUndoing DEF Solare!Main
<1>5. UNCHANGED Solare!vars => SolInv'
  BY SolRequesting
<1>6. Solare!Next => SolInv'
  <2>1. Solare!PutPacket \/ Solare!SourceEnds => SolInv'
    BY SolPutting, SolEnding
  <2>2. Solare!Worker \/ Solare!Main \/ Solare!Caller("stopper") => SolInv'
    BY <1>2, <1>3, <1>4, SolSets
  <2>3. Solare!RequestStop \/ (\E t \in Solare!Callers : Solare!StopCall(t)) => SolInv'
    BY SolRequesting, SolStopping
  <2>4. Solare!PollUpdate \/ Solare!PollLook \/ Solare!Rest => SolInv'
    BY <1>5, SolPolling DEF Solare!Rest
  <2> QED
    BY <2>1, <2>2, <2>3, <2>4 DEF Solare!Next
<1> QED
  BY <1>5, <1>6

(* Initially.                                                               *)
LEMMA SolInit ==
    ASSUME Solare!Init
    PROVE  SolInv
<1>1. /\ SolThreads = Solare!Finishers \cup {"sniffer", "consumer"}
      /\ "worker" \in Solare!Finishers /\ "main" \in Solare!Finishers
      /\ "stopper" \in Solare!Finishers
      /\ {"absent", "idle"} \subseteq Solare!Labels
  BY SolSets DEF Solare!Labels, SolThreads
<1>2. \A t \in Solare!Finishers : doing[t] = IF t = "worker" THEN "absent" ELSE "idle"
  BY DEF Solare!Init, doing
<1>3. \A t \in Solare!Finishers : ~Opens(t) /\ ~Handles(t) /\ ~Loops(t) /\ ~Finishes(t)
  BY <1>2 DEF Opens, Handles, Loops, Finishes, Empties, Closes
<1>4. Gone /\ ~Writing
  BY <1>1, <1>2 DEF Gone, Writing, Writes
<1>5. SolCapture /\ SolSession /\ SolSnapshot
  BY DEF Solare!Init, Solare!CaptureInit, SolCapture, Solare!CaptureTypeOK, SolSession,
     SolSnapshot, Verdicts
<1>6. SolPipe /\ SolHands /\ SolHistory
  <2>1. <<>> \in Seq(Nat) /\ <<>> \in Seq(Kinds) /\ Len(<<>>) = 0 /\ UpdateQueueSize \in Nat
    BY SolSets
  <2>2. SolPipe
    <3>1. /\ pipe = [packets |-> <<>>, updates |-> <<>>, writer |-> FALSE, broken |-> FALSE,
                     overflow |-> FALSE, gaps |-> FALSE, warned |-> FALSE, traffic |-> FALSE]
      BY DEF Solare!Init
    <3>2. pipe \in PipeRecords
      BY <2>1, <3>1 DEF PipeRecords
    <3>3. Len(pipe.updates) <= UpdateQueueSize
      BY <2>1, <3>1
    <3> QED
      BY <3>2, <3>3 DEF SolPipe
  <2>3. SolHands /\ SolHistory
    BY <2>1 DEF Solare!Init, SolHands, SolHistory, Verdicts
  <2> QED
    BY <2>2, <2>3
<1>7. SolPlaces
  BY <1>1 DEF Solare!Init, SolPlaces
<1>8. SolControl
  <2>1. /\ ~session.attempted /\ ~session.started /\ ~session.stopped /\ lock = None
        /\ ~startAttempted
    BY DEF Solare!Init, Solare!CaptureInit
  <2>2. SolLock /\ SolLocked /\ SolHandling /\ SolHolder /\ SolAlone
    BY <1>3, <1>4, <2>1, SolSets DEF SolLock, SolLocked, SolHandling, SolHolder, SolAlone
  <2>3. SolFresh /\ SolIdle /\ SolOpening
    BY <1>1, <1>2, <1>3, <2>1 DEF SolFresh, SolIdle, SolOpening
  <2>4. SolCallers
    BY <1>2, <1>3, SolSets DEF SolCallers
  <2> QED
    BY <2>2, <2>3, <2>4 DEF SolControl
<1>9. SolNew /\ SolUnopened /\ SolPut /\ SolReleased
  BY <1>1, SolSets DEF Solare!Init, Solare!CaptureInit, SolNew, SolUnopened, SolPut, SolReleased,
     SolThreads
<1>10. SolStopsFirst /\ SolDrained /\ SolClosed /\ SolStopped /\ SolUnbroken
  BY <1>3, <1>1
  DEF Solare!Init, SolStopsFirst, SolDrained, SolClosed, SolStopped, SolUnbroken
<1>11. SolConfirmed /\ SolResult /\ SolDecided /\ SolOnce /\ SolFinal /\ SolWriter
  BY DEF Solare!Init, SolConfirmed, SolResult, SolDecided, SolOnce, SolFinal, SolWriter, Settles
<1>12. SolRaw
  BY <1>4, SolHandIs DEF Solare!Init, SolRaw
<1> QED
  BY <1>5, <1>6, <1>7, <1>8, <1>9, <1>10, <1>11, <1>12 DEF SolInv

-----------------------------------------------------------------------------
(* A burst is a session that more packets reach: but for their arrival, its *)
(* steps are the same.                                                      *)
LEMMA BurstQueued ==
    ASSUME NEW u, NEW k
    PROVE  Burst!Queued(u, k) = Solare!Queued(u, k)
BY DEF Solare!Queued, Burst!Queued, Solare!Max, Burst!Max

(* _emit.                                                                   *)
LEMMA BurstEmit ==
    ASSUME NEW t, NEW k, NEW n, NEW p
    PROVE  Burst!Emit(t, k, n, p) = Solare!Emit(t, k, n, p)
BY BurstQueued DEF Solare!Emit, Burst!Emit, Solare!Goto, Burst!Goto, Solare!LatchedConfirmation,
   Burst!LatchedConfirmation, Solare!Health, Burst!Health

(* capture.stop().                                                          *)
LEMMA BurstStop ==
    Burst!StopAttempt = Solare!StopAttempt
BY DEF Solare!StopAttempt, Burst!StopAttempt, Solare!CaptureStop, Burst!CaptureStop,
   Solare!ShutdownOutcome, Burst!ShutdownOutcome, Solare!ShutdownBackend, Burst!ShutdownBackend,
   Solare!MayFail, Burst!MayFail, Solare!captureVars, Burst!captureVars

(* The callbacks.                                                           *)
LEMMA BurstNotify ==
    ASSUME NEW t, Burst!Notify(t)
    PROVE  Solare!Notify(t)
BY DEF Solare!Notify, Burst!Notify, Solare!Goto, Burst!Goto, Solare!Leave, Burst!Leave,
   Solare!MayFail, Burst!MayFail, Solare!Failing, Burst!Failing, Solare!Requesting,
   Burst!Requesting, Solare!captureVars, Burst!captureVars, Solare!environment,
   Burst!environment, Solare!history, Burst!history

(* The native callback, and the end of the source.                          *)
LEMMA BurstNative ==
    Burst!PutPacket \/ Burst!SourceEnds => Solare!PutPacket \/ Solare!SourceEnds
BY DEF Solare!PutPacket, Burst!PutPacket, Solare!SourceEnds, Burst!SourceEnds,
   Solare!CaptureEnds, Burst!CaptureEnds, Solare!Goto, Burst!Goto, Solare!Leave, Burst!Leave,
   Solare!MayFail, Burst!MayFail, Solare!Failing, Burst!Failing, Solare!Requesting,
   Burst!Requesting, Solare!captureVars, Burst!captureVars, Solare!environment,
   Burst!environment, Solare!history, Burst!history

(* start.                                                                   *)
LEMMA BurstStart ==
    Burst!Start => Solare!Start
BY DEF Solare!Start, Burst!Start, Solare!Goto, Burst!Goto, Solare!Leave, Burst!Leave,
   Solare!MayFail, Burst!MayFail, Solare!Failing, Burst!Failing, Solare!Requesting,
   Burst!Requesting, Solare!captureVars, Burst!captureVars, Solare!environment,
   Burst!environment, Solare!history, Burst!history

(* The capture is opened.                                                   *)
LEMMA BurstOpenCapture ==
    Burst!OpenCapture => Solare!OpenCapture
BY DEF Solare!OpenCapture, Burst!OpenCapture, Solare!CaptureStartOK, Burst!CaptureStartOK,
   Solare!CaptureStartRefused, Burst!CaptureStartRefused, Solare!CaptureStartFailed,
   Burst!CaptureStartFailed, Solare!Goto, Burst!Goto, Solare!MayFail, Burst!MayFail,
   Solare!history, Burst!history

(* The worker begins.                                                       *)
LEMMA BurstLaunch ==
    Burst!Launch => Solare!Launch
BY BurstQueued DEF Solare!Launch, Burst!Launch, Solare!Goto, Burst!Goto, Solare!Leave,
   Burst!Leave, Solare!MayFail, Burst!MayFail, Solare!Failing, Burst!Failing, Solare!Requesting,
   Burst!Requesting, Solare!captureVars, Burst!captureVars, Solare!environment,
   Burst!environment, Solare!history, Burst!history

(* The start is rolled back.                                                *)
LEMMA BurstUndo ==
    Burst!Undo => Solare!Undo
BY BurstStop DEF Solare!Undo, Burst!Undo, Solare!Goto, Burst!Goto, Solare!Failing, Burst!Failing

(* The worker's loop.                                                       *)
LEMMA BurstLoop ==
    /\ Burst!Loop => Solare!Loop
    /\ Burst!FoundEmpty => Solare!FoundEmpty
    /\ Burst!CheckComplete => Solare!CheckComplete
BY DEF Solare!Loop, Burst!Loop, Solare!FoundEmpty, Burst!FoundEmpty, Solare!CheckComplete,
   Burst!CheckComplete, Solare!CaptureRunning, Burst!CaptureRunning, Solare!Goto, Burst!Goto,
   Solare!Failing, Burst!Failing, Solare!captureVars, Burst!captureVars, Solare!environment,
   Burst!environment, Solare!history, Burst!history

(* The drained clocks.                                                      *)
LEMMA BurstService ==
    Burst!Service => Solare!Service
BY BurstEmit DEF Solare!Service, Burst!Service, Solare!Goto, Burst!Goto, Solare!MayFail,
   Burst!MayFail, Solare!Failing, Burst!Failing, Solare!captureVars, Burst!captureVars

(* A packet is written.                                                     *)
LEMMA BurstWritePacket ==
    ASSUME NEW t, Burst!WritePacket(t)
    PROVE  Solare!WritePacket(t)
BY DEF Solare!WritePacket, Burst!WritePacket, Solare!Goto, Burst!Goto, Solare!MayFail,
   Burst!MayFail, Solare!Failing, Burst!Failing, Solare!Requesting, Burst!Requesting,
   Solare!captureVars, Burst!captureVars

(* It is decoded.                                                           *)
LEMMA BurstDecode ==
    ASSUME NEW t, Burst!Decode(t)
    PROVE  Solare!Decode(t)
BY BurstEmit DEF Solare!Decode, Burst!Decode, Solare!Goto, Burst!Goto, Solare!MayFail,
   Burst!MayFail, Solare!Failing, Burst!Failing, Solare!captureVars, Burst!captureVars

(* And a gap told of.                                                       *)
LEMMA BurstDecoded ==
    ASSUME NEW t, Burst!Decoded(t)
    PROVE  Solare!Decoded(t)
BY BurstEmit DEF Solare!Decoded, Burst!Decoded, Solare!After, Burst!After, Solare!Goto,
   Burst!Goto, Solare!LatchedConfirmation, Burst!LatchedConfirmation, Solare!Health,
   Burst!Health, Solare!captureVars, Burst!captureVars, Solare!environment, Burst!environment

(* The finish begins.                                                       *)
LEMMA BurstFinishEnter ==
    ASSUME NEW t, Burst!FinishEnter(t)
    PROVE  Solare!FinishEnter(t)
BY DEF Solare!FinishEnter, Burst!FinishEnter, Solare!Leave, Burst!Leave, Solare!Goto,
   Burst!Goto, Solare!captureVars, Burst!captureVars, Solare!environment, Burst!environment,
   Solare!history, Burst!history

(* The capture is stopped.                                                  *)
LEMMA BurstFinishCapture ==
    ASSUME NEW t, Burst!FinishCapture(t)
    PROVE  Solare!FinishCapture(t)
BY BurstStop DEF Solare!FinishCapture, Burst!FinishCapture, Solare!KeptIncomplete,
   Burst!KeptIncomplete, Solare!Failing, Burst!Failing, Solare!Leave, Burst!Leave, Solare!Goto,
   Burst!Goto, Solare!history, Burst!history

(* The queue is drained.                                                    *)
LEMMA BurstDrain ==
    ASSUME NEW t, Burst!Drain(t)
    PROVE  Solare!Drain(t)
BY DEF Solare!Drain, Burst!Drain, Solare!Goto, Burst!Goto, Solare!captureVars,
   Burst!captureVars, Solare!environment, Burst!environment, Solare!history, Burst!history

(* The decoder is finished.                                                 *)
LEMMA BurstFinishDecoder ==
    ASSUME NEW t, Burst!FinishDecoder(t)
    PROVE  Solare!FinishDecoder(t)
BY BurstEmit DEF Solare!FinishDecoder, Burst!FinishDecoder, Solare!Goto, Burst!Goto,
   Solare!MayFail, Burst!MayFail, Solare!Failing, Burst!Failing, Solare!captureVars,
   Burst!captureVars

(* The result is built.                                                     *)
LEMMA BurstBuild ==
    ASSUME NEW t, Burst!Build(t)
    PROVE  Solare!Build(t)
BY DEF Solare!Build, Burst!Build, Solare!Verdict, Burst!Verdict, Solare!Health, Burst!Health,
   Solare!Goto, Burst!Goto, Solare!MayFail, Burst!MayFail, Solare!Failing, Burst!Failing,
   Solare!captureVars, Burst!captureVars, Solare!history, Burst!history

(* It is announced.                                                         *)
LEMMA BurstAnnounce ==
    ASSUME NEW t, Burst!Announce(t)
    PROVE  Solare!Announce(t)
BY BurstEmit DEF Solare!Announce, Burst!Announce, Solare!captureVars, Burst!captureVars,
   Solare!environment, Burst!environment

(* The session has stopped.                                                 *)
LEMMA BurstSettle ==
    ASSUME NEW t, Burst!Settle(t)
    PROVE  Solare!Settle(t)
BY DEF Solare!Settle, Burst!Settle, Solare!Leave, Burst!Leave, Solare!Goto, Burst!Goto,
   Solare!captureVars, Burst!captureVars, Solare!environment, Burst!environment, Solare!history,
   Burst!history

(* A stop is asked for.                                                     *)
LEMMA BurstRequests ==
    /\ Burst!RequestStop => Solare!RequestStop
    /\ \A t : Burst!StopCall(t) => Solare!StopCall(t)
BY DEF Solare!RequestStop, Burst!RequestStop, Solare!StopCall, Burst!StopCall, Solare!Asked,
   Burst!Asked, Solare!Requesting, Burst!Requesting, Solare!Goto, Burst!Goto,
   Solare!captureVars, Burst!captureVars, Solare!environment, Burst!environment, Solare!history,
   Burst!history

(* The worker is joined.                                                    *)
LEMMA BurstJoinWorker ==
    ASSUME NEW t, Burst!JoinWorker(t)
    PROVE  Solare!JoinWorker(t)
BY DEF Solare!JoinWorker, Burst!JoinWorker, Solare!WorkerJoined, Burst!WorkerJoined,
   Solare!WorkerGone, Burst!WorkerGone, Solare!Goto, Burst!Goto, Solare!MayFail, Burst!MayFail,
   Solare!captureVars, Burst!captureVars, Solare!history, Burst!history

(* Or not in time.                                                          *)
LEMMA BurstJoinExpired ==
    ASSUME NEW t, Burst!JoinExpired(t)
    PROVE  Solare!JoinExpired(t)
BY BurstStop DEF Solare!JoinExpired, Burst!JoinExpired, Solare!Failing, Burst!Failing,
   Solare!Goto, Burst!Goto, Solare!history, Burst!history

(* updates().                                                               *)
LEMMA BurstPolls ==
    Burst!PollUpdate \/ Burst!PollLook => Solare!PollUpdate \/ Solare!PollLook
BY DEF Solare!PollUpdate, Burst!PollUpdate, Solare!PollLook, Burst!PollLook, Solare!Goto,
   Burst!Goto, Solare!captureVars, Burst!captureVars, Solare!environment, Burst!environment,
   Solare!history, Burst!history

(* The state is the same.                                                   *)
LEMMA BurstVars ==
    /\ UNCHANGED Burst!vars => UNCHANGED Solare!vars
    /\ Burst!Callers = Solare!Callers
BY DEF Solare!vars, Burst!vars, Solare!captureVars, Burst!captureVars, Solare!environment,
   Burst!environment, Solare!history, Burst!history, Solare!Callers, Burst!Callers

(* A thread at work.                                                        *)
LEMMA BurstWorks ==
    ASSUME NEW t, Burst!Process(t) \/ Burst!Finish(t) \/ Burst!Notify(t)
    PROVE  Solare!Process(t) \/ Solare!Finish(t) \/ Solare!Notify(t)
<1>1. Burst!Process(t) => Solare!Process(t)
  BY BurstWritePacket, BurstDecode, BurstDecoded DEF Burst!Process, Solare!Process
<1>2. Burst!Finish(t) => Solare!Finish(t)
  BY BurstFinishEnter, BurstFinishCapture, BurstDrain, BurstFinishDecoder, BurstBuild,
     BurstAnnounce, BurstSettle DEF Burst!Finish, Solare!Finish
<1> QED
  BY <1>1, <1>2, BurstNotify

(* A burst takes a step of the session, or a packet arrives.                *)
LEMMA BurstNext ==
    ASSUME [Burst!Next]_(Burst!vars)
    PROVE  [Solare!Next]_(Solare!vars) \/ Burst!PacketArrives
<1>1. \A t : Burst!Caller(t) => Solare!Caller(t)
  BY BurstWorks, BurstJoinWorker, BurstJoinExpired DEF Burst!Caller, Solare!Caller
<1>2. Burst!Worker => Solare!Worker
  BY BurstWorks, BurstLoop, BurstService DEF Burst!Worker, Solare!Worker
<1>3. Burst!Main => Solare!Main
  BY <1>1, BurstStart, BurstOpenCapture, BurstLaunch, BurstUndo DEF Burst!Main, Solare!Main
<1>4. Burst!Rest => Solare!Rest
  BY BurstVars DEF Burst!Rest, Solare!Rest
<1>5. CASE UNCHANGED Burst!vars
  BY <1>5, BurstVars
<1>6. CASE Burst!Next
  <2>1. Burst!PutPacket \/ Burst!SourceEnds => Solare!Next
    BY BurstNative DEF Solare!Next
  <2>2. Burst!Worker \/ Burst!Main \/ Burst!Caller("stopper") => Solare!Next
    BY <1>1, <1>2, <1>3 DEF Solare!Next
  <2>3. Burst!RequestStop \/ (\E t \in Burst!Callers : Burst!StopCall(t)) => Solare!Next
    BY BurstRequests, BurstVars DEF Solare!Next
  <2>4. Burst!PollUpdate \/ Burst!PollLook \/ Burst!Rest => Solare!Next
    BY <1>4, BurstPolls DEF Solare!Next
  <2> QED
    BY <1>6, <2>1, <2>2, <2>3, <2>4 DEF Burst!Next
<1> QED
  BY <1>5, <1>6

(* A packet arrives, within either bound.                                   *)
LEMMA SolPacketArrives ==
    ASSUME SolInv, Solare!PacketArrives \/ Burst!PacketArrives
    PROVE  SolInv'
<1>1. /\ pc["sniffer"] = "idle" /\ sniffer = "alive" /\ sent' = sent + 1
      /\ Solare!Goto("sniffer", "put")
  BY DEF Solare!PacketArrives, Burst!PacketArrives, Solare!Goto, Burst!Goto
<1>2. UNCHANGED <<Solare!captureVars, session, pipe, snapshot, lock, back, hand, accepted, written,
                  finals, finalSeen, announced, rawFailed>>
  BY DEF Solare!PacketArrives, Burst!PacketArrives, Solare!captureVars, Burst!captureVars,
     Solare!history, Burst!history
<1> QED
  BY <1>1, <1>2, SolArriving

(* The invariant is kept by the session and by the burst.                   *)
LEMMA SolKept ==
    ASSUME SolInv, [Solare!Next]_(Solare!vars) \/ [Burst!Next]_(Burst!vars)
    PROVE  SolInv'
BY SolNext, SolPacketArrives, BurstNext

(* A result says what was announced.                                        *)
LEMMA SolConfirmedKept == SolInv => Solare!ConfirmedKept
BY DEF SolInv, SolResult, Solare!ConfirmedKept

(* Once the session has stopped, nobody has it in hand.                     *)
LEMMA SolRawIsKept == SolInv => Solare!RawKept
<1> SUFFICES ASSUME SolInv, session.stopped, SavePcap, ~rawFailed
             PROVE  written = accepted
  BY DEF Solare!RawKept
<1>1. pipe.packets = <<>> /\ written \in Seq(Nat)
  BY DEF SolInv, SolStopped, SolHands
<1>2. ~Writing
  <2>1. \A t \in Solare!Finishers : ~Busy(t)
    BY SolSole
  <2> QED
    BY <2>1, SolSets DEF Writing, Writes, Busy, Handles
<1>3. (written \o <<>>) \o <<>> = accepted
  BY <1>1, <1>2, SolHandIs DEF SolInv, SolRaw
<1> QED
  BY <1>1, <1>3

(* The last update is there, or was taken.                                  *)
LEMMA SolFinalKept == SolInv => Solare!FinalUpdateKept
BY DEF SolInv, SolFinal, Kept, Solare!FinalUpdateKept

(* The types, as the session states them.                                   *)
LEMMA SolTypes == SolInv => Solare!SolareTypeOK
<1> SUFFICES ASSUME SolInv PROVE Solare!SolareTypeOK
  OBVIOUS
<1>1. \A t \in DOMAIN pc : pc[t] \in Solare!Labels
  BY DEF SolInv, SolPlaces
<1> QED
  BY <1>1
  DEF SolInv, SolCapture, SolSession, SolPipe, SolSnapshot, Verdicts, SolControl, SolLock,
      Solare!SolareTypeOK

(* Who finishes is alone, and a session that has stopped holds nothing.     *)
LEMMA SolFinishedAlone == SolInv => Solare!FinishedAlone
<1> SUFFICES ASSUME SolInv PROVE Solare!FinishedAlone
  OBVIOUS
<1>1. Gone => Solare!WorkerGone
  BY SolSets DEF SolInv, SolPlaces, Gone, doing, Returns, Solare!WorkerGone
<1>2. ASSUME NEW t \in Solare!Callers,
             pc[t] \in {"write", "decode", "decoded", "release", "drain", "final", "build",
                        "warn", "finished", "settle"}
      PROVE  Gone
  <2>1. t \in Solare!Finishers /\ doing[t] = pc[t]
    BY <1>2, SolSets DEF doing
  <2>2. Finishes(t) \/ Handles(t)
    BY <1>2, <2>1 DEF Finishes, Empties, Closes, Handles
  <2> QED
    BY <2>2 DEF SolInv, SolControl, SolAlone
<1>3. session.stopped => sniffer # "alive" /\ ~socket /\ ~pipe.writer /\ pipe.packets = <<>>
  BY DEF SolInv, SolStopped
<1> QED
  BY <1>1, <1>2, <1>3 DEF Solare!FinishedAlone

-----------------------------------------------------------------------------
(* The parts keep to themselves.                                            *)
LEMMA ItemsPart ==
    ASSUME [Next]_vars
    PROVE  part' = part /\ (part = "items" => [Items!Next]_(Items!vars))
<1>1. CASE UNCHANGED vars
  BY <1>1 DEF vars, coroutines, itemsOnly, Items!vars
<1>2. CASE Next
  BY <1>2 DEF Next, SolareStep, BurstStep, CalibrationStep, ItemsStep, AsyncStep
<1> QED
  BY <1>1, <1>2

(* The facade of the item session keeps its invariant.                      *)
THEOREM ItemsHold == Spec => [](part = "items" => ItemsInv)
<1>1. Init => (part = "items" => ItemsInv)
  BY ItemsInit DEF Init
<1>2. (part = "items" => ItemsInv) /\ [Next]_vars => (part = "items" => ItemsInv)'
  BY ItemsPart, ItemsNext
<1> QED
  BY <1>1, <1>2, PTL DEF Spec

(* A step of a Solare part is one of its session.                           *)
LEMMA SolarePart ==
    ASSUME [Next]_vars
    PROVE  /\ part' = part
           /\ InSolare => [Solare!Next]_(Solare!vars) \/ [Burst!Next]_(Burst!vars)
<1>1. CASE UNCHANGED vars
  BY <1>1 DEF vars, capture, solareOnly, threads, Solare!vars, Solare!captureVars,
     Solare!environment, Solare!history
<1>2. CASE Next
  BY <1>2 DEF Next, SolareStep, BurstStep, CalibrationStep, ItemsStep, AsyncStep, InSolare
<1> QED
  BY <1>1, <1>2

(* A Solare session keeps its invariant, whatever number of packets reaches *)
(* it and in whatever order its threads take their steps.                   *)
THEOREM SolareHolds == Spec => [](InSolare => SolInv)
<1>1. Init => (InSolare => SolInv)
  BY SolInit DEF Init, InSolare
<1>2. (InSolare => SolInv) /\ [Next]_vars => (InSolare => SolInv)'
  BY SolarePart, SolKept DEF InSolare
<1> QED
  BY <1>1, <1>2, PTL DEF Spec

(* What user code was told when a leaderboard was confirmed is what the     *)
(* result says, complete exactly when nothing was lost up to then           *)
(* (solare/session.py _emit, build_solare_result).                          *)
THEOREM SolareConfirmedKept == Spec => []ConfirmedKept
<1>1. (InSolare => SolInv) => ConfirmedKept
  BY SolConfirmedKept DEF ConfirmedKept
<1> QED
  BY <1>1, SolareHolds, PTL

(* Nothing produced is lost on the way to its reader: the raw file holds    *)
(* every accepted packet in order, the last update stays in the bounded     *)
(* queue until it is taken, and no cancelled poll of the item facade loses, *)
(* repeats or reorders an event (solare/session.py _finish_worker,          *)
(* _queue_update; _async_sessions.py poll).                                 *)
THEOREM SessionsNothingDropped == Spec => []NothingDropped
<1>1. (InSolare => SolInv) /\ (part = "items" => ItemsInv) => NothingDropped
  BY SolRawIsKept, SolFinalKept, ItemsEventsKept DEF NothingDropped
<1> QED
  BY <1>1, SolareHolds, ItemsHold, PTL

(* No decoder is finished while a thread may still call it, no capture that *)
(* runs is forgotten, and what says it is over has released everything      *)
(* (solare/session.py stop; _calibration/capture.py:504, live.py:228).      *)
THEOREM SessionsCaptureOwned == Spec => []CaptureOwned
<1>1. (InSolare => SolInv) /\ CalibrationParts => CaptureOwned
  BY SolTypes, SolFinishedAlone, CalibrationCaptureOwned DEF CalibrationParts, CaptureOwned
<1> QED
  BY <1>1, SolareHolds, CalibrationPartsHold, PTL

(* A capture that is still owned can be stopped through its facade,         *)
(* whatever was cancelled: a task or a future that failed is replaced, the  *)
(* pool is open, and a thread is free (_async_sessions.py stop,             *)
(* _ensure_stop_future, abort).                                             *)
THEOREM SessionsCanBeStopped == Spec => []CanBeStopped
<1>1. CalibrationParts /\ (part = "items" => ItemsInv) => CanBeStopped
  BY AsyncReachable, ItemsCanBeStopped DEF CalibrationParts, CanBeStopped
<1> QED
  BY <1>1, CalibrationPartsHold, ItemsHold, PTL
================================================================================
