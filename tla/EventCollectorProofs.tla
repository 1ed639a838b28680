------------------------ MODULE EventCollectorProofs ------------------------
(***************************************************************************)
(* EventCollector, for every flow, wire, limit and number of raising       *)
(* observers: the outboxes of both trackers are dispatched by one thread   *)
(* at a time and never left behind (Handover); their callbacks run in the  *)
(* order of the mutations, each once (MutationOrder, the refinement of     *)
(* OrderedDispatch); every record is in one place until it is delivered,   *)
(* once (RecordsKept); what leaves as a snapshot has its reason in the     *)
(* history (SnapshotsProven); and finalize leaves nothing undelivered when *)
(* it meets no other dispatcher (FinalizeCompleteAlone).                   *)
(***************************************************************************)
EXTENDS EventCollector, TLAPS, WellFoundedInduction, FiniteSetTheorems

Labels == {"ready", "dead", "between", "origin", "originTake", "originCall",
           "hydration", "hydrationTake", "hydrationCall"}

(* Handover is not inductive alone: it needs that a thread outside a       *)
(* callback of the origin tracker has none in hand, and that one inside has. *)
Positions ==
    /\ pc \in [Threads -> Labels]
    /\ failures \in Nat
    /\ originHand = [t \in Threads |-> originHand[t]]
    /\ \A t \in Threads :
         /\ pc[t] \in {"ready", "dead", "between", "origin", "originTake"} =>
              originHand[t] = <<>>
         /\ pc[t] = "originCall" => originHand[t] # <<>>

IInv == Positions /\ Handover

(* What Handover speaks of, beside the outboxes.                           *)
focus == <<pc, originHand, originBusy, hydrationBusy, failures>>

(* Initially every thread is ready and nothing is queued.                  *)
LEMMA InitIInv == Init => IInv
  BY DEF Init, IInv, Positions, Handover, OneDispatcher, NothingStuck, RunsOrigin,
     RunsHydration, Labels, Threads

(* A step of the decoder, the clock or the session moves no thread and     *)
(* queues nothing.                                                         *)
LEMMA QuietKeeps ==
  ASSUME IInv, UNCHANGED <<focus, originOutbox, hydrationOutbox>>
  PROVE  IInv'
  BY DEF focus, IInv, Positions, Handover, OneDispatcher, NothingStuck, RunsOrigin,
     RunsHydration

(* A mutation of the origin tracker, whatever it queues: the thread goes   *)
(* on to drain the outbox.                                                 *)
LEMMA EnterKeeps ==
  ASSUME IInv, NEW t \in Threads, pc[t] = "ready",
         pc' = [pc EXCEPT ![t] = "origin"],
         UNCHANGED <<originHand, originBusy, hydrationBusy, failures, hydrationOutbox>>
  PROVE  IInv'
  BY DEF IInv, Positions, Handover, OneDispatcher, NothingStuck, RunsOrigin,
     RunsHydration, Labels

(* A mutation of the hydration tracker, whatever it queues, also from      *)
(* inside a callback of the origin tracker.                                *)
LEMMA HydrateKeeps ==
  ASSUME IInv, NEW t \in Threads, pc[t] \in {"ready", "between", "originCall"},
         pc' = [pc EXCEPT ![t] = "hydration"],
         UNCHANGED <<originHand, originBusy, hydrationBusy, failures, originOutbox>>
  PROVE  IInv'
  BY DEF IInv, Positions, Handover, OneDispatcher, NothingStuck, RunsOrigin,
     RunsHydration, Labels

(* The dispatcher of the origin tracker claims, takes, leaves or yields.   *)
LEMMA OriginDrainKeeps ==
  ASSUME IInv, NEW t \in Threads, OriginDrain(t)
  PROVE  IInv'
<1> USE DEF IInv, Positions, Handover, OneDispatcher, NothingStuck, RunsOrigin,
        RunsHydration, Labels
<1>0. UNCHANGED <<hydrationOutbox, hydrationBusy, failures>>
  BY DEF OriginDrain, stop
<1>1. CASE OriginYield(t)
  BY <1>0, <1>1 DEF OriginYield, AfterOrigin, Leave
<1>2. CASE OriginTake(t)
  BY <1>0, <1>2 DEF OriginTake, MayDispatchOrigin
<1>3. CASE OriginDone(t)
  BY <1>0, <1>3 DEF OriginDone, MayDispatchOrigin, AfterOrigin, Leave
<1> QED BY <1>1, <1>2, <1>3 DEF OriginDrain

(* The observer returns to the dispatcher, or raises: then the claim is    *)
(* given up, and the failure is on record.                                 *)
LEMMA ObserverKeeps ==
  ASSUME IInv, NEW t \in Threads, Observer(t)
  PROVE  IInv'
<1> USE DEF IInv, Positions, Handover, OneDispatcher, NothingStuck, RunsOrigin,
        RunsHydration, Labels
<1>1. CASE pc' = [pc EXCEPT ![t] = "originTake"] /\ UNCHANGED <<originBusy, failures>>
  BY <1>1 DEF Observer
<1>2. CASE /\ failures' = failures + 1 /\ originBusy' = FALSE
           /\ Leave(t, IF t = "worker" THEN "dead" ELSE "ready")
  BY <1>2 DEF Observer, Leave
<1> QED BY <1>1, <1>2 DEF Observer, stop

(* The dispatcher of the hydration tracker, which returns to the origin    *)
(* tracker's when it runs inside one of its callbacks.                     *)
LEMMA HydrationDrainKeeps ==
  ASSUME IInv, NEW t \in Threads, HydrationDrain(t)
  PROVE  IInv'
<1> USE DEF IInv, Positions, Handover, OneDispatcher, NothingStuck, RunsOrigin,
        RunsHydration, Labels
<1>0. UNCHANGED <<originOutbox, originBusy, failures>>
  BY DEF HydrationDrain
<1>1. CASE HydrationYield(t)
  BY <1>0, <1>1 DEF HydrationYield, AfterHydration, Leave
<1>2. CASE HydrationTake(t)
  BY <1>0, <1>2 DEF HydrationTake, MayDispatchHydration
<1>3. CASE HydrationDone(t)
  BY <1>0, <1>3 DEF HydrationDone, MayDispatchHydration, AfterHydration, Leave
<1> QED BY <1>1, <1>2, <1>3 DEF HydrationDrain

(* A delivered event: the dispatcher looks at the outbox again.            *)
LEMMA DeliverKeeps ==
  ASSUME IInv, NEW t \in Threads, Deliver(t)
  PROVE  IInv'
  BY DEF Deliver, stop, IInv, Positions, Handover, OneDispatcher, NothingStuck,
     RunsOrigin, RunsHydration, Labels

(* A record handed over goes to the origin tracker, or, when it belongs to *)
(* an inventory snapshot, to the hydration tracker.                        *)
LEMMA RegisterKeeps ==
  ASSUME IInv, NEW t \in Threads, Register(t)
  PROVE  IInv'
<1>0. pc[t] = "ready" /\ UNCHANGED <<hydrationBusy, failures>>
  BY DEF Register, Decodes, stop
<1>1. CASE /\ pc' = [pc EXCEPT ![t] = "hydration"]
           /\ UNCHANGED <<originOutbox, originBusy, originHand>>
  BY <1>0, <1>1, HydrateKeeps
<1>2. CASE /\ pc' = [pc EXCEPT ![t] = "origin"]
           /\ UNCHANGED <<originBusy, originHand, hydrationOutbox>>
  BY <1>0, <1>2, EnterKeeps
<1> QED BY <1>1, <1>2 DEF Register, RegisterStorage, Enter

(* Each action keeps the invariant.                                        *)
LEMMA StepKeeps == IInv /\ [Next]_vars => IInv'
<1> SUFFICES ASSUME IInv, [Next]_vars PROVE IInv' OBVIOUS
<1> USE DEF focus, stop, threads
<1>1. CASE UNCHANGED vars
  BY <1>1, QuietKeeps DEF vars
<1>2. CASE Tick \/ Stopped \/ FlushSkipped
  BY <1>2, QuietKeeps DEF Tick, Stopped, FlushSkipped, vars
<1>3. CASE WorkerEnds
  BY <1>3 DEF WorkerEnds, IInv, Positions, Handover, OneDispatcher, NothingStuck,
     RunsOrigin, RunsHydration, Labels, Threads
<1>4. CASE FlushStale
  BY <1>4, EnterKeeps DEF FlushStale, Enter, Threads
<1>5. CASE Finalize
  BY <1>5, EnterKeeps DEF Finalize, Enter, Threads
<1>6. ASSUME NEW t \in Threads, Step(t) PROVE IInv'
  <2>1. CASE AfterOriginCall(t)
    BY <2>1, HydrateKeeps DEF AfterOriginCall
  <2>2. CASE HydrationHalf(t)
    BY <2>2, HydrateKeeps DEF HydrationHalf
  <2> QED BY <1>6, <2>1, <2>2, RegisterKeeps, OriginDrainKeeps, ObserverKeeps,
             HydrationDrainKeeps, DeliverKeeps DEF Step
<1>7. ASSUME NEW t \in Threads, Decode(t) PROVE IInv'
  BY <1>7, QuietKeeps DEF Decode
<1>8. ASSUME NEW t \in Threads, Observe(t) PROVE IInv'
  BY <1>8, EnterKeeps DEF Observe, Enter, Decodes
<1>9. ASSUME NEW t \in Threads, CloseFlow(t) PROVE IInv'
  BY <1>9, EnterKeeps DEF CloseFlow, Enter, Decodes
<1> QED BY <1>1, <1>2, <1>3, <1>4, <1>5, <1>6, <1>7, <1>8, <1>9 DEF Next

(* However the worker, poll() and the stop interleave, the callbacks of a  *)
(* tracker are run by one thread at a time, and a queued callback is never *)
(* left without a dispatcher (_drain_outbox of both trackers).             *)
THEOREM CollectorHandover == Spec => []Handover
<1>1. IInv => Handover
  BY DEF IInv
<1> QED BY <1>1, InitIInv, StepKeeps, PTL DEF Spec

(* A set of naturals that is not empty has a least element: induction on    *)
(* naturals, which the proofs below use instead of a recursion.             *)
LEMMA LeastNumber ==
  ASSUME NEW T, T \subseteq Nat, T # {}
  PROVE  \E n \in T : \A m \in T : n <= m
<1> DEFINE R == OpToRel(<, Nat)
<1>1. IsWellFoundedOn(R, Nat)
  BY NatLessThanWellFounded
<1>2. \A x, y \in Nat : <<y, x>> \in R <=> y < x
  BY DEF OpToRel
<1> HIDE DEF R
<1>3. PICK n \in T : \A m \in T : ~ (<<m, n>> \in R)
  BY <1>1, WFMin
<1>4. \A m \in T : n \in Nat /\ m \in Nat /\ ~(m < n)
  BY <1>2, <1>3
<1> QED BY <1>4

Gathers(ss, n, g) ==
  g = [i \in 1..n |-> IF i = 1 THEN ss[i] ELSE g[i - 1] \o ss[i]]

(* The running concatenations of a sequence of sequences exist.             *)
LEMMA GathersExist ==
  ASSUME NEW ss
  PROVE  \A n \in Nat : \E g : Gathers(ss, n, g)
<1> DEFINE T == {n \in Nat : ~ \E g : Gathers(ss, n, g)}
<1> SUFFICES ASSUME T # {} PROVE FALSE
  OBVIOUS
<1>1. PICK n \in T : \A m \in T : n <= m
  BY LeastNumber, Zenon
<1>2. n # 0
  <2>1. Gathers(ss, 0, [i \in 1..0 |-> <<>>])
    BY DEF Gathers
  <2> QED BY <2>1
<1>3. n \in Nat /\ n - 1 \in Nat /\ n - 1 < n /\ n - 1 \notin T
  BY <1>1, <1>2
<1>4. PICK g : Gathers(ss, n - 1, g)
  BY <1>3
<1> DEFINE h == [i \in 1..n |-> IF i = 1 THEN ss[i] ELSE g[i - 1] \o ss[i]]
<1>5. h = [i \in 1..n |-> IF i = 1 THEN ss[i] ELSE h[i - 1] \o ss[i]]
  <2>1. ASSUME NEW i \in 1..n, i # 1
        PROVE  h[i - 1] = g[i - 1]
    <3>1. i - 1 \in 1..n /\ i - 1 \in 1..(n - 1)
      BY <1>3, <2>1
    <3>2. g[i - 1] = IF i - 1 = 1 THEN ss[i - 1] ELSE g[(i - 1) - 1] \o ss[i - 1]
      BY <1>4, <3>1 DEF Gathers
    <3>3. h[i - 1] = IF i - 1 = 1 THEN ss[i - 1] ELSE g[(i - 1) - 1] \o ss[i - 1]
      BY <3>1, Zenon
    <3> QED BY <3>2, <3>3
  <2> HIDE DEF h
  <2>2. h = [i \in 1..n |-> IF i = 1 THEN ss[i] ELSE g[i - 1] \o ss[i]]
    BY DEF h
  <2> QED BY <2>1, <2>2
<1>6. Gathers(ss, n, h)
  BY <1>5 DEF Gathers
<1> QED BY <1>1, <1>6

(* ... and FlattenSeq is the last of them.                                  *)
LEMMA FlattenIs ==
  ASSUME NEW ss, Len(ss) \in Nat \ {0}
  PROVE  \E g : Gathers(ss, Len(ss), g) /\ FlattenSeq(ss) = g[Len(ss)]
<1> DEFINE f == CHOOSE g : Gathers(ss, Len(ss), g)
<1>1. Gathers(ss, Len(ss), f)
  BY GathersExist, Zenon
<1>2. FlattenSeq(ss) = f[Len(ss)]
  BY DEF FlattenSeq, Gathers
<1> QED BY <1>1, <1>2

Inj(K, s) == \A i, j \in DOMAIN s : K[s[i]] = K[s[j]] => i = j

(* Elements of a concatenation.                                             *)
LEMMA AppendedElements ==
  ASSUME NEW S, NEW s \in Seq(S), NEW u \in Seq(S)
  PROVE  /\ s \o u \in Seq(S)
         /\ ToSet(s \o u) = ToSet(s) \cup ToSet(u)
<1>1. /\ s \o u \in Seq(S) /\ Len(s \o u) = Len(s) + Len(u)
      /\ Len(s) \in Nat /\ Len(u) \in Nat
      /\ DOMAIN s = 1..Len(s) /\ DOMAIN u = 1..Len(u)
      /\ DOMAIN (s \o u) = 1..(Len(s) + Len(u))
  OBVIOUS
<1>2. \A i \in 1..(Len(s) + Len(u)) :
        (s \o u)[i] = IF i <= Len(s) THEN s[i] ELSE u[i - Len(s)]
  OBVIOUS
<1>3. \A i \in 1..Len(s) : i \in 1..(Len(s) + Len(u)) /\ i <= Len(s)
  BY <1>1
<1>4. \A i \in 1..Len(u) : /\ i + Len(s) \in 1..(Len(s) + Len(u))
                           /\ ~(i + Len(s) <= Len(s)) /\ (i + Len(s)) - Len(s) = i
  BY <1>1
<1>5. \A i \in 1..(Len(s) + Len(u)) : i <= Len(s) => i \in 1..Len(s)
  BY <1>1
<1>6. \A i \in 1..(Len(s) + Len(u)) : ~(i <= Len(s)) => i - Len(s) \in 1..Len(u)
  BY <1>1
<1>7. ToSet(s) \cup ToSet(u) \subseteq ToSet(s \o u)
  <2>1. ASSUME NEW i \in 1..Len(s) PROVE s[i] \in ToSet(s \o u)
    BY <1>1, <1>2, <1>3 DEF ToSet
  <2>2. ASSUME NEW i \in 1..Len(u) PROVE u[i] \in ToSet(s \o u)
    <3>1. (s \o u)[i + Len(s)] = u[i]
      BY <1>2, <1>4
    <3> QED BY <1>1, <1>4, <3>1 DEF ToSet
  <2> QED BY <1>1, <2>1, <2>2 DEF ToSet
<1>8. ToSet(s \o u) \subseteq ToSet(s) \cup ToSet(u)
  BY <1>1, <1>2, <1>5, <1>6 DEF ToSet
<1> QED BY <1>1, <1>7, <1>8

(* A concatenation repeats no key when neither part does and they share     *)
(* none.                                                                    *)
LEMMA AppendedInj ==
  ASSUME NEW S, NEW K, NEW s \in Seq(S), NEW u \in Seq(S), Inj(K, s), Inj(K, u),
         \A a \in ToSet(s), b \in ToSet(u) : K[a] # K[b]
  PROVE  Inj(K, s \o u)
<1> SUFFICES ASSUME NEW i \in 1..(Len(s) + Len(u)), NEW j \in 1..(Len(s) + Len(u)),
                    K[(s \o u)[i]] = K[(s \o u)[j]]
             PROVE  i = j
  BY DEF Inj
<1>1. /\ Len(s) \in Nat /\ Len(u) \in Nat
      /\ DOMAIN s = 1..Len(s) /\ DOMAIN u = 1..Len(u)
  OBVIOUS
<1>2. \A k \in 1..(Len(s) + Len(u)) :
        (s \o u)[k] = IF k <= Len(s) THEN s[k] ELSE u[k - Len(s)]
  OBVIOUS
<1>3. \A k \in 1..(Len(s) + Len(u)) :
        /\ k <= Len(s) => k \in DOMAIN s /\ (s \o u)[k] = s[k] /\ s[k] \in ToSet(s)
        /\ ~(k <= Len(s)) => /\ k - Len(s) \in DOMAIN u /\ (s \o u)[k] = u[k - Len(s)]
                             /\ u[k - Len(s)] \in ToSet(u)
  BY <1>1, <1>2 DEF ToSet
<1>4. CASE i <= Len(s) /\ j <= Len(s)
  BY <1>3, <1>4 DEF Inj
<1>5. CASE ~(i <= Len(s)) /\ ~(j <= Len(s))
  <2>1. i - Len(s) = j - Len(s)
    BY <1>3, <1>5 DEF Inj
  <2> QED BY <1>1, <2>1
<1>6. CASE ~(i <= Len(s) <=> j <= Len(s))
  BY <1>3, <1>6
<1> QED BY <1>4, <1>5, <1>6

Apart(K, ss) ==
  /\ \A i \in DOMAIN ss : Inj(K, ss[i])
  /\ \A i, j \in DOMAIN ss : i # j =>
        \A a \in ToSet(ss[i]), b \in ToSet(ss[j]) : K[a] # K[b]

Joins(S, K, ss, n, u) ==
  /\ u \in Seq(S)
  /\ ToSet(u) = UNION {ToSet(ss[i]) : i \in 1..n}
  /\ Apart(K, ss) => Inj(K, u)

(* One sequence more.                                                       *)
LEMMA JoinsNext ==
  ASSUME NEW S, NEW K, NEW ss \in Seq(Seq(S)), NEW n \in 2..Len(ss), NEW u,
         Joins(S, K, ss, n - 1, u)
  PROVE  Joins(S, K, ss, n, u \o ss[n])
<1>1. n \in DOMAIN ss /\ ss[n] \in Seq(S) /\ u \in Seq(S)
  BY DEF Joins
<1>2. u \o ss[n] \in Seq(S) /\ ToSet(u \o ss[n]) = ToSet(u) \cup ToSet(ss[n])
  BY <1>1, AppendedElements
<1>3. 1..n = (1..(n - 1)) \cup {n}
  OBVIOUS
<1>4. ToSet(u \o ss[n]) = UNION {ToSet(ss[i]) : i \in 1..n}
  BY <1>2, <1>3 DEF Joins
<1>5. ASSUME Apart(K, ss) PROVE Inj(K, u \o ss[n])
  <2>1. \A a \in ToSet(u), b \in ToSet(ss[n]) : K[a] # K[b]
    <3> SUFFICES ASSUME NEW i \in 1..(n - 1),
                        NEW a \in ToSet(ss[i]), NEW b \in ToSet(ss[n])
                 PROVE  K[a] # K[b]
      BY DEF Joins
    <3>1. i \in DOMAIN ss /\ n \in DOMAIN ss /\ i # n
      BY <1>1
    <3> QED BY <1>5, <3>1 DEF Apart
  <2>2. Inj(K, u) /\ Inj(K, ss[n])
    BY <1>1, <1>5 DEF Joins, Apart
  <2> QED BY <1>1, <2>1, <2>2, AppendedInj
<1> QED BY <1>2, <1>4, <1>5 DEF Joins

(* What FlattenSeq returns.                                                 *)
LEMMA FlattenJoins ==
  ASSUME NEW S, NEW K, NEW ss \in Seq(Seq(S))
  PROVE  Joins(S, K, ss, Len(ss), FlattenSeq(ss))
<1>0. Len(ss) \in Nat /\ DOMAIN ss = 1..Len(ss)
  OBVIOUS
<1>1. CASE Len(ss) = 0
  <2>1. FlattenSeq(ss) = <<>>
    BY <1>1 DEF FlattenSeq
  <2> QED BY <1>1, <2>1 DEF Joins, ToSet, Inj
<1>2. CASE Len(ss) # 0
  <2>1. PICK g : Gathers(ss, Len(ss), g) /\ FlattenSeq(ss) = g[Len(ss)]
    BY <1>0, <1>2, FlattenIs
  <2> DEFINE T == {n \in 1..Len(ss) : ~ Joins(S, K, ss, n, g[n])}
  <2>2. g[1] = ss[1]
    BY <1>0, <1>2, <2>1 DEF Gathers
  <2>3. ASSUME NEW i \in 2..Len(ss)
        PROVE  i - 1 \in 1..Len(ss) /\ g[i] = g[i - 1] \o ss[i]
    <3>1. i \in 1..Len(ss) /\ i # 1 /\ i - 1 \in 1..Len(ss)
      BY <1>0
    <3> QED BY <2>1, <3>1 DEF Gathers
  <2>4. Joins(S, K, ss, 1, g[1])
    BY <1>0, <1>2, <2>2 DEF Joins, ToSet, Apart
  <2>5. \A n \in T : n \in 2..Len(ss) /\ n - 1 \in T
    <3> SUFFICES ASSUME NEW n \in T PROVE n \in 2..Len(ss) /\ n - 1 \in T
      OBVIOUS
    <3>1. n \in 2..Len(ss)
      BY <1>0, <2>4
    <3>2. n - 1 \in 1..Len(ss) /\ g[n] = g[n - 1] \o ss[n]
      BY <2>3, <3>1
    <3>3. ~ Joins(S, K, ss, n - 1, g[n - 1])
      BY <3>1, <3>2, JoinsNext
    <3> QED BY <3>1, <3>2, <3>3
  <2>6. T = {}
    <3>1. T \subseteq Nat
      OBVIOUS
    <3> HIDE DEF T
    <3>2. SUFFICES ASSUME T # {} PROVE FALSE
      OBVIOUS
    <3>3. PICK n \in T : \A m \in T : n <= m
      BY <3>1, <3>2, LeastNumber
    <3>4. n \in Nat /\ n - 1 \in T
      BY ZenonT(60), <2>5, <3>1, <3>3
    <3>5. n <= n - 1
      BY <3>3, <3>4
    <3> QED BY ONLY <3>4, <3>5
  <2>7. Len(ss) \in 1..Len(ss)
    BY <1>0, <1>2
  <2>8. Joins(S, K, ss, Len(ss), g[Len(ss)])
    BY ZenonT(60), <2>6, <2>7
  <2> QED BY ONLY <2>1, <2>8
<1> QED BY <1>1, <1>2

(* ... its elements are those of its parts,                                 *)
LEMMA FlattenElements ==
  ASSUME NEW S, NEW ss \in Seq(Seq(S))
  PROVE  /\ FlattenSeq(ss) \in Seq(S)
         /\ ToSet(FlattenSeq(ss)) = UNION {ToSet(ss[i]) : i \in DOMAIN ss}
<1>1. DOMAIN ss = 1..Len(ss)
  OBVIOUS
<1> QED BY <1>1, FlattenJoins DEF Joins

(* ... and it repeats no key when its parts are apart.                      *)
LEMMA FlattenInj ==
  ASSUME NEW S, NEW K, NEW ss \in Seq(Seq(S)), Apart(K, ss)
  PROVE  Inj(K, FlattenSeq(ss))
  BY FlattenJoins DEF Joins

HasMax(U) == \E x \in U : \A y \in U : x >= y

(* A finite set of naturals has its Max.                                    *)
LEMMA MaxOf ==
  ASSUME NEW S, S \subseteq Nat, IsFiniteSet(S), S # {}
  PROVE  Max(S) \in S /\ \A y \in S : y <= Max(S)
<1> DEFINE T == {n \in Nat : \E U \in SUBSET S : U # {} /\ Cardinality(U) = n /\ ~HasMax(U)}
<1>1. T = {}
  <2> SUFFICES ASSUME T # {} PROVE FALSE
    OBVIOUS
  <2>1. T \subseteq Nat
    OBVIOUS
  <2>2. PICK n \in T : \A m \in T : n <= m
    <3> HIDE DEF T
    <3> QED BY <2>1, LeastNumber
  <2>3. PICK U \in SUBSET S : U # {} /\ Cardinality(U) = n /\ ~HasMax(U)
    BY <2>2
  <2>4. PICK x \in U : TRUE
    BY <2>3
  <2>5. U \ {x} # {}
    BY <2>3, <2>4 DEF HasMax
  <2>6. IsFiniteSet(U) /\ IsFiniteSet(U \ {x}) /\ Cardinality(U \ {x}) = n - 1
    BY <2>3, FS_Subset, FS_RemoveElement
  <2>7. n - 1 \in Nat
    BY <2>6, FS_CardinalityType
  <2>8. HasMax(U \ {x})
    <3>1. n - 1 \notin T
      BY <2>1, <2>2, <2>7
    <3> QED BY <2>3, <2>5, <2>6, <2>7, <3>1
  <2>9. PICK y \in U \ {x} : \A z \in U \ {x} : y >= z
    BY <2>8 DEF HasMax
  <2>10. HasMax(U)
    <3>1. x \in Nat /\ y \in Nat /\ U \subseteq Nat
      BY <2>3
    <3>2. CASE x >= y
      BY <2>9, <3>1, <3>2 DEF HasMax
    <3>3. CASE y >= x
      BY <2>9, <3>1, <3>3 DEF HasMax
    <3> QED BY <3>1, <3>2, <3>3
  <2> QED BY <2>3, <2>10
<1>2. HasMax(S)
  BY <1>1, FS_CardinalityType
<1>3. \E x \in S : \A y \in S : x >= y
  BY <1>2 DEF HasMax
<1> QED BY <1>3 DEF Max

(* The wrappers a wire carries.                                             *)
LEMMA WireIs ==
  ASSUME NEW wire \in Wires
  PROVE  /\ Len(wire) \in Nat /\ DOMAIN wire = 1..Len(wire)
         /\ \A m \in DOMAIN wire :
              wire[m] \in [flow : Flows, kind : Kinds, count : Nat \ {0},
                          destination : Destinations]
<1>1. wire \in Seq([flow : Flows, kind : Kinds, count : Nat \ {0},
                   destination : Destinations])
  BY CollectorConstants, Zenon
<1> HIDE DEF Kinds
<1> DEFINE W == [flow : Flows, kind : Kinds, count : Nat \ {0},
                 destination : Destinations]
<1>2. wire \in Seq(W)
  BY <1>1
<1> HIDE DEF W
<1>3. /\ Len(wire) \in Nat /\ DOMAIN wire = 1..Len(wire)
      /\ \A m \in DOMAIN wire : wire[m] \in W
  BY <1>2
<1> QED BY <1>3 DEF W

(* Messages and MaxRecords bound every wire.                                *)
LEMMA ConstantLimits ==
  /\ \E n \in Nat : Messages = 1..n /\ \A wire \in Wires : Len(wire) <= n
  /\ MaxRecords \in Nat \ {0}
  /\ \A wire \in Wires : \A m \in DOMAIN wire : wire[m].count \in 1..MaxRecords
<1> DEFINE Lengths == {Len(wire) : wire \in Wires}
           CountsOf(wire) == {wire[m].count : m \in DOMAIN wire}
           Counts == UNION {CountsOf(wire) : wire \in Wires}
<1>0. \A wire \in Wires : /\ Len(wire) \in Nat /\ DOMAIN wire = 1..Len(wire)
                          /\ CountsOf(wire) \subseteq Nat \ {0}
  BY WireIs
<1>1. Lengths \subseteq Nat /\ IsFiniteSet(Lengths) /\ Lengths # {}
  <2> DEFINE f == [wire \in Wires |-> Len(wire)]
  <2>1. f \in Surjection(Wires, Lengths)
    BY DEF Surjection
  <2> HIDE DEF f
  <2>2. IsFiniteSet(Lengths)
    BY <2>1, FS_Surjection, CollectorConstants
  <2> QED BY ZenonT(60), <1>0, <2>2, CollectorConstants
<1>2. ASSUME NEW wire \in Wires PROVE IsFiniteSet(CountsOf(wire))
  <2> DEFINE f == [m \in 1..Len(wire) |-> wire[m].count]
  <2>1. f \in Surjection(1..Len(wire), CountsOf(wire))
    BY <1>0 DEF Surjection
  <2>2. IsFiniteSet(1..Len(wire))
    BY <1>0, FS_Interval
  <2> HIDE DEF f, CountsOf
  <2> QED BY <2>1, <2>2, FS_Surjection
<1>3. Counts \subseteq Nat /\ IsFiniteSet(Counts) /\ Counts # {} /\ 0 \notin Counts
  <2> DEFINE Sets == {CountsOf(wire) : wire \in Wires}
             f == [wire \in Wires |-> CountsOf(wire)]
  <2>1. IsFiniteSet(Sets)
    <3>1. f \in Surjection(Wires, Sets)
      BY DEF Surjection
    <3> HIDE DEF f, Sets
    <3> QED BY <3>1, FS_Surjection, CollectorConstants
  <2>2. IsFiniteSet(UNION Sets)
    <3>1. \A U \in Sets : IsFiniteSet(U)
      BY <1>2
    <3> HIDE DEF Sets
    <3> QED BY <2>1, <3>1, FS_UNION
  <2>3. Counts # {}
    <3>1. PICK wire \in Wires : wire # <<>>
      BY CollectorConstants
    <3>2. Len(wire) # 0
      <4>1. wire \in Seq([flow : Flows, kind : Kinds, count : Nat \ {0},
                         destination : Destinations])
        BY CollectorConstants, Zenon
      <4> QED BY <3>1, <4>1
    <3>3. 1 \in DOMAIN wire
      BY <1>0, <3>2
    <3>4. wire[1].count \in CountsOf(wire)
      BY <3>3
    <3> HIDE DEF CountsOf
    <3> QED BY <3>4
  <2> QED BY <1>0, <2>2, <2>3
<1>4. Messages = 1..Max(Lengths) /\ MaxRecords = Max(Counts)
  BY DEF Messages, MaxRecords
<1> HIDE DEF Lengths, Counts
<1>5. Max(Lengths) \in Nat /\ Max(Counts) \in Nat \ {0}
  BY <1>1, <1>3, MaxOf
<1>6. \A wire \in Wires : Len(wire) <= Max(Lengths)
  BY <1>1, MaxOf DEF Lengths
<1>7. \A wire \in Wires : \A m \in DOMAIN wire :
        wire[m].count \in Nat \ {0} /\ wire[m].count <= Max(Counts)
  <2> TAKE wire \in Wires
  <2> TAKE m \in DOMAIN wire
  <2>1. wire[m].count \in Counts
    BY DEF Counts
  <2> QED BY <1>3, <2>1, MaxOf
<1> QED BY <1>4, <1>5, <1>6, <1>7

(* Where keeps the elements asked for, each once.                           *)
LEMMA WhereElements ==
  ASSUME NEW S, NEW s \in Seq(S), NEW T
  PROVE  /\ Where(s, T) \in Seq(S)
         /\ ToSet(Where(s, T)) = ToSet(s) \cap T
         /\ \A K : Inj(K, s) => Inj(K, Where(s, T))
<1> DEFINE ss == [i \in DOMAIN s |-> IF s[i] \in T THEN <<s[i]>> ELSE <<>>]
<1>1. ss \in Seq(Seq(S)) /\ DOMAIN ss = DOMAIN s
  <2>1. \A i \in DOMAIN s : s[i] \in S
    OBVIOUS
  <2>2. DOMAIN s = 1..Len(s) /\ Len(s) \in Nat
    OBVIOUS
  <2> QED BY <2>1, <2>2
<1>2. \A i \in DOMAIN s : ToSet(ss[i]) = {s[i]} \cap T
  BY DEF ToSet
<1>3. ASSUME NEW K, Inj(K, s) PROVE Apart(K, ss)
  <2>1. ASSUME NEW i \in DOMAIN s PROVE Inj(K, ss[i])
    BY DEF Inj
  <2>2. ASSUME NEW i \in DOMAIN s, NEW j \in DOMAIN s, i # j,
               NEW a \in ToSet(ss[i]), NEW b \in ToSet(ss[j])
        PROVE  K[a] # K[b]
    <3>1. a = s[i] /\ b = s[j]
      BY <1>2
    <3> QED BY <1>3, <2>2, <3>1 DEF Inj
  <2> HIDE DEF ss
  <2> QED BY <1>1, <2>1, <2>2 DEF Apart
<1>4. Where(s, T) = FlattenSeq(ss)
  BY DEF Where
<1>5. ToSet(s) \cap T = UNION {ToSet(ss[i]) : i \in DOMAIN s}
  <2> HIDE DEF ss
  <2> QED BY <1>2 DEF ToSet
<1> HIDE DEF ss
<1> QED BY <1>1, <1>3, <1>4, <1>5, FlattenElements, FlattenInj

Neutral(m) == messages[m].kind = "storage_record"
Known(types) ==
  {e \in [message : 1..Len(messages), record : 0..MaxRecords, type : types] :
     e.type = "storage_record" => Neutral(e.message)}
AllTypes == StorageTypes \cup {"storage_snapshot", "inventory_snapshot", "observation"}
IdOf == [e \in [message : Nat, record : Nat, type : AllTypes] |-> <<e.message, e.record>>]

Fields == [flow : Flows, kind : Kinds, count : 1..MaxRecords, destination : Destinations,
           registered : Nat, generation : 0..MaxCloses, time : 0..MaxTime]
History ==
  /\ messages \in Seq(Fields) /\ Len(messages) \in Nat
  /\ \A n \in 1..Len(messages) : n \in Messages
StorageMessages == {m \in 1..Len(messages) : messages[m].kind \in StorageTypes}
Deposits == [message : StorageMessages, manual : BOOLEAN, candidate : BOOLEAN]
MessageOf == [p \in [message : Nat, manual : BOOLEAN, candidate : BOOLEAN] |-> p.message]

(* What the history says of a message.                                      *)
LEMMA MessageIs ==
  ASSUME History, NEW m \in 1..Len(messages)
  PROVE  /\ m \in Nat /\ m \in Messages /\ messages[m] \in Fields
         /\ messages[m].flow \in Flows /\ messages[m].kind \in Kinds
         /\ messages[m].count \in 1..MaxRecords /\ messages[m].destination \in Destinations
         /\ messages[m].registered \in Nat /\ messages[m].generation \in 0..MaxCloses
         /\ messages[m].time \in 0..MaxTime
         /\ MaxRecords \in Nat
<1>1. messages[m] \in Fields /\ m \in Nat
  <2> HIDE DEF Fields
  <2> QED BY DEF History
<1>2. MaxRecords \in Nat
  BY ConstantLimits
<1> QED BY <1>1, <1>2 DEF Fields, History

(* The record an event stands for.                                          *)
LEMMA IdOfEvent ==
  ASSUME History, NEW types \in SUBSET AllTypes, NEW e \in Known(types)
  PROVE  IdOf[e] = <<e.message, e.record>>
<1>1. MaxRecords \in Nat
  BY ConstantLimits
<1>2. e \in [message : Nat, record : Nat, type : AllTypes]
  BY <1>1 DEF Known, History
<1> QED BY <1>2 DEF IdOf

(* _emit_neutral_entries: one event per staged record of a wrapper.         *)
LEMMA EntriesAre ==
  ASSUME History, NEW m \in StorageMessages, NEW records
  PROVE  /\ Entries(m, records, WireType(m)) \in Seq(Known(StorageTypes))
         /\ ToSet(Entries(m, records, WireType(m))) =
              {Event(m, i, WireType(m)) : i \in records \cap (1..messages[m].count)}
         /\ Inj(IdOf, Entries(m, records, WireType(m)))
<1> DEFINE type == WireType(m)
           types == StorageTypes
<1>0. /\ m \in 1..Len(messages) /\ type \in types
      /\ type = "storage_record" => Neutral(m)
      /\ types \in SUBSET AllTypes
  BY DEF StorageMessages, WireType, Neutral, AllTypes
<1> HIDE DEF type, types
<1> DEFINE n == messages[m].count
           line == [i \in 1..n |-> i]
           order == InOrder(records, n)
           out == Entries(m, records, type)
<1>1. n \in Nat /\ n <= MaxRecords /\ MaxRecords \in Nat
  BY <1>0, MessageIs
<1> HIDE DEF n
<1> DEFINE N == 1..n
           same == [i \in N |-> i]
<1>2. line \in Seq(N) /\ ToSet(line) = N /\ Inj(same, line)
  BY <1>1 DEF ToSet, Inj
<1>3. \A i \in N : same[i] = i /\ i \in 1..n
  OBVIOUS
<1>4. order = Where(line, records)
  BY DEF InOrder
<1> HIDE DEF line, order, same, N
<1>5. order \in Seq(N) /\ ToSet(order) = N \cap records /\ Inj(same, order)
  BY <1>2, <1>4, WhereElements
<1>6. DOMAIN order = 1..Len(order) /\ Len(order) \in Nat
      /\ \A i \in DOMAIN order : order[i] \in N
  BY <1>5
<1>7. out = [i \in DOMAIN order |-> Event(m, order[i], type)]
  BY DEF Entries, order, n
<1> HIDE DEF out
<1>8. \A i \in DOMAIN order : out[i] = Event(m, order[i], type) /\ out[i] \in Known(types)
  BY <1>0, <1>1, <1>3, <1>6, <1>7 DEF Event, Known
<1>9. out \in Seq(Known(types)) /\ DOMAIN out = DOMAIN order
  <2> DEFINE S == Known(types)
  <2>1. \A i \in DOMAIN order : out[i] \in S
    BY <1>8
  <2> HIDE DEF S
  <2>2. out \in [1..Len(order) -> S]
    BY <1>6, <1>7, <2>1
  <2>3. out \in Seq(S)
    BY <1>6, <2>2
  <2> QED BY <1>7, <2>3 DEF S
<1>10. ToSet(out) = {Event(m, i, type) : i \in N \cap records}
  <2>1. ToSet(out) = {Event(m, order[i], type) : i \in DOMAIN order}
    BY <1>8, <1>9 DEF ToSet
  <2>2. ToSet(order) = {order[i] : i \in DOMAIN order}
    BY DEF ToSet
  <2> QED BY <1>5, <2>1, <2>2
<1>11. ASSUME NEW i \in DOMAIN order, NEW j \in DOMAIN order,
              IdOf[out[i]] = IdOf[out[j]]
       PROVE  i = j
  <2>1. /\ IdOf[out[i]] = <<out[i].message, out[i].record>>
        /\ IdOf[out[j]] = <<out[j].message, out[j].record>>
    BY <1>0, <1>8, IdOfEvent
  <2>2. out[i].record = order[i] /\ out[j].record = order[j]
    <3>1. out[i] = Event(m, order[i], type) /\ out[j] = Event(m, order[j], type)
      BY <1>8, Zenon
    <3> QED BY <3>1 DEF Event
  <2>3. out[i].record = out[j].record
    <3>1. <<out[i].message, out[i].record>> = <<out[j].message, out[j].record>>
      BY <1>11, <2>1, Zenon
    <3> QED BY <3>1
  <2>4. same[order[i]] = same[order[j]]
    BY <2>2, <2>3
  <2> QED BY <1>5, <2>4 DEF Inj
<1>12. Inj(IdOf, out)
  BY <1>9, <1>11 DEF Inj
<1> QED BY <1>9, <1>10, <1>12 DEF out, n, N, type, types

Verdict(p, worker) ==
  IF p.message \in worker \/ p.manual THEN "storage_delta" ELSE WireType(p.message)

(* _finalize: one event per record of a deposit, all with its verdict.      *)
LEMMA FinalizedIs ==
  ASSUME History, NEW p \in Deposits, NEW worker
  PROVE  /\ Finalized(p, worker) \in Seq(Known(StorageTypes))
         /\ ToSet(Finalized(p, worker)) =
              {Event(p.message, i, Verdict(p, worker)) : i \in 1..messages[p.message].count}
         /\ Inj(IdOf, Finalized(p, worker))
<1> DEFINE n == messages[p.message].count
           out == Finalized(p, worker)
           v == Verdict(p, worker)
           S == Known(StorageTypes)
<1>1. p.message \in 1..Len(messages) /\ messages[p.message].kind \in StorageTypes
  BY DEF Deposits, StorageMessages
<1>2. n \in Nat /\ n <= MaxRecords /\ MaxRecords \in Nat
  BY <1>1, MessageIs
<1>3. v \in StorageTypes
  BY <1>1 DEF Verdict, WireType, StorageTypes
<1>10. v = "storage_record" => Neutral(p.message)
  BY DEF Verdict, WireType, Neutral
<1>4. out = [i \in 1..n |-> Event(p.message, i, v)]
  BY DEF Finalized, Verdict
<1> HIDE DEF n, out, v
<1>5. \A i \in 1..n : /\ out[i] = Event(p.message, i, v) /\ out[i] \in S
                      /\ out[i].message = p.message /\ out[i].record = i
  BY <1>1, <1>2, <1>3, <1>4, <1>10 DEF Event, Known
<1>6. DOMAIN out = 1..n
  BY <1>4
<1> HIDE DEF S
<1>7. out \in Seq(S)
  <2>1. out \in [1..n -> S]
    BY <1>4, <1>5
  <2> QED BY <1>2, <2>1
<1>8. ToSet(out) = {Event(p.message, i, v) : i \in 1..n}
  BY <1>5, <1>6 DEF ToSet
<1>9. Inj(IdOf, out)
  <2> SUFFICES ASSUME NEW i \in 1..n, NEW j \in 1..n, IdOf[out[i]] = IdOf[out[j]]
               PROVE  i = j
    BY <1>6 DEF Inj
  <2>1. StorageTypes \in SUBSET AllTypes
    BY DEF AllTypes
  <2>2. /\ IdOf[out[i]] = <<out[i].message, out[i].record>>
        /\ IdOf[out[j]] = <<out[j].message, out[j].record>>
    BY <1>5, <2>1, IdOfEvent DEF S
  <2>3. <<out[i].message, out[i].record>> = <<out[j].message, out[j].record>>
    BY <2>2, Zenon
  <2> QED BY <1>5, <2>3
<1> QED BY <1>7, <1>8, <1>9 DEF out, n, v, S

(* Sequences of events of different messages do not meet.                  *)
LEMMA ApartMessages ==
  ASSUME History, NEW types \in SUBSET AllTypes, NEW ss \in Seq(Seq(Known(types))),
         \A i \in DOMAIN ss : Inj(IdOf, ss[i]),
         \A i, j \in DOMAIN ss : i # j =>
            \A a \in ToSet(ss[i]), b \in ToSet(ss[j]) : a.message # b.message
  PROVE  Apart(IdOf, ss)
<1> DEFINE S == Known(types)
<1>1. ASSUME NEW i \in DOMAIN ss, NEW a \in ToSet(ss[i])
      PROVE  IdOf[a] = <<a.message, a.record>>
  <2>1. ss \in Seq(Seq(S))
    OBVIOUS
  <2> HIDE DEF S
  <2>2. ss[i] \in Seq(S)
    BY <2>1
  <2>3. a \in S
    BY <2>2 DEF ToSet
  <2> QED BY <2>3, IdOfEvent DEF S
<1> SUFFICES ASSUME NEW i \in DOMAIN ss, NEW j \in DOMAIN ss, i # j,
                    NEW a \in ToSet(ss[i]), NEW b \in ToSet(ss[j])
             PROVE  IdOf[a] # IdOf[b]
  BY DEF Apart
<1>2. a.message # b.message
  OBVIOUS
<1>3. IdOf[a] = <<a.message, a.record>> /\ IdOf[b] = <<b.message, b.record>>
  BY <1>1
<1> QED BY <1>2, <1>3

(* What stays pending.                                                      *)
LEMMA KeepIs ==
  ASSUME NEW S, NEW deposits \in Seq(S), NEW gone
  PROVE  /\ Keep(deposits, gone) \in Seq(S)
         /\ ToSet(Keep(deposits, gone)) = {p \in ToSet(deposits) : p.message \notin gone}
         /\ Inj(MessageOf, deposits) => Inj(MessageOf, Keep(deposits, gone))
  BY WhereElements DEF Keep

SettledOf(deposits, gone) == {p \in ToSet(deposits) : p.message \in gone}

(* What is finalized: every record of every settled deposit, once.          *)
LEMMA SettledIs ==
  ASSUME History, NEW deposits \in Seq(Deposits), Inj(MessageOf, deposits), NEW gone,
         NEW worker
  PROVE  LET out == Settled(deposits, gone, worker) IN
         /\ out \in Seq(Known(StorageTypes))
         /\ ToSet(out) = UNION {{Event(p.message, i, Verdict(p, worker)) :
                                   i \in 1..messages[p.message].count} :
                                p \in SettledOf(deposits, gone)}
         /\ Inj(IdOf, out)
<1> DEFINE settled == Where(deposits, SettledOf(deposits, gone))
           ss == [i \in 1..Len(settled) |-> Finalized(settled[i], worker)]
           out == Settled(deposits, gone, worker)
           D == Deposits
           S == Known(StorageTypes)
<1>1. out = FlattenSeq(ss)
  BY DEF Settled, SettledOf
<1>2. deposits \in Seq(D)
  OBVIOUS
<1> HIDE DEF D
<1>3. /\ settled \in Seq(D) /\ ToSet(settled) = SettledOf(deposits, gone)
      /\ Inj(MessageOf, settled)
  BY <1>2, WhereElements DEF SettledOf
<1> HIDE DEF settled
<1>4. /\ Len(settled) \in Nat /\ DOMAIN settled = 1..Len(settled)
      /\ \A i \in 1..Len(settled) : settled[i] \in D
  BY <1>3
<1>5. ASSUME NEW i \in 1..Len(settled)
      PROVE  /\ ss[i] \in Seq(S) /\ Inj(IdOf, ss[i])
             /\ ToSet(ss[i]) = {Event(settled[i].message, j, Verdict(settled[i], worker)) :
                                  j \in 1..messages[settled[i].message].count}
  BY <1>4, FinalizedIs DEF D
<1>6. ss \in Seq(Seq(S)) /\ DOMAIN ss = 1..Len(settled)
  <2> HIDE DEF S
  <2>1. ss \in [1..Len(settled) -> Seq(S)]
    BY <1>5
  <2> QED BY <1>4, <2>1
<1>7. Apart(IdOf, ss)
  <2>1. ASSUME NEW i \in 1..Len(settled), NEW j \in 1..Len(settled), i # j,
               NEW a \in ToSet(ss[i]), NEW b \in ToSet(ss[j])
        PROVE  a.message # b.message
    <3>1. a.message = settled[i].message /\ b.message = settled[j].message
      BY <1>5 DEF Event
    <3>2. MessageOf[settled[i]] # MessageOf[settled[j]]
      BY <1>3, <1>4, <2>1 DEF Inj
    <3>3. /\ settled[i] \in [message : Nat, manual : BOOLEAN, candidate : BOOLEAN]
          /\ settled[j] \in [message : Nat, manual : BOOLEAN, candidate : BOOLEAN]
      BY <1>4 DEF D, Deposits, StorageMessages
    <3>4. MessageOf[settled[i]] = settled[i].message
          /\ MessageOf[settled[j]] = settled[j].message
      BY <3>3 DEF MessageOf
    <3> QED BY <3>1, <3>2, <3>4
  <2>2. StorageTypes \in SUBSET AllTypes
    BY DEF AllTypes
  <2> HIDE DEF ss
  <2> QED BY <1>5, <1>6, <2>1, <2>2, ApartMessages DEF S
<1> DEFINE Piece(p) == {Event(p.message, j, Verdict(p, worker)) :
                          j \in 1..messages[p.message].count}
<1>8. \A i \in 1..Len(settled) : ToSet(ss[i]) = Piece(settled[i])
  BY <1>5
<1> HIDE DEF S, ss, Piece
<1>9. out \in Seq(S) /\ ToSet(out) = UNION {ToSet(ss[i]) : i \in DOMAIN ss}
  BY <1>1, <1>6, FlattenElements
<1>10. Inj(IdOf, out)
  BY <1>1, <1>6, <1>7, FlattenInj
<1>11. SettledOf(deposits, gone) = {settled[i] : i \in 1..Len(settled)}
  BY <1>3, <1>4 DEF ToSet
<1>12. ToSet(out) = UNION {Piece(p) : p \in SettledOf(deposits, gone)}
  BY <1>6, <1>8, <1>9, <1>11
<1> QED BY <1>9, <1>10, <1>12 DEF S, Piece

(* A sequence over a set is one over a larger set.                          *)
LEMMA SeqWidens ==
  ASSUME NEW A, NEW B, A \subseteq B, NEW s \in Seq(A)
  PROVE  s \in Seq(B)
<1>1. Len(s) \in Nat /\ s \in [1..Len(s) -> A]
  OBVIOUS
<1>2. s \in [1..Len(s) -> B]
  BY <1>1
<1> QED BY <1>1, <1>2

StagedBatches(batches) == {m \in batches \cap (1..Len(messages)) : staged[m] # {}}

(* Incomplete batches are emitted as they were, each record once.           *)
LEMMA UnstagedIs ==
  ASSUME History, NEW batches,
         \A m \in 1..Len(messages) : staged[m] # {} =>
            m \in StorageMessages /\ staged[m] \subseteq 1..messages[m].count
  PROVE  /\ Unstaged(batches) \in Seq(Known(StorageTypes))
         /\ ToSet(Unstaged(batches)) =
              UNION {{Event(m, i, WireType(m)) : i \in staged[m]} : m \in StagedBatches(batches)}
         /\ Inj(IdOf, Unstaged(batches))
<1> DEFINE T == {m \in batches : staged[m] # {}}
           line == [i \in 1..Len(messages) |-> i]
           M == 1..Len(messages)
           same == [m \in M |-> m]
           order == InOrder(T, Len(messages))
           ss == [i \in 1..Len(order) |->
                    Entries(order[i], staged[order[i]], WireType(order[i]))]
           out == Unstaged(batches)
           S == Known(StorageTypes)
           Piece(m) == {Event(m, i, WireType(m)) : i \in staged[m]}
<1>1. out = FlattenSeq(ss)
  BY DEF Unstaged
<1>2. line \in Seq(M) /\ ToSet(line) = M /\ Inj(same, line)
  BY DEF ToSet, Inj, History
<1>3. order = Where(line, T)
  BY DEF InOrder
<1>4. \A m \in M : same[m] = m
  OBVIOUS
<1> HIDE DEF line, M, order, same
<1>5. order \in Seq(M) /\ ToSet(order) = M \cap T /\ Inj(same, order)
  BY <1>2, <1>3, WhereElements
<1>6. /\ DOMAIN order = 1..Len(order) /\ Len(order) \in Nat
      /\ \A i \in 1..Len(order) : order[i] \in M /\ order[i] \in T
  BY <1>5 DEF ToSet
<1>7. ASSUME NEW i \in 1..Len(order)
      PROVE  /\ ss[i] \in Seq(S) /\ Inj(IdOf, ss[i])
             /\ ToSet(ss[i]) = Piece(order[i])
             /\ \A a \in ToSet(ss[i]) : a.message = order[i]
  <2> DEFINE m == order[i]
             piece == Entries(m, staged[m], WireType(m))
  <2>1. m \in 1..Len(messages) /\ m \in StorageMessages
        /\ staged[m] \subseteq 1..messages[m].count
    BY <1>6 DEF M
  <2> HIDE DEF m
  <2>3. /\ piece \in Seq(S) /\ Inj(IdOf, piece)
        /\ ToSet(piece) = {Event(m, j, WireType(m)) : j \in staged[m] \cap (1..messages[m].count)}
    BY <2>1, EntriesAre
  <2>4. staged[m] \cap (1..messages[m].count) = staged[m]
    BY <2>1
  <2>6. ss[i] = piece
    BY DEF m
  <2> HIDE DEF piece, ss, S
  <2>8. ToSet(piece) = {Event(m, j, WireType(m)) : j \in staged[m]}
    BY <2>3, <2>4
  <2>9. \A a \in ToSet(piece) : a.message = m
    BY <2>8 DEF Event
  <2> QED BY <2>3, <2>6, <2>8, <2>9 DEF m
<1>8. ss \in Seq(Seq(S)) /\ DOMAIN ss = 1..Len(order)
  <2> HIDE DEF S
  <2>1. ss \in [1..Len(order) -> Seq(S)]
    BY <1>7
  <2> QED BY <1>6, <2>1
<1> HIDE DEF ss, Piece
<1>9. Apart(IdOf, ss)
  <2>1. ASSUME NEW i \in 1..Len(order), NEW j \in 1..Len(order), i # j,
               NEW a \in ToSet(ss[i]), NEW b \in ToSet(ss[j])
        PROVE  a.message # b.message
    <3>1. a.message = order[i] /\ b.message = order[j]
      BY <1>7
    <3>2. same[order[i]] # same[order[j]]
      BY <1>5, <1>6, <2>1 DEF Inj
    <3> QED BY <1>4, <1>6, <3>1, <3>2
  <2>2. StorageTypes \in SUBSET AllTypes
    BY DEF AllTypes
  <2> QED BY <1>7, <1>8, <2>1, <2>2, ApartMessages DEF S
<1> HIDE DEF S
<1>10. out \in Seq(S) /\ ToSet(out) = UNION {ToSet(ss[i]) : i \in DOMAIN ss}
  BY <1>1, <1>8, FlattenElements
<1>11. Inj(IdOf, out)
  BY <1>1, <1>8, <1>9, FlattenInj
<1>12. StagedBatches(batches) = {order[i] : i \in 1..Len(order)}
  BY <1>5, <1>6 DEF ToSet, StagedBatches, M
<1>13. ToSet(out) = UNION {Piece(m) : m \in StagedBatches(batches)}
  BY <1>7, <1>8, <1>10, <1>12
<1> QED BY <1>10, <1>11, <1>13 DEF S, Piece

(* SetToSeq orders a finite set.                                            *)
LEMMA SetToSeqIs ==
  ASSUME NEW S, IsFiniteSet(S)
  PROVE  /\ SetToSeq(S) \in Seq(S) /\ ToSet(SetToSeq(S)) = S
         /\ IsInjective(SetToSeq(S))
<1> DEFINE n == Cardinality(S)
           I == 1..n
<1>1. n \in Nat /\ ExistsBijection(I, S)
  BY FS_CardinalityType
<1>2. IsFiniteSet(I) /\ Cardinality(I) = n
  BY <1>1, FS_Interval
<1>3. PICK g : g \in Bijection(I, S)
  BY <1>1 DEF ExistsBijection
<1>4. g \in [I -> S] /\ IsInjective(g)
  BY <1>3 DEF Bijection, Injection
<1> DEFINE f == SetToSeq(S)
<1>5. f = CHOOSE h \in [I -> S] : IsInjective(h)
  BY DEF SetToSeq
<1> HIDE DEF f, I
<1>6. f \in [I -> S] /\ IsInjective(f)
  BY <1>4, <1>5
<1>7. f \in Injection(I, S)
  BY <1>6 DEF Injection
<1>8. f \in Surjection(I, S)
  <2> HIDE DEF n
  <2>1. Cardinality(I) = Cardinality(S)
    BY <1>2 DEF n
  <2> QED BY <1>7, <2>1, FS_Injection
<1>9. f \in Seq(S) /\ DOMAIN f = I
  BY <1>1, <1>6 DEF I
<1>10. ToSet(f) = S
  BY <1>6, <1>8, <1>9 DEF ToSet, Surjection
<1> QED BY <1>6, <1>9, <1>10 DEF f

BurstEvents(k) == IF bursts[k] = None THEN <<>> ELSE bursts[k].events

(* What a set of bursts releases: every record once.                        *)
LEMMA UnconfirmedIs ==
  ASSUME History, NEW keys, IsFiniteSet(keys), NEW types \in SUBSET AllTypes,
         \A k \in keys : BurstEvents(k) \in Seq(Known(types)),
         \A k \in keys : \A e \in ToSet(BurstEvents(k)) : Key(e) = k
  PROVE  /\ Unconfirmed(keys) \in Seq(Known(types))
         /\ ToSet(Unconfirmed(keys)) = UNION {ToSet(BurstEvents(k)) : k \in keys}
         /\ (\A k \in keys : Inj(IdOf, BurstEvents(k))) => Inj(IdOf, Unconfirmed(keys))
<1> DEFINE K == {k \in keys : bursts[k] # None}
           order == SetToSeq(K)
           ss == [i \in DOMAIN order |-> bursts[order[i]].events]
           out == Unconfirmed(keys)
           S == Known(types)
<1>1. out = FlattenSeq(ss)
  BY DEF Unconfirmed
<1>2. IsFiniteSet(K)
  BY FS_Subset
<1> HIDE DEF K
<1>3. order \in Seq(K) /\ ToSet(order) = K /\ IsInjective(order)
  BY <1>2, SetToSeqIs
<1> HIDE DEF order
<1>4. /\ DOMAIN order = 1..Len(order) /\ Len(order) \in Nat
      /\ \A i \in DOMAIN order : order[i] \in K
  BY <1>3
<1>5. ASSUME NEW i \in DOMAIN order
      PROVE  /\ ss[i] = BurstEvents(order[i]) /\ ss[i] \in Seq(S) /\ order[i] \in keys
             /\ \A e \in ToSet(ss[i]) : Key(e) = order[i]
  <2>1. order[i] \in keys /\ bursts[order[i]] # None
    BY <1>4 DEF K
  <2>2. ss[i] = BurstEvents(order[i])
    BY <2>1 DEF BurstEvents
  <2> HIDE DEF ss, S
  <2> QED BY <2>1, <2>2 DEF S
<1>6. ss \in Seq(Seq(S)) /\ DOMAIN ss = DOMAIN order
  <2> HIDE DEF S
  <2>1. ss \in [1..Len(order) -> Seq(S)]
    BY <1>4, <1>5
  <2> QED BY <1>4, <2>1
<1> HIDE DEF ss
<1>7. ASSUME \A k \in keys : Inj(IdOf, BurstEvents(k)) PROVE Apart(IdOf, ss)
  <2>1. ASSUME NEW i \in DOMAIN ss, NEW j \in DOMAIN ss, i # j,
               NEW a \in ToSet(ss[i]), NEW b \in ToSet(ss[j])
        PROVE  a.message # b.message
    <3>1. Key(a) = order[i] /\ Key(b) = order[j]
      BY <1>5, <1>6
    <3>2. order[i] # order[j]
      BY <1>3, <1>6, <2>1 DEF IsInjective
    <3> QED BY <3>1, <3>2 DEF Key
  <2>2. \A i \in DOMAIN ss : Inj(IdOf, ss[i])
    BY <1>5, <1>6, <1>7
  <2> QED BY <1>6, <2>1, <2>2, ApartMessages DEF S
<1> HIDE DEF S
<1>8. out \in Seq(S) /\ ToSet(out) = UNION {ToSet(ss[i]) : i \in DOMAIN ss}
  BY <1>1, <1>6, FlattenElements
<1>9. (\A k \in keys : Inj(IdOf, BurstEvents(k))) => Inj(IdOf, out)
  BY <1>1, <1>6, <1>7, FlattenInj
<1>10. \A k \in keys : bursts[k] = None => ToSet(BurstEvents(k)) = {}
  BY DEF BurstEvents, ToSet
<1>11. K = {order[i] : i \in DOMAIN order}
  BY <1>3, <1>4 DEF ToSet
<1>12. UNION {ToSet(ss[i]) : i \in DOMAIN ss} = UNION {ToSet(BurstEvents(k)) : k \in K}
  BY <1>5, <1>6, <1>11
<1>13. UNION {ToSet(BurstEvents(k)) : k \in K} = UNION {ToSet(BurstEvents(k)) : k \in keys}
  BY <1>10 DEF K
<1> QED BY <1>8, <1>9, <1>12, <1>13 DEF S

OriginTypes == StorageTypes \cup {"observation"}
HydrationTypes == StorageTypes \cup {"storage_snapshot", "inventory_snapshot"}

Registered(m) == messages[m].registered
DecoderShape ==
  /\ History
  /\ clock \in 0..MaxTime /\ generation \in [Flows -> 0..MaxCloses] /\ todo \in Nat
  /\ \A m \in 1..Len(messages) : Registered(m) <= messages[m].count
  /\ todo > 0 => /\ Len(messages) > 0
                 /\ Registered(Len(messages)) + todo = messages[Len(messages)].count
StagedShape ==
  /\ staged \in [Messages -> SUBSET (1..MaxRecords)]
  /\ \A m \in Messages : staged[m] # {} =>
       m \in StorageMessages /\ staged[m] \subseteq 1..Registered(m)
PendingShape ==
  /\ pending \in Seq(Deposits) /\ Inj(MessageOf, pending)
  /\ \A p \in ToSet(pending) : Registered(p.message) = messages[p.message].count
OriginShape ==
  /\ originOutbox \in Seq(Known(OriginTypes))
  /\ originHand \in [Threads -> Seq(Known(OriginTypes))]
  /\ \A t \in Threads : Len(originHand[t]) <= 1
BurstShape(b, k) ==
  /\ b \in Cohorts /\ b.events \in Seq(Known({"storage_record"}))
  /\ \A e \in ToSet(b.events) : Key(e) = k
BurstsShape ==
  /\ DOMAIN bursts = Keys /\ bursts = [k \in Keys |-> bursts[k]]
  /\ \A k \in Keys : bursts[k] # None => BurstShape(bursts[k], k)
AnchorShape ==
  /\ anchor \in [Keys -> (0..MaxTime) \cup {None}]
  /\ inventoryLast \in [Keys -> (0..MaxTime) \cup {None}]
HydrationShape ==
  /\ hydrationOutbox \in Seq(Known(HydrationTypes))
  /\ hydrationHand \in [Threads -> Seq(Known(HydrationTypes))]
  /\ \A t \in Threads :
       Len(hydrationHand[t]) = IF pc[t] = "hydrationCall" THEN 1 ELSE 0
  /\ delivered \subseteq Known(HydrationTypes)
Shapes ==
  /\ DecoderShape /\ StagedShape /\ PendingShape /\ OriginShape /\ BurstsShape
  /\ AnchorShape /\ HydrationShape

(* What is delivered, and how many times.                                  *)
Parted(A, P) ==
  /\ UNION {P[i] : i \in 1..8} = A
  /\ \A i, j \in 1..8 : i # j => P[i] \cap P[j] = {}
ObservedOnce ==
  \A e \in ToSet(originOutbox) : e.type = "observation" =>
     /\ e.record = 0 /\ Registered(e.message) = messages[e.message].count
     /\ \A p \in ToSet(pending) : p.message = e.message => p.candidate
Traced ==
  /\ Parted(Accepted, Places)
  /\ Inj(IdOf, originOutbox) /\ ObservedOnce
  /\ \A k \in Keys : Inj(IdOf, BurstEvents(k))
  /\ Inj(IdOf, hydrationOutbox)
  /\ \A a, b \in delivered : IdOf[a] = IdOf[b] => a = b

KeyOf(m) == <<messages[m].flow, messages[m].generation>>
Window(k, lo, hi) ==
  {m \in 1..Len(messages) : Neutral(m) /\ Registered(m) > 0 /\ KeyOf(m) = k
                            /\ messages[m].time \in lo..hi}
InventoryAt(k, lo, hi) ==
  \E m \in 1..Len(messages) : /\ messages[m].kind = "inventory_snapshot" /\ KeyOf(m) = k
                              /\ messages[m].time \in lo..hi
DestinationsOf(window) == {messages[m].destination : m \in window} \ {None}
BurstProven(b, k) ==
  /\ b.first <= b.last /\ b.last - b.first <= BurstLength
  /\ \A e \in ToSet(b.events) : Time(e) \in b.first..b.last
  /\ b.anchored => \A e \in ToSet(b.events) : InventoryAt(k, Time(e) - Epoch, Time(e))
  /\ b.destinations \subseteq DestinationsOf(Window(k, b.first, b.last))
  /\ b.recordCount > 0 =>
       \E m \in Window(k, b.first, b.last) : messages[m].count >= b.recordCount
  /\ b.confirmed => Enough(b)
SnapshotProven(e) ==
  \/ /\ Spans(Cohort(e), MinAnchored)
     /\ InventoryAt(Key(e), Time(e) - Epoch, Time(e))
  \/ /\ Spans(Cohort(e), MinUnanchored)
     /\ \E m \in Cohort(e) : messages[m].count >= MinRecordCount
Proven ==
  /\ \A k \in Keys : bursts[k] # None => BurstProven(bursts[k], k)
  /\ \A k \in Keys : anchor[k] # None => InventoryAt(k, anchor[k], anchor[k])
  /\ \A e \in Leaving \cup HandsOf(hydrationHand, Threads) :
       e.type = "storage_snapshot" => SnapshotProven(e)

Whole == IInv /\ Shapes /\ Traced

(* No message is taken back: only its registered records grow in number.   *)
MoreHistory ==
  /\ Len(messages) \in Nat /\ Len(messages)' \in Nat /\ Len(messages) <= Len(messages)'
  /\ \A m \in 1..Len(messages) :
       /\ messages'[m].flow = messages[m].flow
       /\ messages'[m].kind = messages[m].kind
       /\ messages'[m].count = messages[m].count
       /\ messages'[m].time = messages[m].time
       /\ messages'[m].destination = messages[m].destination
       /\ messages'[m].generation = messages[m].generation
       /\ Registered(m) \in Nat /\ messages'[m].registered \in Nat
       /\ Registered(m) <= messages'[m].registered
       /\ messages'[m].registered <= messages[m].count

(* A step that decodes nothing keeps the history.                           *)
LEMMA SameHistory ==
  ASSUME DecoderShape, UNCHANGED messages
  PROVE  MoreHistory /\ History'
<1>1. History
  BY DEF DecoderShape
<1>2. \A m \in 1..Len(messages) : Registered(m) \in Nat
  BY <1>1, MessageIs DEF Registered
<1> QED BY <1>1, <1>2 DEF MoreHistory, History, DecoderShape, Registered

(* What is known stays known.                                               *)
LEMMA HistoryWidens ==
  ASSUME MoreHistory
  PROVE  /\ \A types : Known(types) \subseteq Known(types)'
         /\ StorageMessages \subseteq StorageMessages' /\ Deposits \subseteq Deposits'
         /\ \A types : \A e \in Known(types) : Key(e)' = Key(e) /\ Time(e)' = Time(e)
<1>1. \A m \in 1..Len(messages) : m \in 1..Len(messages)'
  BY DEF MoreHistory
<1>2. \A types : Known(types) \subseteq Known(types)'
  BY <1>1 DEF Known, Neutral, MoreHistory
<1>3. StorageMessages \subseteq StorageMessages'
  BY <1>1 DEF StorageMessages, MoreHistory
<1>4. Deposits \subseteq Deposits'
  BY <1>3 DEF Deposits
<1>5. \A types : \A e \in Known(types) : Key(e)' = Key(e) /\ Time(e)' = Time(e)
  BY DEF Known, Key, Time, MoreHistory
<1> QED BY <1>2, <1>3, <1>4, <1>5

(* What a step leaves alone keeps its shape.                               *)
LEMMA ShapesStay ==
  ASSUME Shapes, MoreHistory
  PROVE  /\ UNCHANGED staged => StagedShape'
         /\ UNCHANGED pending => PendingShape'
         /\ UNCHANGED <<originOutbox, originHand>> => OriginShape'
         /\ UNCHANGED bursts => BurstsShape'
         /\ UNCHANGED <<anchor, inventoryLast>> => AnchorShape'
         /\ UNCHANGED <<hydrationOutbox, hydrationHand, delivered>>
              /\ (\A t \in Threads : pc'[t] = "hydrationCall" <=> pc[t] = "hydrationCall")
              => HydrationShape'
<1>1. UNCHANGED staged => StagedShape'
  <2> SUFFICES ASSUME UNCHANGED staged PROVE StagedShape'
    OBVIOUS
  <2>1. ASSUME NEW m \in Messages, staged[m] # {}
        PROVE  m \in StorageMessages' /\ staged[m] \subseteq 1..messages'[m].registered
    <3>1. m \in StorageMessages /\ staged[m] \subseteq 1..Registered(m)
      BY <2>1 DEF Shapes, StagedShape
    <3>2. Registered(m) <= messages'[m].registered
          /\ Registered(m) \in Nat /\ messages'[m].registered \in Nat
      BY <3>1 DEF MoreHistory, StorageMessages
    <3> QED BY <3>1, <3>2, HistoryWidens
  <2> QED BY <2>1 DEF StagedShape, Shapes, Registered
<1>2. UNCHANGED pending => PendingShape'
  <2> SUFFICES ASSUME UNCHANGED pending PROVE PendingShape'
    OBVIOUS
  <2>1. pending \in Seq(Deposits) /\ Inj(MessageOf, pending)
    BY DEF Shapes, PendingShape
  <2>2. pending \in Seq(Deposits')
    BY <2>1, HistoryWidens, SeqWidens
  <2>3. ASSUME NEW p \in ToSet(pending)
        PROVE  messages'[p.message].registered = messages'[p.message].count
    <3>1. p \in Deposits
      BY <2>1 DEF ToSet
    <3>2. p.message \in 1..Len(messages)
      BY <3>1 DEF Deposits, StorageMessages
    <3>3. Registered(p.message) = messages[p.message].count
      BY DEF Shapes, PendingShape
    <3> QED BY <3>2, <3>3 DEF MoreHistory, Registered
  <2> QED BY <2>1, <2>2, <2>3 DEF PendingShape, Registered, MessageOf, Inj
<1>3. UNCHANGED <<originOutbox, originHand>> => OriginShape'
  <2> SUFFICES ASSUME UNCHANGED <<originOutbox, originHand>> PROVE OriginShape'
    OBVIOUS
  <2>0. OriginShape
    BY DEF Shapes
  <2>1. originOutbox \in Seq(Known(OriginTypes)')
    BY <2>0, HistoryWidens, SeqWidens DEF OriginShape
  <2>2. \A t \in Threads : originHand[t] \in Seq(Known(OriginTypes)')
    BY <2>0, HistoryWidens, SeqWidens DEF OriginShape
  <2> QED BY <2>0, <2>1, <2>2 DEF OriginShape
<1>4. UNCHANGED bursts => BurstsShape'
  <2> SUFFICES ASSUME UNCHANGED bursts PROVE BurstsShape'
    OBVIOUS
  <2>0. BurstsShape
    BY DEF Shapes
  <2>1. ASSUME NEW k \in Keys, bursts[k] # None
        PROVE  BurstShape(bursts[k], k)'
    <3>0. BurstShape(bursts[k], k)
      BY <2>0, <2>1 DEF BurstsShape
    <3>1. bursts[k].events \in Seq(Known({"storage_record"})')
      BY <3>0, HistoryWidens, SeqWidens DEF BurstShape
    <3>2. \A e \in ToSet(bursts[k].events) : e \in Known({"storage_record"}) /\ Key(e) = k
      BY <3>0 DEF BurstShape, ToSet
    <3>3. \A e \in ToSet(bursts[k].events) : Key(e)' = k
      BY <3>2, HistoryWidens
    <3> QED BY <3>0, <3>1, <3>3 DEF BurstShape
  <2> QED BY <2>0, <2>1 DEF BurstsShape
<1>5. UNCHANGED <<anchor, inventoryLast>> => AnchorShape'
  BY DEF Shapes, AnchorShape
<1>6. UNCHANGED <<hydrationOutbox, hydrationHand, delivered>>
        /\ (\A t \in Threads : pc'[t] = "hydrationCall" <=> pc[t] = "hydrationCall")
        => HydrationShape'
  <2> SUFFICES ASSUME UNCHANGED <<hydrationOutbox, hydrationHand, delivered>>,
                      \A t \in Threads : pc'[t] = "hydrationCall" <=> pc[t] = "hydrationCall"
               PROVE  HydrationShape'
    OBVIOUS
  <2>0. HydrationShape
    BY DEF Shapes
  <2>1. hydrationOutbox \in Seq(Known(HydrationTypes)')
    BY <2>0, HistoryWidens, SeqWidens DEF HydrationShape
  <2>2. \A t \in Threads : hydrationHand[t] \in Seq(Known(HydrationTypes)')
    BY <2>0, HistoryWidens, SeqWidens DEF HydrationShape
  <2>3. delivered \subseteq Known(HydrationTypes)'
    BY <2>0, HistoryWidens DEF HydrationShape
  <2> QED BY <2>0, <2>1, <2>2, <2>3 DEF HydrationShape
<1> QED BY <1>1, <1>2, <1>3, <1>4, <1>5, <1>6

(* An outbox only grows at its end while events are queued.                *)
Grows(outbox, then) == then = outbox \/ IsStrictPrefix(outbox, then)
OriginGrows == Grows(originOutbox, originOutbox')
HydrationGrows == Grows(hydrationOutbox, hydrationOutbox')

(* Queueing only grows an outbox.                                           *)
LEMMA QueuedGrows ==
  ASSUME NEW S, NEW s \in Seq(S), NEW out \in Seq(S)
  PROVE  Grows(s, s \o out)
<1>1. Len(s) <= Len(s \o out) /\ SubSeq(s, 1, Len(s)) = s /\ SubSeq(s \o out, 1, Len(s)) = s
  OBVIOUS
<1> QED BY <1>1 DEF Grows, IsStrictPrefix, IsPrefix

(* Queueing on the outbox of the origin tracker keeps its shape,            *)
LEMMA OriginQueued ==
  ASSUME Shapes, MoreHistory, NEW out \in Seq(Known(OriginTypes)'),
         originOutbox' = originOutbox \o out, UNCHANGED originHand
  PROVE  OriginShape' /\ OriginGrows
<1>0. OriginShape
  BY DEF Shapes
<1>1. originOutbox \in Seq(Known(OriginTypes)')
  BY <1>0, HistoryWidens, SeqWidens DEF OriginShape
<1>2. \A t \in Threads : originHand[t] \in Seq(Known(OriginTypes)')
  BY <1>0, HistoryWidens, SeqWidens DEF OriginShape
<1>3. originOutbox' \in Seq(Known(OriginTypes)')
  BY <1>1, AppendedElements
<1>4. OriginGrows
  BY <1>1, QueuedGrows DEF OriginGrows
<1> QED BY <1>0, <1>2, <1>3, <1>4 DEF OriginShape

(* ... and so does queueing on that of the hydration tracker.               *)
LEMMA HydrationQueued ==
  ASSUME Shapes, MoreHistory, NEW out \in Seq(Known(HydrationTypes)'),
         hydrationOutbox' = hydrationOutbox \o out, UNCHANGED <<hydrationHand, delivered>>,
         \A t \in Threads : pc'[t] = "hydrationCall" <=> pc[t] = "hydrationCall"
  PROVE  HydrationShape' /\ HydrationGrows
<1>0. HydrationShape
  BY DEF Shapes
<1>1. hydrationOutbox \in Seq(Known(HydrationTypes)')
  BY <1>0, HistoryWidens, SeqWidens DEF HydrationShape
<1>2. \A t \in Threads : hydrationHand[t] \in Seq(Known(HydrationTypes)')
  BY <1>0, HistoryWidens, SeqWidens DEF HydrationShape
<1>3. delivered \subseteq Known(HydrationTypes)'
  BY <1>0, HistoryWidens DEF HydrationShape
<1>4. hydrationOutbox' \in Seq(Known(HydrationTypes)')
  BY <1>1, AppendedElements
<1>5. HydrationGrows
  BY <1>1, QueuedGrows DEF HydrationGrows
<1> QED BY <1>0, <1>2, <1>3, <1>4, <1>5 DEF HydrationShape

(* Storage events are events of the origin tracker.                         *)
LEMMA StorageIsOrigin ==
  /\ Known(StorageTypes) \subseteq Known(OriginTypes)
  /\ Seq(Known(StorageTypes)) \subseteq Seq(Known(OriginTypes))
<1>1. Known(StorageTypes) \subseteq Known(OriginTypes)
  BY DEF Known, OriginTypes
<1> QED BY <1>1, SeqWidens

(* A batch is staged for a storage wrapper, within its records.             *)
LEMMA StagedIs ==
  ASSUME Shapes
  PROVE  \A m \in 1..Len(messages) : staged[m] # {} =>
            m \in StorageMessages /\ staged[m] \subseteq 1..messages[m].count
<1>1. ASSUME NEW m \in 1..Len(messages), staged[m] # {}
      PROVE  m \in StorageMessages /\ staged[m] \subseteq 1..messages[m].count
  <2>1. History /\ m \in Messages /\ Registered(m) <= messages[m].count
    BY DEF Shapes, DecoderShape, History
  <2>2. Registered(m) \in Nat /\ messages[m].count \in Nat
    BY <2>1, MessageIs DEF Registered
  <2>3. m \in StorageMessages /\ staged[m] \subseteq 1..Registered(m)
    BY <1>1, <2>1 DEF Shapes, StagedShape
  <2> QED BY <2>1, <2>2, <2>3
<1> QED BY <1>1

(* What _close_pending queues: the staged records of the batches, then the *)
(* records of the settled deposits.                                        *)
LEMMA ClosePendingIs ==
  ASSUME Shapes, NEW batches, NEW gone, NEW worker
  PROVE  LET first == Unstaged(batches)
             then == Settled(pending, gone, worker)
         IN  /\ first \o then \in Seq(Known(StorageTypes))
             /\ originOutbox \o first \o then = originOutbox \o (first \o then)
             /\ ToSet(first \o then) = ToSet(first) \cup ToSet(then)
<1> DEFINE first == Unstaged(batches)
           then == Settled(pending, gone, worker)
           S == Known(StorageTypes)
<1>1. first \in Seq(S)
  BY StagedIs, UnstagedIs DEF Shapes, DecoderShape
<1>2. then \in Seq(S)
  BY SettledIs DEF Shapes, DecoderShape, PendingShape
<1> HIDE DEF first, then, S
<1>3. first \o then \in Seq(S) /\ ToSet(first \o then) = ToSet(first) \cup ToSet(then)
  BY <1>1, <1>2, AppendedElements
<1>4. originOutbox \in Seq(Known(OriginTypes))
  BY DEF Shapes, OriginShape
<1>5. originOutbox \o first \o then = originOutbox \o (first \o then)
  BY <1>1, <1>2, <1>4
<1> QED BY <1>3, <1>5 DEF first, then, S

(* Deposits that stay pending keep their shape.                             *)
LEMMA KeepShape ==
  ASSUME Shapes, UNCHANGED messages, NEW gone, pending' = Keep(pending, gone)
  PROVE  PendingShape'
<1>1. /\ pending' \in Seq(Deposits) /\ Inj(MessageOf, pending')
      /\ ToSet(pending') \subseteq ToSet(pending)
  BY KeepIs DEF Shapes, PendingShape
<1> QED BY <1>1 DEF Shapes, PendingShape, Deposits, StorageMessages, Registered,
           MessageOf, Inj

(* _close_pending keeps the shapes of what it touches.                      *)
LEMMA ClosePendingShapes ==
  ASSUME Shapes, UNCHANGED <<messages, originHand>>, NEW batches, NEW closing,
         ClosePending(batches, closing)
  PROVE  StagedShape' /\ PendingShape' /\ OriginShape' /\ OriginGrows
<1>1. PICK worker \in SUBSET Candidates(pending) :
        /\ staged' = [m \in Messages |-> IF m \in batches THEN {} ELSE staged[m]]
        /\ pending' = Keep(pending, closing \cup worker)
        /\ originOutbox' = originOutbox \o Unstaged(batches)
                             \o Settled(pending, closing \cup worker, worker)
  BY DEF ClosePending
<1>2. MoreHistory
  BY SameHistory DEF Shapes
<1>3. StagedShape'
  BY <1>1 DEF Shapes, StagedShape, StorageMessages, Registered
<1>4. PendingShape'
  BY <1>1, KeepShape
<1>5. OriginShape' /\ OriginGrows
  <2> DEFINE out == Unstaged(batches) \o Settled(pending, closing \cup worker, worker)
  <2>1. out \in Seq(Known(StorageTypes)) /\ originOutbox' = originOutbox \o out
    BY <1>1, ClosePendingIs
  <2> HIDE DEF out
  <2>2. Known(OriginTypes)' = Known(OriginTypes)
    BY DEF Known, Neutral
  <2> QED BY <1>2, <2>1, <2>2, OriginQueued, StorageIsOrigin
<1> QED BY <1>3, <1>4, <1>5

Observation(m) == Event(m, 0, "observation")

(* The observation of a companion, if one was found.                        *)
LEMMA ObservationIs ==
  ASSUME History, NEW m \in 1..Len(messages), NEW found \in BOOLEAN
  PROVE  /\ Observed(m, found) \in Seq(Known(OriginTypes))
         /\ ToSet(Observed(m, found)) = IF found THEN {Observation(m)} ELSE {}
         /\ Inj(IdOf, Observed(m, found))
<1>1. 0 \in 0..MaxRecords
  BY ConstantLimits
<1>2. Observation(m) \in Known(OriginTypes)
  BY <1>1 DEF Observation, Event, Known, OriginTypes
<1> QED BY <1>2 DEF Observed, Observation, ToSet, Inj

(* Two sequences queued one after the other.                                *)
LEMMA ThreeQueued ==
  ASSUME NEW S, NEW s \in Seq(S), NEW a \in Seq(S), NEW b \in Seq(S)
  PROVE  /\ a \o b \in Seq(S) /\ s \o a \o b = s \o (a \o b)
         /\ ToSet(a \o b) = ToSet(a) \cup ToSet(b)
<1>1. a \o b \in Seq(S) /\ ToSet(a \o b) = ToSet(a) \cup ToSet(b)
  BY AppendedElements
<1>2. s \o a \o b = s \o (a \o b)
  OBVIOUS
<1> QED BY <1>1, <1>2

(* A pending deposit is found companions, or not.                          *)
Marked(p, found) ==
  [i \in DOMAIN pending |-> IF pending[i] = p /\ found THEN [p EXCEPT !.candidate = TRUE]
                                                       ELSE pending[i]]

(* A deposit that was found a companion is a candidate from then on.        *)
LEMMA MarkedIs ==
  ASSUME Shapes, NEW p \in ToSet(pending), NEW found \in BOOLEAN
  PROVE  /\ p \in Deposits
         /\ Marked(p, found) \in Seq(Deposits) /\ Inj(MessageOf, Marked(p, found))
         /\ \A q \in ToSet(Marked(p, found)) :
              \E r \in ToSet(pending) : /\ r.message = q.message /\ r.manual = q.manual
                                        /\ r.candidate => q.candidate
                                        /\ r = p /\ found => q.candidate
         /\ \A r \in ToSet(pending) : \E q \in ToSet(Marked(p, found)) : q.message = r.message
<1> DEFINE all == Marked(p, found)
<1>1. /\ pending \in Seq(Deposits) /\ Len(pending) \in Nat /\ DOMAIN pending = 1..Len(pending)
      /\ \A i \in DOMAIN pending : pending[i] \in Deposits
      /\ Inj(MessageOf, pending)
  BY DEF Shapes, PendingShape
<1>2. p \in Deposits
  BY <1>1 DEF ToSet
<1>3. ASSUME NEW i \in DOMAIN pending
      PROVE  /\ all[i] \in Deposits /\ all[i].message = pending[i].message
             /\ all[i].manual = pending[i].manual
             /\ pending[i].candidate => all[i].candidate
             /\ pending[i] = p /\ found => all[i].candidate
  BY <1>1, <1>2 DEF Marked, Deposits
<1>4. DOMAIN all = DOMAIN pending
  BY DEF Marked
<1>5. all \in Seq(Deposits)
  <2> DEFINE D == Deposits
  <2>1. \A i \in DOMAIN pending : all[i] \in D
    BY <1>3
  <2> HIDE DEF D
  <2>2. all \in [1..Len(pending) -> D]
    BY <1>1, <2>1 DEF Marked
  <2> QED BY <1>1, <2>2 DEF D
<1> HIDE DEF all
<1>6. \A i \in DOMAIN pending : MessageOf[all[i]] = MessageOf[pending[i]]
  <2> TAKE i \in DOMAIN pending
  <2>1. all[i] \in Deposits /\ pending[i] \in Deposits /\ all[i].message = pending[i].message
    BY <1>1, <1>3
  <2> QED BY <2>1 DEF MessageOf, Deposits, StorageMessages
<1>7. Inj(MessageOf, all)
  BY <1>1, <1>4, <1>6 DEF Inj
<1>8. ASSUME NEW q \in ToSet(all)
      PROVE  \E r \in ToSet(pending) : /\ r.message = q.message /\ r.manual = q.manual
                                       /\ r.candidate => q.candidate
                                       /\ r = p /\ found => q.candidate
  <2>1. PICK i \in DOMAIN pending : q = all[i]
    BY <1>4 DEF ToSet
  <2> QED BY <1>3, <2>1 DEF ToSet
<1>9. ASSUME NEW r \in ToSet(pending) PROVE \E q \in ToSet(all) : q.message = r.message
  <2>1. PICK i \in DOMAIN pending : r = pending[i]
    BY DEF ToSet
  <2> QED BY <1>3, <1>4, <2>1 DEF ToSet
<1> QED BY <1>2, <1>5, <1>7, <1>8, <1>9 DEF all

(* observe_stream and observe_frame, as one step.                           *)
LEMMA ObserveIs ==
  ASSUME NEW t, Observe(t)
  PROVE  \E p \in ToSet(pending), found \in BOOLEAN : \E gone, worker :
           /\ worker \subseteq gone /\ (found => ~p.candidate)
           /\ pending' = Keep(Marked(p, found), gone)
           /\ originOutbox' = originOutbox \o Observed(p.message, found)
                                \o Settled(Marked(p, found), gone, worker)
<1>1. PICK p \in ToSet(pending), worker \in SUBSET Messages, found \in BOOLEAN,
           over \in BOOLEAN :
        LET gone == worker \cup IF over THEN {p.message} ELSE {} IN
        /\ found => ~p.candidate
        /\ pending' = Keep(Marked(p, found), gone)
        /\ originOutbox' = originOutbox \o Observed(p.message, found)
                             \o Settled(Marked(p, found), gone, worker)
  BY ZenonT(60) DEF Observe, Marked
<1> DEFINE gone == worker \cup IF over THEN {p.message} ELSE {}
<1>2. worker \subseteq gone
  OBVIOUS
<1> HIDE DEF gone
<1>3. /\ found => ~p.candidate
      /\ pending' = Keep(Marked(p, found), gone)
      /\ originOutbox' = originOutbox \o Observed(p.message, found)
                             \o Settled(Marked(p, found), gone, worker)
  BY <1>1 DEF gone
<1> QED BY <1>2, <1>3

(* ... keep the shapes of what they touch.                                  *)
LEMMA ObserveShapes ==
  ASSUME Shapes, NEW t, Observe(t)
  PROVE  PendingShape' /\ OriginShape' /\ OriginGrows
<1>0. PICK p \in ToSet(pending), found \in BOOLEAN : \E gone, worker :
           /\ pending' = Keep(Marked(p, found), gone)
           /\ originOutbox' = originOutbox \o Observed(p.message, found)
                                \o Settled(Marked(p, found), gone, worker)
  BY ObserveIs
<1>1. PICK gone, worker :
           /\ pending' = Keep(Marked(p, found), gone)
           /\ originOutbox' = originOutbox \o Observed(p.message, found)
                                \o Settled(Marked(p, found), gone, worker)
  BY <1>0
<1>2. UNCHANGED <<messages, originHand>>
  BY DEF Observe, decoder
<1>3. MoreHistory
  BY <1>2, SameHistory DEF Shapes
<1> DEFINE all == Marked(p, found)
           a == Observed(p.message, found)
           b == Settled(all, gone, worker)
<1>4. /\ p \in Deposits /\ all \in Seq(Deposits) /\ Inj(MessageOf, all)
      /\ \A q \in ToSet(all) : \E r \in ToSet(pending) : r.message = q.message
  BY MarkedIs
<1>5. PendingShape'
  <2>1. /\ pending' \in Seq(Deposits) /\ Inj(MessageOf, pending')
        /\ ToSet(pending') \subseteq ToSet(all)
    BY <1>1, <1>4, KeepIs
  <2>2. \A q \in ToSet(pending') : Registered(q.message) = messages[q.message].count
    BY <1>4, <2>1 DEF Shapes, PendingShape
  <2> QED BY <1>2, <2>1, <2>2 DEF PendingShape, Deposits, StorageMessages, Registered,
             MessageOf, Inj
<1>6. OriginShape' /\ OriginGrows
  <2> DEFINE S == Known(OriginTypes)
  <2>0. p.message \in 1..Len(messages) /\ History
    BY <1>4 DEF Deposits, StorageMessages, Shapes, DecoderShape
  <2>1. a \in Seq(S) /\ b \in Seq(S) /\ originOutbox \in Seq(S)
    BY <1>4, <2>0, ObservationIs, SettledIs, StorageIsOrigin DEF Shapes, OriginShape
  <2>2. originOutbox' = originOutbox \o a \o b
    BY <1>1
  <2> HIDE DEF a, b, S
  <2>3. a \o b \in Seq(S) /\ originOutbox' = originOutbox \o (a \o b)
    BY <2>1, <2>2, ThreeQueued
  <2>4. Known(OriginTypes)' = S
    BY <1>2 DEF Known, Neutral, S
  <2> QED BY <1>2, <1>3, <2>3, <2>4, OriginQueued
<1> QED BY <1>5, <1>6

(* The last message while its records are handed over.                     *)
Handing(m) == m = Len(messages) /\ todo > 0

(* A record handed over is registered, and the history is kept.             *)
LEMMA RegisteringHistory ==
  ASSUME Shapes, NEW m, Handing(m),
         messages' = [messages EXCEPT ![m].registered = Registered(m) + 1],
         todo' = todo - 1, UNCHANGED <<clock, generation>>
  PROVE  /\ MoreHistory /\ DecoderShape'
         /\ m \in 1..Len(messages) /\ Len(messages)' = Len(messages)
         /\ Registered(m) \in Nat /\ Registered(m) < messages[m].count
         /\ messages'[m].registered = Registered(m) + 1
         /\ \A n \in 1..Len(messages) : n # m => messages'[n] = messages[n]
<1>1. /\ History /\ m \in 1..Len(messages) /\ todo \in Nat
      /\ Registered(m) + todo = messages[m].count
      /\ \A n \in 1..Len(messages) : Registered(n) <= messages[n].count
      /\ Len(messages) \in Nat
  BY DEF Shapes, DecoderShape, Handing, History
<1>2. \A n \in 1..Len(messages) : /\ messages[n] \in Fields /\ Registered(n) \in Nat
                                  /\ messages[n].count \in Nat
  BY <1>1, MessageIs DEF Registered
<1>3. Len(messages)' = Len(messages) /\ messages' \in Seq(Fields)
  <2> DEFINE F == Fields
             v == [messages[m] EXCEPT !.registered = Registered(m) + 1]
  <2>1. v \in F
    BY SMTT(30), <1>1, <1>2 DEF Fields
  <2>2. messages \in Seq(F) /\ messages' = [messages EXCEPT ![m] = v]
    BY <1>1 DEF History
  <2> HIDE DEF F, v
  <2> QED BY <1>1, <2>1, <2>2 DEF F
<1>4. \A n \in 1..Len(messages) : n # m => messages'[n] = messages[n]
  BY <1>1 DEF History
<1>5. /\ messages'[m].registered = Registered(m) + 1
      /\ messages'[m].flow = messages[m].flow /\ messages'[m].kind = messages[m].kind
      /\ messages'[m].count = messages[m].count /\ messages'[m].time = messages[m].time
      /\ messages'[m].destination = messages[m].destination
      /\ messages'[m].generation = messages[m].generation
  <2>1. messages'[m] = [messages[m] EXCEPT !.registered = Registered(m) + 1]
    BY <1>1 DEF History
  <2> QED BY <1>1, <1>2, <2>1 DEF Fields
<1>6. Registered(m) < messages[m].count
  BY <1>1, <1>2 DEF Handing
<1>7. MoreHistory
  BY <1>1, <1>2, <1>3, <1>4, <1>5, <1>6 DEF MoreHistory, Registered
<1>8. DecoderShape'
  <2>1. History'
    BY <1>1, <1>3 DEF History
  <2>2. \A n \in 1..Len(messages)' : messages'[n].registered <= messages'[n].count
    BY <1>1, <1>2, <1>3, <1>4, <1>5, <1>6 DEF Registered
  <2>3. todo' > 0 => messages'[Len(messages')].registered + todo' = messages'[Len(messages')].count
    BY <1>1, <1>2, <1>3, <1>5 DEF Handing
  <2> QED BY <1>1, <1>3, <2>1, <2>2, <2>3 DEF DecoderShape, Registered, Shapes, Handing
<1> QED BY <1>1, <1>2, <1>3, <1>4, <1>5, <1>6, <1>7, <1>8

(* The deposit of a wrapper whose last record is handed over is new.        *)
LEMMA RegisteredDeposits ==
  ASSUME Shapes, NEW m \in StorageMessages, Registered(m) < messages[m].count,
         NEW deposit \in Deposits, deposit.message = m
  PROVE  /\ Append(pending, deposit) \in Seq(Deposits)
         /\ Inj(MessageOf, Append(pending, deposit))
         /\ ToSet(Append(pending, deposit)) = ToSet(pending) \cup {deposit}
         /\ \A p \in ToSet(pending) : p.message # m
<1>1. /\ pending \in Seq(Deposits) /\ Inj(MessageOf, pending)
      /\ \A p \in ToSet(pending) : Registered(p.message) = messages[p.message].count
  BY DEF Shapes, PendingShape
<1>2. Append(pending, deposit) = pending \o <<deposit>> /\ <<deposit>> \in Seq(Deposits)
      /\ ToSet(<<deposit>>) = {deposit} /\ Inj(MessageOf, <<deposit>>)
  BY <1>1 DEF ToSet, Inj
<1>3. \A p \in ToSet(pending) : p.message # m
  <2>1. Registered(m) \in Nat /\ messages[m].count \in Nat
    BY MessageIs DEF Shapes, DecoderShape, StorageMessages, Registered
  <2> QED BY <1>1, <2>1
<1>4. \A p \in Deposits : MessageOf[p] = p.message
  BY DEF MessageOf, Deposits, StorageMessages
<1>5. \A p \in ToSet(pending), q \in ToSet(<<deposit>>) : MessageOf[p] # MessageOf[q]
  BY <1>1, <1>2, <1>3, <1>4 DEF ToSet
<1>6. Append(pending, deposit) \in Seq(Deposits)
      /\ ToSet(Append(pending, deposit)) = ToSet(pending) \cup {deposit}
  <2> DEFINE D == Deposits
  <2>1. pending \in Seq(D) /\ <<deposit>> \in Seq(D)
    BY <1>1, <1>2
  <2> HIDE DEF D
  <2>2. /\ pending \o <<deposit>> \in Seq(D)
        /\ ToSet(pending \o <<deposit>>) = ToSet(pending) \cup ToSet(<<deposit>>)
    BY <2>1, AppendedElements
  <2> QED BY <1>2, <2>2 DEF D
<1>7. Inj(MessageOf, Append(pending, deposit))
  <2> HIDE DEF Deposits
  <2>1. Inj(MessageOf, pending \o <<deposit>>)
    BY <1>1, <1>2, <1>5, AppendedInj
  <2> QED BY <1>2, <2>1
<1> QED BY <1>3, <1>6, <1>7

NeutralEvents == Known({"storage_record"})

(* There are finitely many hydration keys.                                  *)
LEMMA KeysFinite == IsFiniteSet(Keys)
<1>1. IsFiniteSet(Flows) /\ IsFiniteSet(0..MaxCloses)
  BY CollectorConstants, FS_Interval
<1> QED BY <1>1, FS_Product DEF Keys

(* Neutral records are events of the hydration tracker.                     *)
LEMMA NeutralIsHydration ==
  /\ NeutralEvents \subseteq Known(HydrationTypes)
  /\ Seq(NeutralEvents) \subseteq Seq(Known(HydrationTypes))
<1>1. NeutralEvents \subseteq Known(HydrationTypes)
  BY DEF Known, HydrationTypes, NeutralEvents, StorageTypes
<1> QED BY <1>1, SeqWidens

(* What the end of some bursts queues.                                      *)
LEMMA FlushIs ==
  ASSUME Shapes, NEW keys \in SUBSET Keys
  PROVE  /\ Unconfirmed(keys) \in Seq(NeutralEvents)
         /\ ToSet(Unconfirmed(keys)) = UNION {ToSet(BurstEvents(k)) : k \in keys}
         /\ (\A k \in keys : Inj(IdOf, BurstEvents(k))) => Inj(IdOf, Unconfirmed(keys))
<1>1. IsFiniteSet(keys)
  BY KeysFinite, FS_Subset
<1>2. ASSUME NEW k \in keys
      PROVE  BurstEvents(k) \in Seq(NeutralEvents) /\ \A e \in ToSet(BurstEvents(k)) : Key(e) = k
  <2>1. CASE bursts[k] = None
    <3>1. BurstEvents(k) = <<>>
      BY <2>1 DEF BurstEvents
    <3> QED BY <3>1 DEF ToSet
  <2>2. CASE bursts[k] # None
    BY <2>2 DEF Shapes, BurstsShape, BurstShape, BurstEvents, NeutralEvents
  <2> QED BY <2>1, <2>2
<1>3. {"storage_record"} \in SUBSET AllTypes /\ History
  BY DEF AllTypes, StorageTypes, Shapes, DecoderShape
<1> QED BY <1>1, <1>2, <1>3, UnconfirmedIs DEF NeutralEvents

(* ... and what remains of them.                                            *)
LEMMA WithoutShapes ==
  ASSUME Shapes, MoreHistory, NEW keys, bursts' = Without(keys)
  PROVE  BurstsShape'
<1>0. BurstsShape
  BY DEF Shapes
<1>1. bursts' = [k \in Keys |-> IF k \in keys THEN None ELSE bursts[k]]
  BY DEF Without
<1>2. ASSUME NEW k \in Keys, bursts'[k] # None
      PROVE  BurstShape(bursts[k], k)' /\ bursts'[k] = bursts[k]
  <2>0. bursts'[k] = bursts[k] /\ BurstShape(bursts[k], k)
    BY <1>0, <1>1, <1>2 DEF BurstsShape
  <2>1. bursts[k].events \in Seq(Known({"storage_record"})')
    BY <2>0, HistoryWidens, SeqWidens DEF BurstShape
  <2>2. \A e \in ToSet(bursts[k].events) : e \in Known({"storage_record"}) /\ Key(e) = k
    BY <2>0 DEF BurstShape, ToSet
  <2>3. \A e \in ToSet(bursts[k].events) : Key(e)' = k
    BY <2>2, HistoryWidens
  <2> QED BY <2>0, <2>1, <2>3 DEF BurstShape
<1> QED BY <1>1, <1>2 DEF BurstsShape

(* The key and the time of an event.                                        *)
LEMMA KeyIn ==
  ASSUME History, NEW types, NEW e \in Known(types)
  PROVE  /\ Key(e) \in Keys /\ Time(e) \in 0..MaxTime /\ Time(e) \in Nat
         /\ e.message \in 1..Len(messages) /\ MaxTime \in Nat
<1>1. e.message \in 1..Len(messages)
  BY DEF Known
<1>2. MaxTime \in Nat
  BY CollectorConstants
<1> QED BY <1>1, <1>2, MessageIs DEF Key, Time, Keys

SnapshotOf(e) == [e EXCEPT !.type = "storage_snapshot"]

(* AsSnapshots changes the types of events and nothing else.                *)
LEMMA SnapshotsAre ==
  ASSUME History, NEW s \in Seq(NeutralEvents)
  PROVE  LET out == AsSnapshots(s) IN
         /\ out \in Seq(Known({"storage_snapshot"}))
         /\ ToSet(out) = {SnapshotOf(e) : e \in ToSet(s)}
         /\ Inj(IdOf, s) => Inj(IdOf, out)
<1> DEFINE out == AsSnapshots(s)
           S == Known({"storage_snapshot"})
           N == NeutralEvents
<1>1. /\ Len(s) \in Nat /\ DOMAIN s = 1..Len(s) /\ \A i \in DOMAIN s : s[i] \in N
  <2> HIDE DEF N
  <2>1. s \in Seq(N)
    BY DEF N
  <2> QED BY <2>1
<1>2. out = [i \in DOMAIN s |-> SnapshotOf(s[i])]
  BY DEF AsSnapshots, SnapshotOf
<1> HIDE DEF out
<1>3. \A e \in N : /\ SnapshotOf(e) \in S /\ SnapshotOf(e).message = e.message
                   /\ SnapshotOf(e).record = e.record
  BY DEF SnapshotOf, Known, NeutralEvents
<1>4. \A i \in DOMAIN s : out[i] = SnapshotOf(s[i]) /\ out[i] \in S
  BY <1>1, <1>2, <1>3
<1>5. DOMAIN out = DOMAIN s /\ out \in Seq(S)
  <2> HIDE DEF S
  <2>1. out \in [1..Len(s) -> S]
    BY <1>1, <1>2, <1>4
  <2> QED BY <1>1, <1>2, <2>1
<1>6. ToSet(out) = {SnapshotOf(e) : e \in ToSet(s)}
  BY <1>4, <1>5 DEF ToSet
<1>7. ASSUME Inj(IdOf, s) PROVE Inj(IdOf, out)
  <2>1. {"storage_snapshot"} \in SUBSET AllTypes /\ {"storage_record"} \in SUBSET AllTypes
    BY DEF AllTypes, StorageTypes
  <2>2. ASSUME NEW i \in DOMAIN s PROVE IdOf[out[i]] = IdOf[s[i]]
    <3>1. s[i] \in N /\ out[i] \in S /\ out[i].message = s[i].message /\ out[i].record = s[i].record
      BY <1>1, <1>3, <1>4
    <3>2. IdOf[s[i]] = <<s[i].message, s[i].record>>
      BY <2>1, <3>1, IdOfEvent DEF NeutralEvents
    <3>3. IdOf[out[i]] = <<out[i].message, out[i].record>>
      BY <2>1, <3>1, IdOfEvent
    <3> QED BY <3>1, <3>2, <3>3
  <2> QED BY <1>5, <1>7, <2>2 DEF Inj
<1> QED BY <1>5, <1>6, <1>7 DEF out, S

(* StageNeutral, step by step: the burst the record joins, what the end of *)
(* the burst before it queues, and what becomes of both.                   *)
Joined(e) ==
  [(IF Continues(bursts[Key(e)], e) THEN bursts[Key(e)] ELSE NewBurst(e)) EXCEPT
     !.last = Time(e),
     !.destinations = (@ \cup {messages[e.message].destination}) \ {None},
     !.recordCount = IF messages[e.message].count > @ THEN messages[e.message].count ELSE @]
Flushed(e) == IF Continues(bursts[Key(e)], e) THEN <<>> ELSE Unconfirmed({Key(e)})
Becomes(e, b, out) ==
  /\ bursts' = [bursts EXCEPT ![Key(e)] = b]
  /\ hydrationOutbox' = hydrationOutbox \o (Flushed(e) \o out)
Confirming(e) == [Joined(e) EXCEPT !.confirmed = TRUE, !.events = <<>>]
Waiting(e) == [Joined(e) EXCEPT !.events = Append(Joined(e).events, e)]

(* The four outcomes of a neutral record.                                   *)
LEMMA StageNeutralIs ==
  ASSUME NEW e, StageNeutral(e)
  PROVE  /\ UNCHANGED <<anchor, inventoryLast>>
         /\ \/ Joined(e).confirmed /\ Becomes(e, Joined(e), AsSnapshots(<<e>>))
            \/ /\ ~Joined(e).confirmed /\ Enough(Joined(e))
               /\ Becomes(e, Confirming(e), AsSnapshots(Append(Joined(e).events, e)))
            \/ ~Joined(e).confirmed /\ Becomes(e, None, Append(Joined(e).events, e))
            \/ ~Joined(e).confirmed /\ Becomes(e, Waiting(e), <<>>)
  BY DEF StageNeutral, Joined, Flushed, Becomes, Confirming, Waiting, HydrationQueue

(* The burst a neutral record joins.                                        *)
LEMMA JoinedIs ==
  ASSUME Shapes, NEW e \in NeutralEvents
  PROVE  LET j == Joined(e) IN
         /\ j \in Cohorts /\ j.events \in Seq(NeutralEvents)
         /\ j.events = IF Continues(bursts[Key(e)], e) THEN BurstEvents(Key(e)) ELSE <<>>
         /\ \A x \in ToSet(j.events) : Key(x) = Key(e)
<1> DEFINE k == Key(e)
           from == IF Continues(bursts[k], e) THEN bursts[k] ELSE NewBurst(e)
           N == NeutralEvents
           E == Seq([message : Nat, record : Nat, type : {"storage_record"}])
<1>1. /\ k \in Keys /\ Time(e) \in Nat /\ e.message \in 1..Len(messages) /\ History
  BY KeyIn DEF Shapes, DecoderShape, NeutralEvents
<1>2. messages[e.message].destination \in Destinations /\ messages[e.message].count \in Nat
  BY <1>1, MessageIs
<1>3. /\ from \in Cohorts /\ from.events \in Seq(N)
      /\ from.events = IF Continues(bursts[k], e) THEN BurstEvents(k) ELSE <<>>
      /\ \A x \in ToSet(from.events) : Key(x) = k
  <2>1. CASE Continues(bursts[k], e)
    <3>1. bursts[k] # None
      BY <2>1 DEF Continues
    <3>2. BurstShape(bursts[k], k)
      BY <1>1, <3>1 DEF Shapes, BurstsShape
    <3> QED BY <2>1, <3>1, <3>2 DEF BurstShape, BurstEvents, NeutralEvents
  <2>2. CASE ~Continues(bursts[k], e)
    <3>1. from = NewBurst(e)
      BY <2>2
    <3>2. NewBurst(e) \in Cohorts
      BY <1>1 DEF NewBurst, Cohorts, Anchored
    <3>3. NewBurst(e).events = <<>>
      BY DEF NewBurst
    <3>4. ToSet(NewBurst(e).events) = {} /\ NewBurst(e).events \in Seq(N)
      BY <3>3 DEF ToSet
    <3> HIDE DEF from, N, k
    <3> QED BY <2>2, <3>1, <3>2, <3>3, <3>4
  <2> QED BY <2>1, <2>2
<1>4. Joined(e) = [from EXCEPT
         !.last = Time(e),
         !.destinations = (@ \cup {messages[e.message].destination}) \ {None},
         !.recordCount = IF messages[e.message].count > @ THEN messages[e.message].count ELSE @]
  BY DEF Joined
<1> HIDE DEF from, N, E
<1>5. from \in [first : Nat, last : Nat, anchored : BOOLEAN, events : E,
                destinations : SUBSET Destinations, recordCount : Nat, confirmed : BOOLEAN]
  BY <1>3 DEF Cohorts, E
<1> DEFINE d == (from.destinations \cup {messages[e.message].destination}) \ {None}
           c == IF messages[e.message].count > from.recordCount
                THEN messages[e.message].count ELSE from.recordCount
<1>8. Joined(e) = [from EXCEPT !.last = Time(e), !.destinations = d, !.recordCount = c]
  BY <1>4, <1>5
<1>9. d \in SUBSET Destinations /\ c \in Nat
  BY <1>2, <1>5
<1> HIDE DEF d, c, k
<1>6. /\ Joined(e) \in [first : Nat, last : Nat, anchored : BOOLEAN, events : E,
                destinations : SUBSET Destinations, recordCount : Nat, confirmed : BOOLEAN]
      /\ Joined(e).events = from.events
  BY <1>1, <1>5, <1>8, <1>9
<1>7. Joined(e) \in Cohorts
  BY <1>6 DEF Cohorts, E
<1> QED BY <1>3, <1>6, <1>7 DEF N, k

Settled3 == <<hydrationHand, delivered>>
SameCalls == \A t \in Threads : pc'[t] = "hydrationCall" <=> pc[t] = "hydrationCall"

(* One element more.                                                        *)
LEMMA AppendIs ==
  ASSUME NEW S, NEW s \in Seq(S), NEW e \in S
  PROVE  /\ Append(s, e) \in Seq(S)
         /\ ToSet(Append(s, e)) = ToSet(s) \cup {e}
<1>1. Append(s, e) = s \o <<e>> /\ <<e>> \in Seq(S) /\ ToSet(<<e>>) = {e}
  BY DEF ToSet
<1> DEFINE u == <<e>>
<1> HIDE DEF u
<1>2. u \in Seq(S) /\ Append(s, e) = s \o u /\ ToSet(u) = {e}
  BY <1>1 DEF u
<1>3. s \o u \in Seq(S) /\ ToSet(s \o u) = ToSet(s) \cup ToSet(u)
  BY <1>2, AppendedElements
<1> QED BY <1>1, <1>2, <1>3

(* What a boundary, or a record proven live, ends is queued before it.     *)
LEMMA FlushAndPass ==
  ASSUME Shapes, MoreHistory, NEW keys \in SUBSET Keys, NEW e \in Known(HydrationTypes)',
         bursts' = Without(keys),
         hydrationOutbox' = hydrationOutbox \o Append(Unconfirmed(keys), e),
         UNCHANGED Settled3, SameCalls
  PROVE  BurstsShape' /\ HydrationShape' /\ HydrationGrows
<1> DEFINE S == Known(HydrationTypes)'
           u == Unconfirmed(keys)
<1>1. u \in Seq(S)
  BY FlushIs, NeutralIsHydration, HistoryWidens, SeqWidens
<1>2. e \in S
  OBVIOUS
<1> HIDE DEF S, u
<1>3. Append(u, e) \in Seq(S)
  BY <1>1, <1>2, AppendIs
<1>4. HydrationShape' /\ HydrationGrows
  BY <1>3, HydrationQueued DEF S, u, Settled3, SameCalls
<1> QED BY <1>4, WithoutShapes

(* A neutral record keeps the shapes of the hydration tracker.              *)
LEMMA StageNeutralShapes ==
  ASSUME Shapes, UNCHANGED messages, NEW e \in NeutralEvents, StageNeutral(e),
         UNCHANGED Settled3, SameCalls
  PROVE  BurstsShape' /\ AnchorShape' /\ HydrationShape' /\ HydrationGrows
<1> DEFINE S == Known(HydrationTypes)
           N == NeutralEvents
           j == Joined(e)
           events == Append(j.events, e)
           k == Key(e)
<1>1. /\ j \in Cohorts /\ j.events \in Seq(N) /\ \A x \in ToSet(j.events) : Key(x) = k
  BY JoinedIs
<1>2. History /\ MoreHistory /\ k \in Keys
  BY SameHistory, KeyIn DEF Shapes, DecoderShape, NeutralEvents
<1>3. Known(HydrationTypes)' = S /\ NeutralEvents' = N /\ \A x : Key(x)' = Key(x)
  BY DEF Known, Neutral, NeutralEvents, Key
<1>4. e \in N /\ <<e>> \in Seq(N) /\ Key(e) = k
  OBVIOUS
<1>a. /\ Known({"storage_snapshot"}) \subseteq S /\ N \subseteq S
      /\ Unconfirmed({k}) \in Seq(S)
  BY <1>2, FlushIs, NeutralIsHydration DEF Known, HydrationTypes
<1> DEFINE before == j.events
<1>b. before \in Seq(N)
  BY <1>1
<1> HIDE DEF N, S, before
<1>5. /\ events \in Seq(N) /\ ToSet(events) = ToSet(before) \cup {e}
  <2>1. /\ Append(before, e) \in Seq(N) /\ ToSet(Append(before, e)) = ToSet(before) \cup {e}
    BY <1>4, <1>b, AppendIs
  <2> QED BY <2>1 DEF before
<1> HIDE DEF j, k, events
<1>6. /\ AsSnapshots(events) \in Seq(S) /\ AsSnapshots(<<e>>) \in Seq(S)
      /\ events \in Seq(S) /\ <<>> \in Seq(S)
  <2>2. AsSnapshots(events) \in Seq(Known({"storage_snapshot"}))
        /\ AsSnapshots(<<e>>) \in Seq(Known({"storage_snapshot"}))
    BY <1>2, <1>4, <1>5, SnapshotsAre DEF N
  <2>3. events \in Seq(S)
    BY <1>5, <1>a, SeqWidens
  <2> QED BY <1>a, <2>2, <2>3, SeqWidens
<1>7. Flushed(e) \in Seq(S)
  BY <1>a DEF Flushed, k
<1>8. BurstShape(j, k) /\ BurstShape(Confirming(e), k) /\ BurstShape(Waiting(e), k)
  <2> DEFINE E == Seq([message : Nat, record : Nat, type : {"storage_record"}])
  <2>1. \A q \in Seq(N) : q \in E
    <3>1. MaxRecords \in Nat
      BY ConstantLimits
    <3>2. N \subseteq [message : Nat, record : Nat, type : {"storage_record"}]
      BY <1>2, <3>1 DEF N, NeutralEvents, Known, History
    <3> QED BY <3>2, SeqWidens
  <2>2. events \in E /\ <<>> \in E
    BY <1>5, <2>1
  <2> HIDE DEF E
  <2>3. j \in [first : Nat, last : Nat, anchored : BOOLEAN, events : E,
               destinations : SUBSET Destinations, recordCount : Nat, confirmed : BOOLEAN]
    BY <1>1 DEF Cohorts, E
  <2>4. /\ Confirming(e) = [j EXCEPT !.confirmed = TRUE, !.events = <<>>]
        /\ Waiting(e) = [j EXCEPT !.events = events]
    BY DEF Confirming, Waiting, j, before, events
  <2>5. /\ Confirming(e) \in [first : Nat, last : Nat, anchored : BOOLEAN, events : E,
               destinations : SUBSET Destinations, recordCount : Nat, confirmed : BOOLEAN]
        /\ Waiting(e) \in [first : Nat, last : Nat, anchored : BOOLEAN, events : E,
               destinations : SUBSET Destinations, recordCount : Nat, confirmed : BOOLEAN]
        /\ Confirming(e).events = <<>> /\ Waiting(e).events = events
    BY <2>2, <2>3, <2>4
  <2>6. Confirming(e) \in Cohorts /\ Waiting(e) \in Cohorts
    BY <2>5 DEF Cohorts, E
  <2>7. ToSet(<<>>) = {}
    BY DEF ToSet
  <2>8. \A x \in ToSet(events) : Key(x) = k
    BY <1>1, <1>4, <1>5 DEF before
  <2>9. <<>> \in Seq(N) /\ events \in Seq(N)
    BY <1>5
  <2> QED BY <1>1, <2>5, <2>6, <2>7, <2>8, <2>9 DEF BurstShape, N, NeutralEvents
<1>9. ASSUME NEW b, NEW out \in Seq(S), Becomes(e, b, out), b # None => BurstShape(b, k)
      PROVE  BurstsShape' /\ HydrationShape' /\ HydrationGrows
  <2>1. BurstsShape
    BY DEF Shapes
  <2>2. /\ bursts' = [bursts EXCEPT ![k] = b]
        /\ hydrationOutbox' = hydrationOutbox \o (Flushed(e) \o out)
    BY <1>4, <1>9 DEF Becomes
  <2>3. Flushed(e) \o out \in Seq(S)
    <3> QED BY <1>7, <1>9, AppendedElements
  <2>4. HydrationShape' /\ HydrationGrows
    BY <1>2, <1>3, <2>2, <2>3, HydrationQueued DEF Settled3, SameCalls, S
  <2>5. \A c, l : BurstShape(c, l)' <=> BurstShape(c, l)
    BY <1>3 DEF BurstShape, N, NeutralEvents
  <2>6. BurstsShape'
    <3>1. bursts' = [l \in Keys |-> IF l = k THEN b ELSE bursts[l]]
      BY <1>2, <2>1, <2>2 DEF BurstsShape
    <3> QED BY <1>9, <2>1, <2>5, <3>1 DEF BurstsShape
  <2> QED BY <2>4, <2>6
<1>10. UNCHANGED <<anchor, inventoryLast>> /\ AnchorShape'
  BY StageNeutralIs DEF AnchorShape, Shapes
<1>11. BurstsShape' /\ HydrationShape' /\ HydrationGrows
  <2>1. j # None /\ Confirming(e) # None /\ Waiting(e) # None
    BY <1>8, CollectorConstants DEF BurstShape
  <2>2. CASE Becomes(e, j, AsSnapshots(<<e>>))
    BY <1>6, <1>8, <1>9, <2>2
  <2>3. CASE Becomes(e, Confirming(e), AsSnapshots(events))
    BY <1>6, <1>8, <1>9, <2>3
  <2>4. CASE Becomes(e, None, events)
    BY <1>6, <1>9, <2>4
  <2>5. CASE Becomes(e, Waiting(e), <<>>)
    BY <1>6, <1>8, <1>9, <2>5
  <2> QED BY <2>2, <2>3, <2>4, <2>5, StageNeutralIs DEF j, events
<1> QED BY <1>10, <1>11

(* A step that decodes nothing keeps the decoder's state.                   *)
LEMMA StillDecoder ==
  ASSUME Shapes, UNCHANGED <<messages, generation>>, clock' \in 0..MaxTime,
         todo' \in {0, todo}
  PROVE  MoreHistory /\ DecoderShape'
<1>1. MoreHistory
  BY SameHistory DEF Shapes
<1>2. DecoderShape'
  BY DEF Shapes, DecoderShape, History, Registered
<1> QED BY <1>1, <1>2

(* A thread that moves outside callbacks changes none.                      *)
LEMMA ReadyIsNoCall ==
  ASSUME Positions, NEW t \in Threads, NEW to \in Labels, pc' = [pc EXCEPT ![t] = to],
         to # "hydrationCall", pc[t] # "hydrationCall"
  PROVE  SameCalls
  BY DEF Positions, SameCalls

(* A decoded message extends the history.                                   *)
LEMMA DecodeShapes ==
  ASSUME Shapes, NEW t \in Threads, Decode(t)
  PROVE  Shapes'
<1> DEFINE n == Len(messages)
<1>1. PICK wire \in Wires :
        /\ n < Len(wire)
        /\ messages' = Append(messages,
             [flow |-> wire[n + 1].flow, kind |-> wire[n + 1].kind, count |-> wire[n + 1].count,
              destination |-> wire[n + 1].destination, registered |-> 0,
              generation |-> generation[wire[n + 1].flow], time |-> clock])
        /\ todo' = wire[n + 1].count
  BY DEF Decode
<1> DEFINE w == wire[n + 1]
           v == [flow |-> w.flow, kind |-> w.kind, count |-> w.count,
                 destination |-> w.destination, registered |-> 0,
                 generation |-> generation[w.flow], time |-> clock]
<1>2. /\ History /\ n \in Nat /\ clock \in 0..MaxTime /\ todo = 0
      /\ generation \in [Flows -> 0..MaxCloses] /\ UNCHANGED <<clock, generation>>
  BY DEF Shapes, DecoderShape, History, Decode
<1>3. /\ Len(wire) \in Nat /\ n + 1 \in DOMAIN wire /\ n + 1 \in Messages
      /\ w \in [flow : Flows, kind : Kinds, count : Nat \ {0}, destination : Destinations]
      /\ w.count \in 1..MaxRecords /\ MaxRecords \in Nat
  <2>1. /\ Len(wire) \in Nat /\ DOMAIN wire = 1..Len(wire)
        /\ \A m \in DOMAIN wire :
              wire[m] \in [flow : Flows, kind : Kinds, count : Nat \ {0},
                          destination : Destinations]
    BY WireIs
  <2>2. n + 1 \in DOMAIN wire
    BY <1>1, <1>2, <2>1
  <2>3. n + 1 \in Messages
    <3>1. PICK c \in Nat : Messages = 1..c /\ \A x \in Wires : Len(x) <= c
      BY ConstantLimits
    <3> QED BY <1>2, <2>1, <2>2, <3>1
  <2> QED BY <2>1, <2>2, <2>3, ConstantLimits
<1>4. v \in Fields /\ v.registered = 0 /\ v.count = w.count /\ v.kind = w.kind
  BY <1>2, <1>3 DEF Fields
<1> DEFINE F == Fields
<1>5. messages \in Seq(F) /\ messages' = Append(messages, v)
  BY <1>1, <1>2 DEF History
<1> HIDE DEF v, w, n, F
<1>6. /\ messages' \in Seq(F) /\ Len(messages') = n + 1 /\ messages'[n + 1] = v
      /\ \A m \in 1..n : messages'[m] = messages[m]
  BY <1>4, <1>5 DEF n, F
<1>7. History'
  BY <1>2, <1>3, <1>6 DEF History, n, F
<1>8. \A m \in 1..n : messages[m].registered \in Nat /\ messages[m].count \in Nat
                      /\ messages[m].registered <= messages[m].count
  <2> TAKE m \in 1..n
  <2>1. messages[m].registered \in Nat /\ messages[m].count \in 1..MaxRecords /\ MaxRecords \in Nat
    BY <1>2, MessageIs DEF n
  <2> QED BY <2>1 DEF Shapes, DecoderShape, Registered, n
<1>9. MoreHistory
  BY <1>2, <1>6, <1>8 DEF MoreHistory, Registered, n
<1>10. DecoderShape'
  <2>1. todo' = w.count /\ todo' \in Nat
    BY <1>1, <1>3 DEF w
  <2>2. \A m \in 1..Len(messages') : messages'[m].registered <= messages'[m].count
    BY <1>2, <1>3, <1>4, <1>6, <1>8
  <2>3. messages'[Len(messages')].registered + todo' = messages'[Len(messages')].count
        /\ Len(messages') > 0
    BY <1>2, <1>3, <1>4, <1>6, <2>1
  <2> QED BY <1>2, <1>7, <2>1, <2>2, <2>3 DEF DecoderShape, Registered
<1>11. UNCHANGED <<staged, pending, originOutbox, originHand, bursts, anchor, inventoryLast,
                   hydrationOutbox, hydrationHand, delivered, pc>>
  BY DEF Decode, origin, hydration, threads
<1> QED BY <1>9, <1>10, <1>11, ShapesStay DEF Shapes

(* Steps of the clock and of the session keep the shapes.                   *)
LEMMA QuietShapes ==
  ASSUME Shapes, Positions,
         UNCHANGED <<messages, generation, staged, pending, originOutbox, originHand,
                     bursts, anchor, inventoryLast, hydrationOutbox, hydrationHand, delivered>>,
         clock' \in 0..MaxTime, todo' \in {0, todo}, SameCalls
  PROVE  Shapes'
  BY StillDecoder, ShapesStay DEF Shapes, SameCalls

(* So does closing.                                                         *)
LEMMA ClosingShapes ==
  ASSUME Shapes, NEW batches, NEW closing, ClosePending(batches, closing),
         UNCHANGED <<clock, messages, todo, originHand, bursts, anchor, inventoryLast,
                     hydrationOutbox, hydrationHand, delivered>>,
         generation' \in [Flows -> 0..MaxCloses], SameCalls
  PROVE  Shapes' /\ OriginGrows
<1>1. MoreHistory
  BY SameHistory DEF Shapes
<1>2. DecoderShape'
  BY DEF Shapes, DecoderShape, History, Registered
<1> QED BY <1>1, <1>2, ClosePendingShapes, ShapesStay DEF Shapes, SameCalls

(* The events of settled deposits.                                          *)
LEMMA SettledIds ==
  ASSUME History, NEW deposits \in Seq(Deposits), Inj(MessageOf, deposits), NEW gone, NEW worker,
         NEW e \in ToSet(Settled(deposits, gone, worker))
  PROVE  /\ e.message \in gone /\ e.record \in Nat /\ e.record # 0
         /\ IdOf[e] = <<e.message, e.record>> /\ e.type \in StorageTypes
         /\ \E p \in ToSet(deposits) : p.message = e.message
<1>1. PICK p \in SettledOf(deposits, gone) : \E i \in 1..messages[p.message].count :
         e = Event(p.message, i, Verdict(p, worker))
  BY SettledIs
<1>2. e \in Known(StorageTypes)
  <2> DEFINE out == Settled(deposits, gone, worker)
             K == Known(StorageTypes)
  <2>1. out \in Seq(K)
    BY SettledIs
  <2> HIDE DEF out, K
  <2>2. e \in K
    BY <2>1 DEF ToSet, out
  <2> QED BY <2>2 DEF K
<1>3. p \in ToSet(deposits) /\ p.message \in gone
  BY <1>1 DEF SettledOf
<1>4. e.message = p.message /\ e.record \in 1..messages[p.message].count
  BY <1>1 DEF Event
<1>5. IdOf[e] = <<e.message, e.record>>
  BY <1>2, IdOfEvent DEF AllTypes
<1>6. e.record \in Nat /\ e.record # 0 /\ e.type \in StorageTypes
  <2>1. e.record \in 0..MaxRecords /\ MaxRecords \in Nat /\ e.type \in StorageTypes
    BY <1>2, ConstantLimits DEF Known
  <2> QED BY <1>4, <2>1
<1> QED BY <1>3, <1>4, <1>5, <1>6

Evicted(deposit, gone) ==
  LET kept == Keep(Append(pending, deposit), gone)
  IN  IF deposit.message \in gone THEN {} ELSE Oldest(kept, messages[deposit.message].flow)
Retained(deposit, gone) == Keep(Append(pending, deposit), gone)
RetainedOut(deposit, gone, worker) ==
  Observed(deposit.message, deposit.candidate) \o
    (Settled(Append(pending, deposit), gone, worker) \o
     Settled(Retained(deposit, gone), Evicted(deposit, gone), {}))

(* The event of an observation.                                             *)
LEMMA ObservedIs ==
  ASSUME History, NEW m \in 1..Len(messages), NEW found \in BOOLEAN,
         NEW e \in ToSet(Observed(m, found))
  PROVE  /\ found /\ e = Observation(m) /\ e.message = m /\ e.record = 0
         /\ e.type = "observation" /\ IdOf[e] = <<m, 0>>
<1>1. found /\ e = Observation(m)
  BY ObservationIs
<1>2. e.message = m /\ e.record = 0 /\ e.type = "observation"
  BY <1>1 DEF Observation, Event
<1>3. m \in Nat
  BY MessageIs
<1>4. e \in [message : Nat, record : Nat, type : AllTypes]
  BY <1>1, <1>3 DEF Observation, Event, AllTypes
<1> QED BY <1>1, <1>2, <1>4 DEF IdOf

(* What _register_group retains, and what it queues.                        *)
LEMMA RetainIs ==
  ASSUME Shapes, NEW m \in StorageMessages, Registered(m) < messages[m].count,
         NEW deposit \in Deposits, deposit.message = m, NEW gone, NEW worker
  PROVE  LET all == Append(pending, deposit)
             kept == Retained(deposit, gone)
             evicted == Evicted(deposit, gone)
             out == RetainedOut(deposit, gone, worker)
         IN  /\ Retain(deposit, gone, worker) =>
                   pending' = Keep(kept, evicted) /\ originOutbox' = originOutbox \o out
             /\ all \in Seq(Deposits) /\ Inj(MessageOf, all)
             /\ ToSet(all) = ToSet(pending) \cup {deposit}
             /\ kept \in Seq(Deposits) /\ Inj(MessageOf, kept)
             /\ ToSet(kept) = {p \in ToSet(all) : p.message \notin gone}
             /\ out \in Seq(Known(OriginTypes)) /\ Inj(IdOf, out)
             /\ ToSet(out) = ToSet(Observed(m, deposit.candidate))
                   \cup ToSet(Settled(all, gone, worker)) \cup ToSet(Settled(kept, evicted, {}))
<1> DEFINE all == Append(pending, deposit)
           kept == Retained(deposit, gone)
           evicted == Evicted(deposit, gone)
           K == Known(OriginTypes)
           a == Observed(m, deposit.candidate)
           b == Settled(all, gone, worker)
           c == Settled(kept, evicted, {})
           out == RetainedOut(deposit, gone, worker)
<1>1. History /\ m \in 1..Len(messages) /\ deposit.candidate \in BOOLEAN
  BY DEF Shapes, DecoderShape, Deposits, StorageMessages
<1>2. /\ all \in Seq(Deposits) /\ Inj(MessageOf, all)
      /\ ToSet(all) = ToSet(pending) \cup {deposit}
  BY RegisteredDeposits
<1> HIDE DEF all
<1>3. /\ kept \in Seq(Deposits) /\ Inj(MessageOf, kept)
      /\ ToSet(kept) = {p \in ToSet(all) : p.message \notin gone}
  <2>1. kept = Keep(all, gone)
    BY DEF Retained, all
  <2> HIDE DEF kept
  <2> QED BY <1>2, <2>1, KeepIs
<1>4. a \in Seq(K) /\ b \in Seq(K) /\ c \in Seq(K) /\ originOutbox \in Seq(K)
  BY <1>1, <1>2, <1>3, ObservationIs, SettledIs, StorageIsOrigin DEF Shapes, OriginShape
<1>5. Inj(IdOf, a) /\ Inj(IdOf, b) /\ Inj(IdOf, c)
  BY <1>1, <1>2, <1>3, ObservationIs, SettledIs
<1>6. \A x \in ToSet(b), y \in ToSet(c) : IdOf[x] # IdOf[y]
  <2> TAKE x \in ToSet(b), y \in ToSet(c)
  <2>1. x.message \in gone /\ IdOf[x] = <<x.message, x.record>>
    BY <1>1, <1>2, SettledIds
  <2>2. IdOf[y] = <<y.message, y.record>> /\ \E p \in ToSet(kept) : p.message = y.message
    BY <1>1, <1>3, SettledIds
  <2>3. y.message \notin gone
    BY <1>3, <2>2
  <2> QED BY <2>1, <2>2, <2>3
<1>7. \A x \in ToSet(a), y \in ToSet(b) \cup ToSet(c) : IdOf[x] # IdOf[y]
  <2> TAKE x \in ToSet(a), y \in ToSet(b) \cup ToSet(c)
  <2>1. IdOf[x] = <<m, 0>>
    BY <1>1, ObservedIs
  <2>2. IdOf[y] = <<y.message, y.record>> /\ y.record # 0
    <3>1. CASE y \in ToSet(b)
      BY <1>1, <1>2, <3>1, SettledIds
    <3>2. CASE y \in ToSet(c)
      BY <1>1, <1>3, <3>2, SettledIds
    <3> QED BY <3>1, <3>2
  <2> QED BY <2>1, <2>2
<1>8. Retain(deposit, gone, worker) =>
        pending' = Keep(kept, evicted) /\ originOutbox' = originOutbox \o a \o b \o c
  BY DEF Retain, Retained, Evicted, all
<1>9. out = a \o (b \o c)
  BY DEF RetainedOut, all
<1> HIDE DEF all, kept, evicted, K, a, b, c, out
<1>10. /\ b \o c \in Seq(K) /\ ToSet(b \o c) = ToSet(b) \cup ToSet(c) /\ Inj(IdOf, b \o c)
  BY <1>4, <1>5, <1>6, AppendedElements, AppendedInj
<1>11. /\ a \o (b \o c) \in Seq(K) /\ ToSet(a \o (b \o c)) = ToSet(a) \cup ToSet(b) \cup ToSet(c)
       /\ Inj(IdOf, a \o (b \o c))
  <2> DEFINE d == b \o c
  <2>1. d \in Seq(K) /\ ToSet(d) = ToSet(b) \cup ToSet(c) /\ Inj(IdOf, d)
    BY <1>10
  <2> HIDE DEF d
  <2>2. /\ a \o d \in Seq(K) /\ ToSet(a \o d) = ToSet(a) \cup ToSet(d)
    BY <1>4, <2>1, AppendedElements
  <2>3. \A x \in ToSet(a), y \in ToSet(d) : IdOf[x] # IdOf[y]
    BY <1>7, <2>1
  <2>4. Inj(IdOf, a \o d)
    BY <1>4, <1>5, <2>1, <2>3, AppendedInj
  <2> QED BY <2>1, <2>2, <2>4 DEF d
<1>12. originOutbox \o a \o b \o c = originOutbox \o (a \o (b \o c))
  BY SMTT(30), <1>4
<1> QED BY <1>2, <1>3, <1>8, <1>9, <1>11, <1>12 DEF all, kept, evicted, K, a, b, c, out

(* The cases of _handle_accepted_record.                                   *)
Boundary(m) ==
  /\ messages[m].kind = "inventory_snapshot"
  /\ ObserveInventory(Event(m, Registered(m) + 1, "inventory_snapshot"))
  /\ UNCHANGED <<staged, pending, originOutbox>>
Completed(m) ==
  /\ m \in StorageMessages
  /\ staged[m] \cup {Registered(m) + 1} = 1..messages[m].count
  /\ staged' = [staged EXCEPT ![m] = {}]
  /\ \E deposit \in Deposits : \E gone, worker :
       deposit.message = m /\ worker \subseteq gone /\ Retain(deposit, gone, worker)
  /\ UNCHANGED <<bursts, anchor, inventoryLast, hydrationOutbox>>
Incomplete(m) ==
  /\ m \in StorageMessages
  /\ staged[m] \cup {Registered(m) + 1} # 1..messages[m].count
  /\ staged' = [staged EXCEPT ![m] = @ \cup {Registered(m) + 1}]
  /\ UNCHANGED <<pending, originOutbox, bursts, anchor, inventoryLast, hydrationOutbox>>

(* _handle_accepted_record, by cases.                                       *)
LEMMA RegisterIs ==
  ASSUME Shapes, NEW t, Register(t)
  PROVE  LET m == Len(messages) IN
         /\ Handing(m) /\ messages' = [messages EXCEPT ![m].registered = Registered(m) + 1]
         /\ todo' = todo - 1 /\ pc[t] = "ready"
         /\ UNCHANGED <<clock, generation, originHand, hydrationHand, delivered>>
         /\ pc' = [pc EXCEPT ![t] = "origin"] \/ pc' = [pc EXCEPT ![t] = "hydration"]
         /\ Boundary(m) \/ Completed(m) \/ Incomplete(m)
<1> DEFINE m == Len(messages)
           i == Registered(m) + 1
<1>1. /\ Handing(m) /\ messages' = [messages EXCEPT ![m].registered = i]
      /\ todo' = todo - 1 /\ pc[t] = "ready"
      /\ UNCHANGED <<clock, generation, originHand, hydrationHand, delivered>>
      /\ pc' = [pc EXCEPT ![t] = "origin"] \/ pc' = [pc EXCEPT ![t] = "hydration"]
  BY DEF Register, Decodes, Handing, RegisterStorage, Enter, Registered
<1>2. m \in 1..Len(messages) /\ History
  BY <1>1 DEF Handing, Shapes, DecoderShape, History
<1>3. CASE messages[m].kind = "inventory_snapshot"
  BY <1>1, <1>3 DEF Register, Boundary, Registered, origin
<1>4. CASE messages[m].kind # "inventory_snapshot"
  <2>1. m \in StorageMessages
    BY <1>2, <1>4, MessageIs DEF StorageMessages, StorageTypes, Kinds
  <2>2. RegisterStorage(t, m, i)
    BY <1>4 DEF Register, Registered
  <2>3. UNCHANGED <<bursts, anchor, inventoryLast, hydrationOutbox>>
    BY <2>2 DEF RegisterStorage, hydration
  <2>4. CASE staged[m] \cup {i} = 1..messages[m].count
    <3>1. staged' = [staged EXCEPT ![m] = {}] /\ RegisterGroup(m)
      BY <2>2, <2>4 DEF RegisterStorage
    <3>2. PICK deposit \in [message : {m}, manual : BOOLEAN, candidate : BOOLEAN] :
            \E worker \in SUBSET Candidates(Append(pending, deposit)), over \in BOOLEAN :
              Retain(deposit, worker \cup IF over THEN {m} ELSE {}, worker)
      BY <3>1 DEF RegisterGroup
    <3>3. deposit \in Deposits /\ deposit.message = m
      BY <2>1 DEF Deposits
    <3>4. PICK worker \in SUBSET Candidates(Append(pending, deposit)), over \in BOOLEAN :
            Retain(deposit, worker \cup IF over THEN {m} ELSE {}, worker)
      BY <3>2
    <3> DEFINE gone == worker \cup IF over THEN {m} ELSE {}
    <3>5. worker \subseteq gone /\ Retain(deposit, gone, worker)
      BY <3>4
    <3> HIDE DEF gone, i, m
    <3>6. \E d \in Deposits : \E g, w : d.message = m /\ w \subseteq g /\ Retain(d, g, w)
      BY <3>3, <3>5
    <3>7. Completed(m)
      BY <2>1, <2>3, <2>4, <3>1, <3>6 DEF Completed, i
    <3> QED BY <1>1, <3>7 DEF i, m
  <2>5. CASE staged[m] \cup {i} # 1..messages[m].count
    BY <1>1, <2>1, <2>2, <2>3, <2>5 DEF RegisterStorage, Incomplete
  <2> QED BY <1>1, <2>4, <2>5
<1> QED BY <1>1, <1>3, <1>4

(* The last record of a wrapper completes its batch.                        *)
LEMMA CompletedIs ==
  ASSUME Shapes, NEW m, Handing(m), Completed(m)
  PROVE  /\ messages[m].count = Registered(m) + 1 /\ Registered(m) < messages[m].count
         /\ staged[m] = 1..Registered(m) /\ Registered(m) \in Nat
<1>1. m \in StorageMessages /\ m \in 1..Len(messages) /\ History /\ m \in Messages
  BY DEF Completed, StorageMessages, Shapes, DecoderShape, History
<1>2. Registered(m) \in Nat /\ messages[m].count \in Nat
  BY <1>1, MessageIs DEF Registered
<1>3. Registered(m) < messages[m].count
  BY <1>2 DEF Handing, Shapes, DecoderShape
<1>4. staged[m] \subseteq 1..Registered(m)
  BY <1>1 DEF Shapes, StagedShape
<1>5. messages[m].count \in staged[m] \cup {Registered(m) + 1}
  BY <1>2, <1>3 DEF Completed
<1>6. messages[m].count = Registered(m) + 1
  BY <1>2, <1>3, <1>4, <1>5
<1>7. staged[m] = 1..Registered(m)
  <2>1. staged[m] \cup {Registered(m) + 1} = 1..(Registered(m) + 1)
    BY <1>6 DEF Completed
  <2>2. \A x \in 1..Registered(m) : x \in 1..(Registered(m) + 1) /\ x # Registered(m) + 1
    BY <1>2
  <2> QED BY <1>4, <2>1, <2>2
<1> QED BY <1>2, <1>3, <1>6, <1>7

(* Another record is staged.                                                *)
LEMMA IncompleteShapes ==
  ASSUME Shapes, NEW m, Handing(m), Incomplete(m), MoreHistory,
         messages' = [messages EXCEPT ![m].registered = Registered(m) + 1],
         Registered(m) \in Nat, messages'[m].registered = Registered(m) + 1,
         \A n \in 1..Len(messages) : n # m => messages'[n] = messages[n],
         Registered(m) < messages[m].count
  PROVE  StagedShape'
<1>1. m \in StorageMessages /\ m \in 1..Len(messages) /\ History /\ m \in Messages
  BY DEF Incomplete, StorageMessages, Shapes, DecoderShape, History
<1>2. messages[m].count \in 1..MaxRecords /\ MaxRecords \in Nat
  BY <1>1, MessageIs
<1>3. /\ staged \in [Messages -> SUBSET (1..MaxRecords)]
      /\ staged' = [staged EXCEPT ![m] = @ \cup {Registered(m) + 1}]
  BY DEF Shapes, StagedShape, Incomplete
<1>4. Registered(m) + 1 \in 1..MaxRecords
  BY <1>2
<1>5. staged' \in [Messages -> SUBSET (1..MaxRecords)]
  BY <1>1, <1>3, <1>4
<1>6. ASSUME NEW n \in Messages, staged'[n] # {}
      PROVE  n \in StorageMessages' /\ staged'[n] \subseteq 1..messages'[n].registered
  <2>1. CASE n = m
    <3>1. staged[m] \subseteq 1..Registered(m)
      BY <1>1 DEF Shapes, StagedShape
    <3>2. staged'[m] = staged[m] \cup {Registered(m) + 1}
      BY <1>1, <1>3
    <3>3. staged'[m] \subseteq 1..messages'[m].registered
      BY <3>1, <3>2
    <3> QED BY <1>1, <2>1, <3>3, HistoryWidens
  <2>2. CASE n # m
    <3>1. staged'[n] = staged[n]
      BY <1>3, <2>2
    <3>2. n \in StorageMessages /\ staged[n] \subseteq 1..Registered(n)
      BY <1>6, <3>1 DEF Shapes, StagedShape
    <3>3. messages'[n] = messages[n]
      BY <2>2, <3>2 DEF StorageMessages
    <3> QED BY <3>1, <3>2, <3>3, HistoryWidens DEF Registered
  <2> QED BY <2>1, <2>2
<1> QED BY <1>5, <1>6 DEF StagedShape, Registered

(* A complete wrapper is retained or finalized.                             *)
LEMMA RetainShapes ==
  ASSUME Shapes, NEW m, Handing(m), Completed(m), MoreHistory, UNCHANGED originHand,
         messages'[m].registered = Registered(m) + 1,
         \A n \in 1..Len(messages) : n # m => messages'[n] = messages[n]
  PROVE  StagedShape' /\ PendingShape' /\ OriginShape' /\ OriginGrows
<1>1. /\ m \in StorageMessages /\ m \in 1..Len(messages) /\ Registered(m) < messages[m].count
      /\ messages[m].count = Registered(m) + 1
  BY CompletedIs DEF Completed, StorageMessages
<1>0. PICK deposit \in Deposits : \E gone, worker :
        deposit.message = m /\ Retain(deposit, gone, worker)
  BY DEF Completed
<1>2. PICK gone, worker : deposit.message = m /\ Retain(deposit, gone, worker)
  BY <1>0
<1> DEFINE all == Append(pending, deposit)
           kept == Retained(deposit, gone)
           evicted == Evicted(deposit, gone)
           out == RetainedOut(deposit, gone, worker)
           D == Deposits
<1>3. /\ pending' = Keep(kept, evicted) /\ originOutbox' = originOutbox \o out
      /\ ToSet(all) = ToSet(pending) \cup {deposit}
      /\ kept \in Seq(D) /\ Inj(MessageOf, kept)
      /\ ToSet(kept) = {p \in ToSet(all) : p.message \notin gone}
      /\ out \in Seq(Known(OriginTypes))
  BY <1>1, <1>2, RetainIs
<1> HIDE DEF all, kept, evicted, out, D
<1>4. /\ pending' \in Seq(D) /\ Inj(MessageOf, pending') /\ ToSet(pending') \subseteq ToSet(all)
  BY <1>3, KeepIs
<1>5. PendingShape'
  <2>1. pending' \in Seq(Deposits')
    BY <1>4, HistoryWidens, SeqWidens DEF D
  <2>2. ASSUME NEW p \in ToSet(pending')
        PROVE  messages'[p.message].registered = messages'[p.message].count
    <3>1. p \in ToSet(pending) \/ p.message = m
      BY <1>2, <1>3, <1>4
    <3>2. CASE p.message = m
      BY <1>1, <3>2 DEF MoreHistory
    <3>3. CASE p \in ToSet(pending)
      <4>1. Registered(p.message) = messages[p.message].count
        BY <3>3 DEF Shapes, PendingShape
      <4>2. pending \in Seq(D)
        BY DEF Shapes, PendingShape, D
      <4>3. p \in D
        BY <3>3, <4>2 DEF ToSet
      <4>4. p.message \in 1..Len(messages)
        BY <4>3 DEF D, Deposits, StorageMessages
      <4> QED BY <4>1, <4>4 DEF MoreHistory, Registered
    <3> QED BY <3>1, <3>2, <3>3
  <2> QED BY <1>4, <2>1, <2>2 DEF PendingShape, Registered, MessageOf, Inj
<1>6. OriginShape' /\ OriginGrows
  <2>1. out \in Seq(Known(OriginTypes)')
    BY <1>3, HistoryWidens, SeqWidens
  <2> QED BY <1>3, <2>1, OriginQueued
<1>7. StagedShape'
  <2>1. /\ staged' = [staged EXCEPT ![m] = {}]
        /\ staged \in [Messages -> SUBSET (1..MaxRecords)]
    BY DEF Completed, Shapes, StagedShape
  <2>2. staged' \in [Messages -> SUBSET (1..MaxRecords)]
    BY <2>1
  <2>3. ASSUME NEW n \in Messages, staged'[n] # {}
        PROVE  n \in StorageMessages' /\ staged'[n] \subseteq 1..messages'[n].registered
    <3>1. n # m /\ staged'[n] = staged[n]
      BY <2>1, <2>3
    <3>2. n \in StorageMessages /\ staged[n] \subseteq 1..Registered(n)
      BY <2>3, <3>1 DEF Shapes, StagedShape
    <3>3. messages'[n] = messages[n]
      BY <3>1, <3>2 DEF StorageMessages
    <3> QED BY <3>1, <3>2, <3>3, HistoryWidens DEF Registered
  <2> QED BY <2>2, <2>3 DEF StagedShape, Registered
<1> QED BY <1>5, <1>6, <1>7

(* An inventory snapshot opens or prolongs an epoch.                        *)
LEMMA BoundaryShapes ==
  ASSUME Shapes, NEW m, Handing(m), Boundary(m), MoreHistory,
         messages'[m].registered = Registered(m) + 1, Registered(m) \in Nat,
         Registered(m) < messages[m].count, UNCHANGED Settled3, SameCalls
  PROVE  BurstsShape' /\ AnchorShape' /\ HydrationShape' /\ HydrationGrows
<1> DEFINE i == Registered(m) + 1
           e == Event(m, i, "inventory_snapshot")
           k == Key(e)
           opens == inventoryLast[k] = None \/ Time(e) - inventoryLast[k] > InventoryGap
           flushed == IF opens THEN {k} ELSE {}
<1>1. m \in 1..Len(messages) /\ History
  BY DEF Handing, Shapes, DecoderShape, History
<1>2. /\ k \in Keys /\ Time(e) \in 0..MaxTime /\ i \in 0..MaxRecords
  <2>1. k = <<messages[m].flow, messages[m].generation>> /\ Time(e) = messages[m].time
    BY DEF Key, Time, Event
  <2>2. messages[m].count \in 1..MaxRecords /\ MaxRecords \in Nat
    BY <1>1, MessageIs
  <2> QED BY <1>1, <2>1, <2>2, MessageIs DEF Keys
<1>3. e \in Known(HydrationTypes)'
  <2>1. e \in Known(HydrationTypes)
    BY <1>1, <1>2 DEF Known, Event, HydrationTypes
  <2> QED BY <2>1, HistoryWidens
<1>4. /\ bursts' = Without(flushed)
      /\ hydrationOutbox' = hydrationOutbox \o Append(Unconfirmed(flushed), e)
      /\ anchor' = IF opens THEN [anchor EXCEPT ![k] = Time(e)] ELSE anchor
      /\ inventoryLast' = [inventoryLast EXCEPT ![k] = Time(e)]
  BY DEF Boundary, ObserveInventory, HydrationQueue
<1>5. flushed \in SUBSET Keys
  BY <1>2
<1> HIDE DEF flushed, e, k, opens, i
<1>6. BurstsShape' /\ HydrationShape' /\ HydrationGrows
  BY <1>3, <1>4, <1>5, FlushAndPass
<1>7. AnchorShape'
  <2>1. anchor \in [Keys -> (0..MaxTime) \cup {None}] /\ inventoryLast \in [Keys -> (0..MaxTime) \cup {None}]
    BY DEF Shapes, AnchorShape
  <2> QED BY <1>2, <1>4, <2>1 DEF AnchorShape
<1> QED BY <1>6, <1>7

(* A record handed over keeps every shape.                                  *)
LEMMA RegisterShapes ==
  ASSUME Shapes, Positions, NEW t \in Threads, Register(t)
  PROVE  Shapes' /\ OriginGrows /\ HydrationGrows
<1> DEFINE m == Len(messages)
<1>1. /\ Handing(m) /\ messages' = [messages EXCEPT ![m].registered = Registered(m) + 1]
      /\ todo' = todo - 1 /\ pc[t] = "ready"
      /\ UNCHANGED <<clock, generation, originHand, hydrationHand, delivered>>
      /\ pc' = [pc EXCEPT ![t] = "origin"] \/ pc' = [pc EXCEPT ![t] = "hydration"]
      /\ Boundary(m) \/ Completed(m) \/ Incomplete(m)
  BY RegisterIs
<1> HIDE DEF m
<1>2. SameCalls
  BY <1>1, ReadyIsNoCall DEF Labels
<1>3. /\ MoreHistory /\ DecoderShape'
      /\ Registered(m) \in Nat /\ Registered(m) < messages[m].count
      /\ messages'[m].registered = Registered(m) + 1
      /\ \A n \in 1..Len(messages) : n # m => messages'[n] = messages[n]
  BY <1>1, RegisteringHistory
<1>4. CASE Boundary(m)
  BY <1>1, <1>2, <1>3, <1>4, BoundaryShapes, ShapesStay
     DEF Shapes, Boundary, Settled3, OriginGrows, Grows
<1>5. CASE Completed(m)
  BY <1>1, <1>2, <1>3, <1>5, RetainShapes, ShapesStay
     DEF Shapes, Completed, SameCalls, HydrationGrows, Grows
<1>6. CASE Incomplete(m)
  BY <1>1, <1>2, <1>3, <1>6, IncompleteShapes, ShapesStay
     DEF Shapes, Incomplete, SameCalls, OriginGrows, HydrationGrows, Grows
<1> QED BY <1>1, <1>4, <1>5, <1>6

(* The first element of a sequence, and the rest.                           *)
LEMMA HeadTail ==
  ASSUME NEW S, NEW s \in Seq(S), s # <<>>
  PROVE  /\ Head(s) \in S /\ Tail(s) \in Seq(S) /\ <<Head(s)>> \in Seq(S)
         /\ Len(<<Head(s)>>) = 1 /\ s = <<Head(s)>> \o Tail(s)
         /\ ToSet(s) = {Head(s)} \cup ToSet(Tail(s))
<1>1. /\ Head(s) \in S /\ Tail(s) \in Seq(S) /\ <<Head(s)>> \in Seq(S)
      /\ Len(<<Head(s)>>) = 1
  OBVIOUS
<1>2. s = <<Head(s)>> \o Tail(s)
  OBVIOUS
<1> DEFINE h == <<Head(s)>>
           r == Tail(s)
<1>3. ToSet(h) = {Head(s)}
  BY DEF ToSet
<1> HIDE DEF h, r
<1>4. ToSet(h \o r) = ToSet(h) \cup ToSet(r)
  BY <1>1, AppendedElements DEF h, r
<1> QED BY <1>1, <1>2, <1>3, <1>4 DEF h, r

(* The dispatcher of the origin tracker keeps the shapes.                   *)
LEMMA OriginDrainShapes ==
  ASSUME Shapes, Positions, NEW t \in Threads, OriginDrain(t)
  PROVE  Shapes'
<1>1. UNCHANGED <<messages, generation, clock, todo, staged, pending, bursts, anchor,
                  inventoryLast, hydrationOutbox, hydrationHand, delivered>>
  BY DEF OriginDrain, decoder, origin, hydration
<1>2. SameCalls
  <2>1. pc[t] \in {"origin", "originTake"} /\ \E to \in Labels : pc' = [pc EXCEPT ![t] = to]
                     /\ to # "hydrationCall"
    BY DEF OriginDrain, OriginYield, OriginTake, OriginDone, MayDispatchOrigin, AfterOrigin,
       Leave, Labels
  <2> QED BY <2>1, ReadyIsNoCall
<1>3. OriginShape'
  <2> DEFINE S == Known(OriginTypes)
  <2>0. /\ originOutbox \in Seq(S) /\ originHand \in [Threads -> Seq(S)]
        /\ \A u \in Threads : Len(originHand[u]) <= 1
        /\ Known(OriginTypes)' = S
    BY <1>1 DEF Shapes, OriginShape, Known, Neutral
  <2> HIDE DEF S
  <2>1. CASE UNCHANGED <<originOutbox, originHand>>
    BY <2>0, <2>1 DEF OriginShape
  <2>2. CASE OriginTake(t)
    <3> DEFINE h == <<Head(originOutbox)>>
    <3>1. h \in Seq(S) /\ Len(h) = 1 /\ Tail(originOutbox) \in Seq(S)
      BY <2>0, <2>2, HeadTail DEF OriginTake
    <3>2. originHand' = [originHand EXCEPT ![t] = h] /\ originOutbox' = Tail(originOutbox)
      BY <2>2 DEF OriginTake
    <3> HIDE DEF h
    <3>3. originHand' \in [Threads -> Seq(S)] /\ \A u \in Threads : Len(originHand'[u]) <= 1
      <4> DEFINE Q == Seq(S)
      <4>1. originHand \in [Threads -> Q] /\ h \in Q
        BY <2>0, <3>1
      <4> HIDE DEF Q
      <4>2. originHand' \in [Threads -> Q]
        BY <3>2, <4>1
      <4>3. \A u \in Threads : originHand'[u] = IF u = t THEN h ELSE originHand[u]
        BY <3>2, <4>1
      <4>4. ASSUME NEW u \in Threads PROVE Len(originHand'[u]) <= 1
        <5>1. CASE u = t
          <6>1. originHand'[u] = h /\ Len(h) = 1
            BY <3>1, <4>3, <5>1
          <6>2. Len(originHand'[u]) = 1
            BY <6>1, Zenon
          <6> QED BY <6>2
        <5>2. CASE u # t
          <6>1. originHand'[u] = originHand[u] /\ Len(originHand[u]) <= 1
            BY <2>0, <4>3, <5>2
          <6> QED BY <6>1
        <5> QED BY <5>1, <5>2
      <4> QED BY <4>2, <4>4 DEF Q
    <3> QED BY <2>0, <3>1, <3>2, <3>3 DEF OriginShape
  <2> QED BY <2>1, <2>2 DEF OriginDrain, OriginYield, OriginDone
<1>4. MoreHistory /\ DecoderShape'
  BY <1>1, StillDecoder DEF Shapes, DecoderShape
<1> QED BY <1>1, <1>2, <1>3, <1>4, ShapesStay DEF Shapes, SameCalls

(* A thread's hand is emptied.                                              *)
LEMMA ClearedHand ==
  ASSUME NEW S, NEW hand \in [Threads -> Seq(S)], NEW t \in Threads,
         \A u \in Threads : Len(hand[u]) <= 1
  PROVE  /\ [hand EXCEPT ![t] = <<>>] \in [Threads -> Seq(S)]
         /\ \A u \in Threads : [hand EXCEPT ![t] = <<>>][u] = IF u = t THEN <<>> ELSE hand[u]
         /\ \A u \in Threads : Len([hand EXCEPT ![t] = <<>>][u]) <= 1
<1> DEFINE new == [hand EXCEPT ![t] = <<>>]
           Q == Seq(S)
<1>1. <<>> \in Q /\ hand \in [Threads -> Q]
  OBVIOUS
<1>2. Len(<<>>) = 0
  OBVIOUS
<1> HIDE DEF Q
<1>3. \A u \in Threads : new[u] = IF u = t THEN <<>> ELSE hand[u]
  BY <1>1
<1>4. new \in [Threads -> Q]
  BY <1>1
<1> HIDE DEF new
<1>5. \A u \in Threads : Len(new[u]) <= 1
  <2> TAKE u \in Threads
  <2>1. CASE u = t
    <3>1. new[u] = <<>>
      BY <1>3, <2>1
    <3>2. Len(new[u]) = 0
      BY <1>2, <3>1, Zenon
    <3> QED BY <3>2
  <2>2. CASE u # t
    <3>1. new[u] = hand[u]
      BY <1>3, <2>2
    <3> QED BY <3>1
  <2> QED BY <2>1, <2>2
<1> QED BY <1>3, <1>4, <1>5 DEF new, Q

(* A callback of the origin tracker that returns keeps its shape.           *)
LEMMA HandClearedShape ==
  ASSUME Shapes, NEW t \in Threads, originHand' = [originHand EXCEPT ![t] = <<>>],
         UNCHANGED <<messages, originOutbox>>
  PROVE  OriginShape'
<1> DEFINE S == Known(OriginTypes)
<1>1. /\ originOutbox \in Seq(S) /\ originHand \in [Threads -> Seq(S)]
      /\ \A u \in Threads : Len(originHand[u]) <= 1
      /\ Known(OriginTypes)' = S
  BY DEF Shapes, OriginShape, Known, Neutral
<1> HIDE DEF S
<1>2. originHand' \in [Threads -> Seq(S)] /\ \A u \in Threads : Len(originHand'[u]) <= 1
  BY <1>1, ClearedHand
<1> QED BY <1>1, <1>2 DEF OriginShape

(* The observer returns or raises.                                          *)
LEMMA ObserverShapes ==
  ASSUME Shapes, Positions, NEW t \in Threads, Observer(t)
  PROVE  Shapes'
<1>1. /\ UNCHANGED <<messages, generation, clock, staged, pending, originOutbox, bursts, anchor,
                     inventoryLast, hydrationOutbox, hydrationHand, delivered>>
      /\ originHand' = [originHand EXCEPT ![t] = <<>>] /\ pc[t] = "originCall"
      /\ todo' \in {0, todo}
      /\ \E to \in Labels : pc' = [pc EXCEPT ![t] = to] /\ to # "hydrationCall"
  BY DEF Observer, origin, hydration, Leave, Labels
<1>2. SameCalls
  BY <1>1, ReadyIsNoCall
<1>3. OriginShape'
  BY <1>1, HandClearedShape
<1>4. MoreHistory /\ DecoderShape'
  BY <1>1, StillDecoder DEF Shapes, DecoderShape
<1> QED BY <1>1, <1>2, <1>3, <1>4, ShapesStay DEF Shapes, SameCalls

(* The event a callback of the origin tracker hands over.                  *)
LEMMA InHand ==
  ASSUME Shapes, Positions, NEW t \in Threads, pc[t] = "originCall",
         Head(originHand[t]).type # "observation"
  PROVE  LET e == Head(originHand[t]) IN
         /\ e \in Known(StorageTypes) /\ e.type \in StorageTypes
         /\ e.type = "storage_record" => e \in NeutralEvents
         /\ originHand[t] = <<e>>
<1> DEFINE S == Known(OriginTypes)
           e == Head(originHand[t])
           h == originHand[t]
<1>1. originHand[t] # <<>> /\ originHand \in [Threads -> Seq(S)] /\ Len(originHand[t]) <= 1
  BY DEF Positions, Shapes, OriginShape
<1>3. h \in Seq(S) /\ h # <<>> /\ Len(h) <= 1 /\ e = Head(h)
  BY <1>1
<1> HIDE DEF S, h, e
<1>4. Len(h) \in Nat
  BY <1>3
<1>7. Len(h) # 0
  BY <1>3
<1>8. \A n \in Nat : n <= 1 /\ n # 0 => n = 1
  OBVIOUS
<1>5. Len(h) = 1
  BY Zenon, <1>3, <1>4, <1>7, <1>8
<1>6. h = <<h[1]>> /\ h[1] \in S /\ Head(h) = h[1]
  BY <1>3, <1>5
<1>2. e \in S /\ h = <<e>>
  BY <1>3, <1>6
<1> QED BY <1>2 DEF S, h, e, Known, OriginTypes, NeutralEvents

(* _after_origin hands an event to the hydration tracker.                   *)
LEMMA AfterOriginShapes ==
  ASSUME Shapes, Positions, NEW t \in Threads, AfterOriginCall(t)
  PROVE  Shapes' /\ HydrationGrows
<1> DEFINE e == Head(originHand[t])
<1>1. /\ e \in Known(StorageTypes) /\ e.type \in StorageTypes
      /\ e.type = "storage_record" => e \in NeutralEvents
  BY InHand DEF AfterOriginCall
<1>2. /\ UNCHANGED <<messages, generation, clock, todo, staged, pending, originOutbox,
                     originHand, hydrationHand, delivered>>
      /\ pc' = [pc EXCEPT ![t] = "hydration"] /\ pc[t] = "originCall" /\ ObserveStorage(e)
  BY DEF AfterOriginCall, decoder, origin
<1> HIDE DEF e
<1>3. SameCalls
  BY <1>2, ReadyIsNoCall DEF Labels
<1>4. MoreHistory /\ DecoderShape'
  BY <1>2, StillDecoder DEF Shapes, DecoderShape
<1>5. CASE e.type = "storage_record"
  <2>1. StageNeutral(e)
    BY <1>2, <1>5 DEF ObserveStorage
  <2> QED BY <1>1, <1>2, <1>3, <1>4, <1>5, <2>1, StageNeutralShapes, ShapesStay
          DEF Shapes, Settled3
<1>6. CASE e.type # "storage_record"
  <2> DEFINE k == Key(e)
             flushed == IF bursts[k] = None \/ Time(e) >= bursts[k].first THEN {k} ELSE {}
             retired == anchor[k] = None \/ Time(e) >= anchor[k]
  <2>1. /\ bursts' = Without(flushed)
        /\ anchor' = IF retired THEN [anchor EXCEPT ![k] = None] ELSE anchor
        /\ inventoryLast' =
             IF retired THEN [inventoryLast EXCEPT ![k] = None] ELSE inventoryLast
        /\ hydrationOutbox' = hydrationOutbox \o Append(Unconfirmed(flushed), e)
    BY <1>2, <1>6 DEF ObserveStorage, PassLive, HydrationQueue
  <2>2. k \in Keys
    BY <1>1, KeyIn DEF Shapes, DecoderShape
  <2>3. flushed \in SUBSET Keys
    BY <2>2
  <2>4. e \in Known(HydrationTypes)'
    BY <1>1, <1>4, HistoryWidens DEF Known, HydrationTypes
  <2> HIDE DEF k, flushed, retired
  <2>5. BurstsShape' /\ HydrationShape' /\ HydrationGrows
    BY <1>2, <1>3, <1>4, <2>1, <2>3, <2>4, FlushAndPass DEF Settled3
  <2>6. AnchorShape'
    BY <2>1, <2>2 DEF Shapes, AnchorShape
  <2> QED BY <1>2, <1>4, <2>5, <2>6, ShapesStay DEF Shapes
<1> QED BY <1>5, <1>6

(* What the hydration tracker forgets and queues when a flow closes, a     *)
(* burst is stale, or the session ends.                                    *)
LEMMA HalfIs ==
  ASSUME Shapes, NEW t \in Threads, HydrationHalf(t)
  PROVE  \E keys \in SUBSET Keys :
           /\ bursts' = Without(keys) /\ hydrationOutbox' = hydrationOutbox \o Unconfirmed(keys)
           /\ \A k \in Keys : anchor'[k] \in {anchor[k], None}
           /\ AnchorShape'
           /\ call[t] = "finalize" => keys = Keys
<1> USE DEF Shapes, AnchorShape
<1>1. CASE call[t] = "close" /\ CloseKeys({k \in Keys : k[1] = arg[t]})
  <2> DEFINE keys == {k \in Keys : k[1] = arg[t]}
  <2>1. keys \in SUBSET Keys
    OBVIOUS
  <2>2. CloseKeys(keys)
    BY <1>1
  <2> HIDE DEF keys
  <2>3. /\ bursts' = Without(keys) /\ hydrationOutbox' = hydrationOutbox \o Unconfirmed(keys)
        /\ \A k \in Keys : anchor'[k] \in {anchor[k], None}
    BY <2>2 DEF CloseKeys, HydrationQueue
  <2>4. AnchorShape'
    BY <2>2 DEF CloseKeys
  <2>5. call[t] # "finalize"
    BY <1>1
  <2> QED BY ONLY <2>1, <2>3, <2>4, <2>5
<1>2. CASE call[t] = "flush" /\ FlushBursts(arg[t])
  <2> DEFINE now == arg[t]
             stale == {k \in Keys : bursts[k] # None /\ now - bursts[k].last > BurstGap}
             expired == {k \in Keys : anchor[k] # None /\ now - anchor[k] > Epoch}
  <2>1. /\ bursts' = Without(stale)
        /\ anchor' = [k \in Keys |-> IF k \in expired THEN None ELSE anchor[k]]
        /\ inventoryLast' =
             [k \in Keys |-> IF k \in expired THEN None ELSE inventoryLast[k]]
        /\ hydrationOutbox' = hydrationOutbox \o Unconfirmed(stale)
    BY <1>2 DEF FlushBursts, HydrationQueue
  <2>2. stale \in SUBSET Keys
    OBVIOUS
  <2> HIDE DEF stale, expired
  <2> QED BY <1>2, <2>1, <2>2
<1>3. CASE call[t] = "finalize" /\ CloseKeys(Keys)
  BY SMTT(30), <1>3 DEF CloseKeys, HydrationQueue
<1> QED BY <1>1, <1>2, <1>3 DEF HydrationHalf

(* The hydration half of closing keeps the shapes.                          *)
LEMMA HalfShapes ==
  ASSUME Shapes, Positions, NEW t \in Threads, HydrationHalf(t)
  PROVE  Shapes' /\ HydrationGrows
<1>1. /\ UNCHANGED <<messages, generation, clock, todo, staged, pending, originOutbox,
                     originHand, hydrationHand, delivered>>
      /\ pc' = [pc EXCEPT ![t] = "hydration"] /\ pc[t] = "between"
  BY DEF HydrationHalf, decoder, origin
<1>2. SameCalls
  BY <1>1, ReadyIsNoCall DEF Labels
<1>3. MoreHistory /\ DecoderShape'
  BY <1>1, StillDecoder DEF Shapes, DecoderShape
<1>4. PICK keys \in SUBSET Keys :
        /\ bursts' = Without(keys) /\ hydrationOutbox' = hydrationOutbox \o Unconfirmed(keys)
        /\ AnchorShape'
  BY HalfIs
<1>5. BurstsShape'
  BY <1>3, <1>4, WithoutShapes
<1>6. HydrationShape' /\ HydrationGrows
  <2>1. Unconfirmed(keys) \in Seq(Known(HydrationTypes)')
    BY <1>3, FlushIs, NeutralIsHydration, HistoryWidens, SeqWidens
  <2> QED BY <1>1, <1>2, <1>3, <1>4, <2>1, HydrationQueued DEF SameCalls
<1> QED BY <1>1, <1>3, <1>4, <1>5, <1>6, ShapesStay DEF Shapes

(* A thread takes something in its hand.                                    *)
LEMMA HandSet ==
  ASSUME NEW S, NEW hand \in [Threads -> Seq(S)], NEW t \in Threads, NEW h \in Seq(S)
  PROVE  /\ [hand EXCEPT ![t] = h] \in [Threads -> Seq(S)]
         /\ \A u \in Threads : [hand EXCEPT ![t] = h][u] = IF u = t THEN h ELSE hand[u]
<1> DEFINE Q == Seq(S)
<1>1. h \in Q /\ hand \in [Threads -> Q]
  OBVIOUS
<1> HIDE DEF Q
<1>2. /\ [hand EXCEPT ![t] = h] \in [Threads -> Q]
      /\ \A u \in Threads : [hand EXCEPT ![t] = h][u] = IF u = t THEN h ELSE hand[u]
  BY <1>1
<1> QED BY <1>2 DEF Q

(* A thread hands one event of the hydration tracker on, and comes back.   *)
LEMMA TakenShape ==
  ASSUME Shapes, Positions, NEW t \in Threads, hydrationOutbox # <<>>,
         hydrationHand' = [hydrationHand EXCEPT ![t] = <<Head(hydrationOutbox)>>],
         hydrationOutbox' = Tail(hydrationOutbox),
         pc' = [pc EXCEPT ![t] = "hydrationCall"], UNCHANGED <<messages, delivered>>
  PROVE  HydrationShape'
<1> DEFINE S == Known(HydrationTypes)
           h == <<Head(hydrationOutbox)>>
<1>1. /\ hydrationOutbox \in Seq(S) /\ hydrationHand \in [Threads -> Seq(S)]
      /\ \A u \in Threads :
           Len(hydrationHand[u]) = IF pc[u] = "hydrationCall" THEN 1 ELSE 0
      /\ delivered \subseteq S /\ Known(HydrationTypes)' = S
  BY DEF Shapes, HydrationShape, Known, Neutral
<1> HIDE DEF S
<1>2. h \in Seq(S) /\ Len(h) = 1 /\ Tail(hydrationOutbox) \in Seq(S)
  BY <1>1, HeadTail
<1>3. \A u \in Threads : pc'[u] = IF u = t THEN "hydrationCall" ELSE pc[u]
  BY DEF Positions
<1> HIDE DEF h
<1>4. /\ hydrationHand' \in [Threads -> Seq(S)]
      /\ \A u \in Threads : hydrationHand'[u] = IF u = t THEN h ELSE hydrationHand[u]
  <2>1. hydrationHand' = [hydrationHand EXCEPT ![t] = h]
    BY DEF h
  <2> QED BY <1>1, <1>2, <2>1, HandSet
<1>5. ASSUME NEW u \in Threads
      PROVE  Len(hydrationHand'[u]) = IF pc'[u] = "hydrationCall" THEN 1 ELSE 0
  <2>1. CASE u = t
    BY Zenon, <1>2, <1>3, <1>4, <2>1
  <2>2. CASE u # t
    BY Zenon, <1>1, <1>3, <1>4, <2>2
  <2> QED BY <2>1, <2>2
<1> QED BY <1>1, <1>2, <1>4, <1>5 DEF HydrationShape

(* A delivered event leaves the hand of its thread.                         *)
LEMMA DeliveredShape ==
  ASSUME Shapes, Positions, NEW t \in Threads, pc[t] = "hydrationCall",
         hydrationHand' = [hydrationHand EXCEPT ![t] = <<>>],
         delivered' = delivered \cup ToSet(hydrationHand[t]),
         pc' = [pc EXCEPT ![t] = "hydrationTake"], UNCHANGED <<messages, hydrationOutbox>>
  PROVE  HydrationShape'
<1> DEFINE S == Known(HydrationTypes)
           e == <<>>
           h == hydrationHand[t]
<1>1. /\ hydrationOutbox \in Seq(S) /\ hydrationHand \in [Threads -> Seq(S)]
      /\ \A u \in Threads :
           Len(hydrationHand[u]) = IF pc[u] = "hydrationCall" THEN 1 ELSE 0
      /\ delivered \subseteq S /\ Known(HydrationTypes)' = S
  BY DEF Shapes, HydrationShape, Known, Neutral
<1> HIDE DEF S
<1>2. e \in Seq(S) /\ Len(e) = 0 /\ h \in Seq(S)
  BY <1>1
<1>3. \A u \in Threads : pc'[u] = IF u = t THEN "hydrationTake" ELSE pc[u]
  BY DEF Positions
<1>a. hydrationHand' = [hydrationHand EXCEPT ![t] = e] /\ delivered' = delivered \cup ToSet(h)
  OBVIOUS
<1> HIDE DEF h, e
<1>4. /\ hydrationHand' \in [Threads -> Seq(S)]
      /\ \A u \in Threads : hydrationHand'[u] = IF u = t THEN e ELSE hydrationHand[u]
  BY <1>1, <1>2, <1>a, HandSet
<1>5. ASSUME NEW u \in Threads
      PROVE  Len(hydrationHand'[u]) = IF pc'[u] = "hydrationCall" THEN 1 ELSE 0
  <2>1. CASE u = t
    <3>1. pc'[u] # "hydrationCall"
      BY <1>3, <2>1
    <3>2. Len(hydrationHand'[u]) = 0
      BY Zenon, <1>2, <1>4, <2>1
    <3> QED BY <3>1, <3>2
  <2>2. CASE u # t
    BY Zenon, <1>1, <1>3, <1>4, <2>2
  <2> QED BY <2>1, <2>2
<1>6. delivered' \subseteq S
  <2>1. ToSet(h) \subseteq S
    BY <1>2 DEF ToSet
  <2> QED BY <1>1, <1>a, <2>1
<1> QED BY <1>1, <1>4, <1>5, <1>6 DEF HydrationShape

(* The dispatcher of the hydration tracker keeps the shapes.                *)
LEMMA HydrationDrainShapes ==
  ASSUME Shapes, Positions, NEW t \in Threads, HydrationDrain(t)
  PROVE  Shapes'
<1>1. UNCHANGED <<messages, generation, clock, todo, staged, pending, originOutbox, bursts,
                  anchor, inventoryLast, delivered>>
  BY DEF HydrationDrain, decoder, origin, hydration
<1>2. MoreHistory /\ DecoderShape'
  BY <1>1, StillDecoder DEF Shapes, DecoderShape
<1>3. CASE HydrationTake(t)
  <2>1. /\ hydrationOutbox # <<>> /\ hydrationOutbox' = Tail(hydrationOutbox)
        /\ hydrationHand' = [hydrationHand EXCEPT ![t] = <<Head(hydrationOutbox)>>]
        /\ pc' = [pc EXCEPT ![t] = "hydrationCall"] /\ UNCHANGED originHand
    BY <1>3 DEF HydrationTake
  <2>2. HydrationShape'
    BY <1>1, <2>1, TakenShape
  <2> QED BY <1>1, <1>2, <2>1, <2>2, ShapesStay DEF Shapes
<1>4. CASE HydrationYield(t) \/ HydrationDone(t)
  <2>1. /\ UNCHANGED <<hydrationOutbox, hydrationHand>>
        /\ originHand' = [originHand EXCEPT ![t] = <<>>]
        /\ pc[t] \in {"hydration", "hydrationTake"}
        /\ \E to \in Labels : pc' = [pc EXCEPT ![t] = to] /\ to # "hydrationCall"
    BY <1>4 DEF HydrationYield, HydrationDone, AfterHydration, MayDispatchHydration, Leave, Labels
  <2>2. SameCalls
    BY <2>1, ReadyIsNoCall
  <2>3. OriginShape'
    BY <1>1, <2>1, HandClearedShape
  <2> QED BY <1>1, <1>2, <2>1, <2>2, <2>3, ShapesStay DEF Shapes, SameCalls
<1> QED BY <1>3, <1>4 DEF HydrationDrain

(* So does a delivery.                                                      *)
LEMMA DeliverShapes ==
  ASSUME Shapes, Positions, NEW t \in Threads, Deliver(t)
  PROVE  Shapes'
<1>1. UNCHANGED <<messages, generation, clock, todo, staged, pending, originOutbox, originHand,
                  bursts, anchor, inventoryLast, hydrationOutbox>>
  BY DEF Deliver, decoder, origin, hydration
<1>2. MoreHistory /\ DecoderShape'
  BY <1>1, StillDecoder DEF Shapes, DecoderShape
<1>3. HydrationShape'
  BY <1>1, DeliveredShape DEF Deliver
<1> QED BY <1>1, <1>2, <1>3, ShapesStay DEF Shapes

(* Initially nothing is decoded, queued or held.                            *)
LEMMA InitShapes == Init => Shapes
<1> SUFFICES ASSUME Init PROVE Shapes
  OBVIOUS
<1>1. /\ messages = <<>> /\ Len(messages) = 0 /\ clock = 0 /\ todo = 0
      /\ generation \in [Flows -> {0}] /\ staged \in [Messages -> {{}}]
      /\ staged = [m \in Messages |-> {}]
      /\ pending = <<>> /\ originOutbox = <<>> /\ hydrationOutbox = <<>>
      /\ originHand = [t \in Threads |-> <<>>] /\ hydrationHand = [t \in Threads |-> <<>>]
      /\ pc = [t \in Threads |-> "ready"] /\ delivered = {}
      /\ anchor = [k \in Keys |-> None] /\ inventoryLast = [k \in Keys |-> None]
      /\ bursts = [k \in Keys |-> None]
  BY DEF Init
<1>2. MaxTime \in Nat /\ MaxCloses \in Nat /\ MaxRecords \in Nat
  BY CollectorConstants, ConstantLimits
<1>3. DecoderShape
  BY <1>1, <1>2 DEF DecoderShape, History
<1>4. StagedShape
  BY <1>1, <1>2 DEF StagedShape
<1>5. PendingShape
  BY <1>1 DEF PendingShape, ToSet, Inj
<1>6. OriginShape
  <2> DEFINE e == <<>>
             S == Known(OriginTypes)
             Q == Seq(S)
  <2>1. originOutbox = e /\ originHand = [t \in Threads |-> e] /\ e \in Q /\ Len(e) = 0
    BY <1>1
  <2> HIDE DEF e, Q
  <2>2. /\ originOutbox \in Q /\ originHand \in [Threads -> Q]
        /\ \A t \in Threads : originHand[t] = e
    BY <2>1
  <2>3. \A t \in Threads : Len(originHand[t]) = 0
    BY <2>1, <2>2, Zenon
  <2> QED BY <2>2, <2>3 DEF OriginShape, Q
<1>7. BurstsShape
  BY <1>1 DEF BurstsShape
<1>8. AnchorShape
  BY <1>1 DEF AnchorShape
<1>9. HydrationShape
  <2> DEFINE e == <<>>
             S == Known(HydrationTypes)
             Q == Seq(S)
  <2>1. hydrationOutbox = e /\ hydrationHand = [t \in Threads |-> e] /\ e \in Q /\ Len(e) = 0
    BY <1>1
  <2> HIDE DEF e, Q
  <2>2. /\ hydrationOutbox \in Q /\ hydrationHand \in [Threads -> Q]
        /\ \A t \in Threads : hydrationHand[t] = e /\ pc[t] # "hydrationCall"
    BY <1>1, <2>1
  <2>3. \A t \in Threads : Len(hydrationHand[t]) = 0 /\ pc[t] # "hydrationCall"
    BY <2>1, <2>2, Zenon
  <2> QED BY <1>1, <2>2, <2>3 DEF HydrationShape, Q
<1> QED BY <1>3, <1>4, <1>5, <1>6, <1>7, <1>8, <1>9 DEF Shapes

(* Observing keeps every shape.                                             *)
LEMMA ObservingShapes ==
  ASSUME Shapes, Positions, NEW t \in Threads, Observe(t)
  PROVE  Shapes' /\ OriginGrows
<1>1. /\ UNCHANGED <<messages, generation, clock, todo, staged, originHand, bursts, anchor,
                     inventoryLast, hydrationOutbox, hydrationHand, delivered>>
      /\ pc' = [pc EXCEPT ![t] = "origin"] /\ pc[t] = "ready"
  BY DEF Observe, Enter, Decodes, decoder, hydration
<1>2. SameCalls
  BY <1>1, ReadyIsNoCall DEF Labels
<1>3. MoreHistory /\ DecoderShape'
  BY <1>1, StillDecoder DEF Shapes, DecoderShape
<1> QED BY <1>1, <1>2, <1>3, ObserveShapes, ShapesStay DEF Shapes, SameCalls

(* A flow closes, poll() flushes, or the stop finalizes.                   *)
LEMMA Closing ==
  ASSUME Shapes, Positions,
         FlushStale \/ Finalize \/ \E t \in Threads : CloseFlow(t)
  PROVE  \E batches, closing : ClosePending(batches, closing) /\ Shapes' /\ OriginGrows
<1>1. ASSUME NEW t \in Threads, NEW batches, NEW closing, ClosePending(batches, closing),
             UNCHANGED <<clock, messages, todo, originHand, hydration, hydrationOutbox,
                         hydrationHand, delivered>>,
             generation' \in [Flows -> 0..MaxCloses],
             pc[t] = "ready", pc' = [pc EXCEPT ![t] = "origin"]
      PROVE  Shapes' /\ OriginGrows
  <2>1. SameCalls
    BY <1>1, ReadyIsNoCall DEF Labels
  <2> QED BY <1>1, <2>1, ClosingShapes DEF hydration
<1>2. generation \in [Flows -> 0..MaxCloses] /\ MaxCloses \in Nat
  BY CollectorConstants DEF Shapes, DecoderShape
<1>3. CASE FlushStale
  <2>1. PICK batches, closing : ClosePending(batches, closing)
    BY <1>3 DEF FlushStale
  <2>2. /\ UNCHANGED <<clock, messages, todo, originHand, hydration, hydrationOutbox,
                       hydrationHand, delivered, generation>>
        /\ pc["consumer"] = "ready" /\ pc' = [pc EXCEPT !["consumer"] = "origin"]
        /\ "consumer" \in Threads
    BY <1>3 DEF FlushStale, Enter, decoder, Threads
  <2>3. Shapes' /\ OriginGrows
    BY <1>1, <1>2, <2>1, <2>2
  <2> QED BY <2>1, <2>3
<1>4. CASE Finalize
  <2>1. PICK batches, closing : ClosePending(batches, closing)
    BY <1>4 DEF Finalize
  <2>2. /\ UNCHANGED <<clock, messages, todo, originHand, hydration, hydrationOutbox,
                       hydrationHand, delivered, generation>>
        /\ pc["stopper"] = "ready" /\ pc' = [pc EXCEPT !["stopper"] = "origin"]
        /\ "stopper" \in Threads
    BY <1>4 DEF Finalize, Enter, decoder, Threads
  <2>3. Shapes' /\ OriginGrows
    BY <1>1, <1>2, <2>1, <2>2
  <2> QED BY <2>1, <2>3
<1>5. ASSUME NEW t \in Threads, CloseFlow(t)
      PROVE  \E batches, closing : ClosePending(batches, closing) /\ Shapes' /\ OriginGrows
  <2>1. PICK f \in Flows :
          /\ t = "worker" => generation[f] < MaxCloses
          /\ t = "stopper" \/ t = "worker"
          /\ ClosePending(MessagesOf(f), PendingOf(f))
          /\ generation' = [generation EXCEPT ![f] = IF t = "stopper" THEN @ ELSE @ + 1]
    BY <1>5 DEF CloseFlow
  <2>2. /\ UNCHANGED <<clock, messages, todo, originHand, hydration, hydrationOutbox,
                       hydrationHand, delivered>>
        /\ pc[t] = "ready" /\ pc' = [pc EXCEPT ![t] = "origin"]
    BY <1>5 DEF CloseFlow, Enter, Decodes
  <2>3. generation' \in [Flows -> 0..MaxCloses]
    BY <1>2, <2>1
  <2>4. Shapes' /\ OriginGrows
    BY <1>1, <2>1, <2>2, <2>3
  <2> QED BY <2>1, <2>4
<1> QED BY <1>3, <1>4, <1>5

(* Every action keeps the shapes.                                           *)
LEMMA StepShapes == IInv /\ Shapes /\ [Next]_vars => Shapes'
<1> SUFFICES ASSUME IInv, Shapes, [Next]_vars PROVE Shapes'
  OBVIOUS
<1>0. Positions /\ clock \in 0..MaxTime /\ MaxTime \in Nat
  BY CollectorConstants DEF IInv, Shapes, DecoderShape
<1>1. CASE UNCHANGED vars \/ FlushSkipped
  <2>1. UNCHANGED <<messages, generation, staged, pending, originOutbox, originHand, bursts,
                    anchor, inventoryLast, hydrationOutbox, hydrationHand, delivered, clock,
                    todo, pc>>
    BY <1>1 DEF FlushSkipped, vars, decoder, origin, hydration, threads
  <2> QED BY <1>0, <2>1, QuietShapes DEF SameCalls
<1>2. CASE Tick
  <2>1. UNCHANGED <<messages, generation, staged, pending, originOutbox, originHand, bursts,
                    anchor, inventoryLast, hydrationOutbox, hydrationHand, delivered, todo, pc>>
    BY <1>2 DEF Tick, origin, hydration, threads
  <2>2. clock' \in 0..MaxTime
    BY <1>0, <1>2 DEF Tick
  <2> QED BY <1>0, <2>1, <2>2, QuietShapes DEF SameCalls
<1>3. CASE WorkerEnds
  <2>1. UNCHANGED <<messages, generation, staged, pending, originOutbox, originHand, bursts,
                    anchor, inventoryLast, hydrationOutbox, hydrationHand, delivered, clock,
                    todo>>
    BY <1>3 DEF WorkerEnds, decoder, origin, hydration
  <2>2. SameCalls
    BY <1>0, <1>3, ReadyIsNoCall DEF WorkerEnds, Labels, Threads
  <2> QED BY <1>0, <2>1, <2>2, QuietShapes
<1>4. CASE Stopped
  <2>1. UNCHANGED <<messages, generation, staged, pending, originOutbox, originHand, bursts,
                    anchor, inventoryLast, hydrationOutbox, hydrationHand, delivered, clock,
                    todo, pc>>
    BY <1>4 DEF Stopped, decoder, origin, hydration, threads
  <2> QED BY <1>0, <2>1, QuietShapes DEF SameCalls
<1>5. CASE FlushStale \/ Finalize \/ \E t \in Threads : CloseFlow(t)
  BY <1>0, <1>5, Closing
<1>6. ASSUME NEW t \in Threads, Step(t) \/ Decode(t) \/ Observe(t)
      PROVE  Shapes'
  BY <1>0, <1>6, RegisterShapes, OriginDrainShapes, ObserverShapes, AfterOriginShapes,
     HalfShapes, HydrationDrainShapes, DeliverShapes, DecodeShapes, ObservingShapes DEF Step
<1> QED BY <1>1, <1>2, <1>3, <1>4, <1>5, <1>6 DEF Next

InOrderSteps ==
  /\ OriginDispatch!Next \/ UNCHANGED OriginDispatch!vars
  /\ HydrationDispatch!Next \/ UNCHANGED HydrationDispatch!vars

(* Both outboxes start empty, and no callback runs.                         *)
LEMMA InitOrder == Init => OriginDispatch!Init /\ HydrationDispatch!Init
  BY DEF Init, OriginDispatch!Init, HydrationDispatch!Init, HandsOf, ToSet

(* A step that only queues is a mutation, or a stutter, of OrderedDispatch  *)
(* for the origin tracker,                                                  *)
LEMMA OriginQuiet ==
  ASSUME OriginGrows, UNCHANGED originHand
  PROVE  OriginDispatch!Next \/ UNCHANGED OriginDispatch!vars
<1>1. UNCHANGED HandsOf(originHand, Threads)
  BY DEF HandsOf
<1> QED BY <1>1 DEF OriginGrows, Grows, OriginDispatch!Next, OriginDispatch!Mutate,
           OriginDispatch!vars, IsStrictPrefix, IsPrefix, OriginDispatch!IsStrictPrefix,
           OriginDispatch!IsPrefix

(* ... and for the hydration tracker.                                       *)
LEMMA HydrationQuiet ==
  ASSUME HydrationGrows, UNCHANGED hydrationHand
  PROVE  HydrationDispatch!Next \/ UNCHANGED HydrationDispatch!vars
<1>1. UNCHANGED HandsOf(hydrationHand, Threads)
  BY DEF HandsOf
<1> QED BY <1>1 DEF HydrationGrows, Grows, HydrationDispatch!Next, HydrationDispatch!Mutate,
           HydrationDispatch!vars, IsStrictPrefix, IsPrefix, HydrationDispatch!IsStrictPrefix,
           HydrationDispatch!IsPrefix

(* What the threads have in hand when only t may have something.           *)
LEMMA OneHand ==
  ASSUME NEW hand, DOMAIN hand = Threads, NEW t \in Threads,
         \A u \in Threads : u # t => hand[u] = <<>>
  PROVE  HandsOf(hand, Threads) = ToSet(hand[t])
<1>1. ToSet(<<>>) = {}
  BY DEF ToSet
<1> QED BY <1>1 DEF HandsOf

(* Only the dispatcher of the origin tracker has a callback in hand,        *)
LEMMA OriginHands ==
  ASSUME IInv, Shapes, NEW t \in Threads, RunsOrigin(t) \/ ~originBusy
  PROVE  \A u \in Threads : u # t => originHand[u] = <<>>
  BY DEF IInv, Handover, OneDispatcher, RunsOrigin

(* ... and only that of the hydration tracker has one of its own.           *)
LEMMA HydrationHands ==
  ASSUME IInv, Shapes, NEW t \in Threads, RunsHydration(t) \/ ~hydrationBusy
  PROVE  \A u \in Threads : u # t => hydrationHand[u] = <<>>
<1>1. \A u \in Threads : u # t => pc[u] # "hydrationCall"
  BY DEF IInv, Handover, OneDispatcher, RunsHydration
<1>2. \A u \in Threads : /\ hydrationHand[u] \in Seq(Known(HydrationTypes))
                         /\ Len(hydrationHand[u]) = IF pc[u] = "hydrationCall" THEN 1 ELSE 0
  BY DEF Shapes, HydrationShape
<1>3. ASSUME NEW u \in Threads, u # t PROVE hydrationHand[u] = <<>>
  <2> DEFINE h == hydrationHand[u]
             S == Known(HydrationTypes)
  <2>1. Len(h) = 0 /\ h \in Seq(S)
    BY <1>1, <1>2, <1>3
  <2> HIDE DEF h, S
  <2>2. h = <<>>
    BY <2>1
  <2> QED BY <2>2 DEF h
<1> QED BY <1>3

(* The dispatcher of the origin tracker takes the first callback.          *)
LEMMA OriginTakes ==
  ASSUME IInv, Shapes, NEW t \in Threads, OriginTake(t)
  PROVE  OriginDispatch!Dispatch
<1> DEFINE h == <<Head(originOutbox)>>
           S == Known(OriginTypes)
           hand == originHand'
<1>1. /\ originOutbox # <<>> /\ originOutbox' = Tail(originOutbox)
      /\ originHand' = [originHand EXCEPT ![t] = h]
  BY DEF OriginTake
<1>2. (RunsOrigin(t) \/ ~originBusy) /\ originHand[t] = <<>>
  BY DEF OriginTake, MayDispatchOrigin, RunsOrigin, IInv, Positions
<1>3. \A u \in Threads : originHand[u] = <<>>
  BY <1>2, OriginHands
<1>4. DOMAIN originHand = Threads
  BY DEF Shapes, OriginShape
<1>5. HandsOf(originHand, Threads) = {}
  <2>1. ToSet(<<>>) = {}
    BY DEF ToSet
  <2> QED BY <1>3, <2>1 DEF HandsOf
<1>6. ToSet(h) = {Head(originOutbox)}
  BY DEF ToSet
<1> HIDE DEF h
<1>7. /\ DOMAIN originHand' = Threads /\ originHand'[t] = h
      /\ \A u \in Threads : u # t => originHand'[u] = <<>>
  BY <1>1, <1>3, <1>4
<1>8. HandsOf(originHand', Threads) = {Head(originOutbox)}
  <2>1. HandsOf(hand, Threads) = ToSet(hand[t])
    <3> HIDE DEF hand
    <3> QED BY <1>7, OneHand DEF hand
  <2> QED BY <1>6, <1>7, <2>1
<1>9. HandsOf(originHand, Threads)' = HandsOf(originHand', Threads)
  BY DEF HandsOf, Threads
<1> QED BY <1>1, <1>5, <1>8, <1>9 DEF OriginDispatch!Dispatch

(* ... and a thread comes back from it.                                    *)
LEMMA OriginReturns ==
  ASSUME IInv, Shapes, NEW t \in Threads, originHand' = [originHand EXCEPT ![t] = <<>>],
         UNCHANGED originOutbox
  PROVE  OriginDispatch!Next \/ UNCHANGED OriginDispatch!vars
<1> DEFINE e == <<>>
<1>0. ToSet(e) = {} /\ originHand' = [originHand EXCEPT ![t] = e]
  BY DEF ToSet
<1>1. DOMAIN originHand = Threads /\ originHand = [u \in Threads |-> originHand[u]]
  BY DEF Shapes, OriginShape, IInv, Positions
<1> HIDE DEF e
<1>2. CASE originHand[t] = e
  <2>1. originHand' = originHand
    BY <1>0, <1>1, <1>2
  <2> QED BY <2>1, OriginQuiet DEF OriginGrows, Grows
<1>3. CASE originHand[t] # e
  <2>1. RunsOrigin(t) /\ \A u \in Threads : u # t => originHand[u] = e
    BY <1>3, OriginHands DEF RunsOrigin, e
  <2>2. \A u \in Threads : originHand'[u] = e
    BY <1>0, <1>1, <2>1
  <2>3. HandsOf(originHand, Threads)' = {}
    BY <1>0, <2>2 DEF HandsOf
  <2>4. HandsOf(originHand, Threads) # {}
    <3> DEFINE S == Known(OriginTypes)
               h == originHand[t]
    <3>1. h \in Seq(S) /\ h # <<>>
      BY <1>3 DEF Shapes, OriginShape, e
    <3> HIDE DEF S, h
    <3>2. 1 \in DOMAIN h
      BY <3>1
    <3>3. ToSet(h) # {}
      BY <3>2 DEF ToSet
    <3>4. \E u \in Threads : ToSet(originHand[u]) # {}
      BY <3>3 DEF h
    <3> QED BY <3>4 DEF HandsOf
  <2> QED BY <2>3, <2>4 DEF OriginDispatch!Next, OriginDispatch!Return
<1> QED BY <1>2, <1>3

(* The same of the hydration tracker.                                      *)
LEMMA HydrationTakes ==
  ASSUME IInv, Shapes, NEW t \in Threads, HydrationTake(t)
  PROVE  HydrationDispatch!Dispatch
<1> DEFINE h == <<Head(hydrationOutbox)>>
           hand == hydrationHand'
<1>1. /\ hydrationOutbox # <<>> /\ hydrationOutbox' = Tail(hydrationOutbox)
      /\ hydrationHand' = [hydrationHand EXCEPT ![t] = h]
  BY DEF HydrationTake
<1>2. (RunsHydration(t) \/ ~hydrationBusy) /\ pc[t] # "hydrationCall"
  BY DEF HydrationTake, MayDispatchHydration, RunsHydration
<1>3. \A u \in Threads : hydrationHand[u] = <<>>
  <2>1. \A u \in Threads : u # t => hydrationHand[u] = <<>>
    BY <1>2, HydrationHands
  <2>2. hydrationHand[t] = <<>>
    <3> DEFINE g == hydrationHand[t]
               S == Known(HydrationTypes)
    <3>1. Len(g) = 0 /\ g \in Seq(S)
      BY <1>2 DEF Shapes, HydrationShape
    <3> HIDE DEF g, S
    <3>2. g = <<>>
      BY <3>1
    <3> QED BY <3>2 DEF g
  <2> QED BY <2>1, <2>2
<1>4. DOMAIN hydrationHand = Threads
  BY DEF Shapes, HydrationShape
<1>5. HandsOf(hydrationHand, Threads) = {}
  <2>1. ToSet(<<>>) = {}
    BY DEF ToSet
  <2> QED BY <1>3, <2>1 DEF HandsOf
<1>6. ToSet(h) = {Head(hydrationOutbox)}
  BY DEF ToSet
<1> HIDE DEF h
<1>7. /\ DOMAIN hydrationHand' = Threads /\ hydrationHand'[t] = h
      /\ \A u \in Threads : u # t => hydrationHand'[u] = <<>>
  BY <1>1, <1>3, <1>4
<1>8. HandsOf(hydrationHand', Threads) = {Head(hydrationOutbox)}
  <2>1. HandsOf(hand, Threads) = ToSet(hand[t])
    <3> HIDE DEF hand
    <3> QED BY <1>7, OneHand DEF hand
  <2> QED BY <1>6, <1>7, <2>1
<1>9. HandsOf(hydrationHand, Threads)' = HandsOf(hydrationHand', Threads)
  BY DEF HandsOf, Threads
<1> QED BY <1>1, <1>5, <1>8, <1>9 DEF HydrationDispatch!Dispatch

(* A delivery is the return of the callback.                                *)
LEMMA HydrationReturns ==
  ASSUME IInv, Shapes, NEW t \in Threads, Deliver(t)
  PROVE  HydrationDispatch!Return
<1> DEFINE e == <<>>
           h == hydrationHand[t]
           S == Known(HydrationTypes)
<1>0. ToSet(e) = {} /\ hydrationHand' = [hydrationHand EXCEPT ![t] = e]
      /\ UNCHANGED hydrationOutbox /\ pc[t] = "hydrationCall"
  BY DEF ToSet, Deliver
<1>1. DOMAIN hydrationHand = Threads /\ h \in Seq(S) /\ Len(h) = 1
  BY <1>0 DEF Shapes, HydrationShape
<1>2. \A u \in Threads : u # t => hydrationHand[u] = e
  BY <1>0, HydrationHands DEF RunsHydration
<1> HIDE DEF e, h, S
<1>3. \A u \in Threads : hydrationHand'[u] = e
  BY <1>0, <1>1, <1>2
<1>4. HandsOf(hydrationHand, Threads)' = {}
  BY <1>0, <1>3 DEF HandsOf
<1>5. HandsOf(hydrationHand, Threads) # {}
  <2>1. 1 \in DOMAIN h
    BY <1>1
  <2>2. ToSet(h) # {}
    BY <2>1 DEF ToSet
  <2>3. \E u \in Threads : ToSet(hydrationHand[u]) # {}
    BY <2>2 DEF h
  <2> QED BY <2>3 DEF HandsOf
<1> QED BY <1>0, <1>4, <1>5 DEF HydrationDispatch!Return

(* An outbox that is left alone has not shrunk.                             *)
LEMMA OriginStays ==
  ASSUME UNCHANGED originOutbox
  PROVE  OriginGrows
  BY DEF OriginGrows, Grows

(* The same of the other.                                                   *)
LEMMA HydrationStays ==
  ASSUME UNCHANGED hydrationOutbox
  PROVE  HydrationGrows
  BY DEF HydrationGrows, Grows

(* Every action is a step of OrderedDispatch, or a stutter, of each         *)
(* tracker.                                                                 *)
LEMMA StepOrder == IInv /\ Shapes /\ [Next]_vars => InOrderSteps
<1> SUFFICES ASSUME IInv, Shapes, [Next]_vars PROVE InOrderSteps
  OBVIOUS
<1>0. Positions
  BY DEF IInv
<1>a. ASSUME OriginGrows, HydrationGrows, UNCHANGED <<originHand, hydrationHand>>
      PROVE  InOrderSteps
  BY <1>a, OriginQuiet, HydrationQuiet DEF InOrderSteps
<1>1. CASE UNCHANGED vars \/ FlushSkipped \/ Tick \/ WorkerEnds \/ Stopped
  <2>1. UNCHANGED <<originOutbox, hydrationOutbox, originHand, hydrationHand>>
    BY <1>1 DEF FlushSkipped, vars, Tick, WorkerEnds, Stopped
  <2> QED BY <1>a, <2>1, OriginStays, HydrationStays
<1>2. CASE FlushStale \/ Finalize \/ \E t \in Threads : CloseFlow(t)
  <2>1. UNCHANGED <<hydrationOutbox, originHand, hydrationHand>>
    BY <1>2 DEF FlushStale, Finalize, CloseFlow
  <2> QED BY <1>0, <1>2, <1>a, <2>1, Closing, HydrationStays
<1>3. ASSUME NEW t \in Threads, Decode(t) PROVE InOrderSteps
  BY <1>3, <1>a, OriginStays, HydrationStays DEF Decode
<1>4. ASSUME NEW t \in Threads, Observe(t) PROVE InOrderSteps
  <2>1. UNCHANGED <<hydrationOutbox, originHand, hydrationHand>>
    BY <1>4 DEF Observe
  <2> QED BY <1>0, <1>4, <1>a, <2>1, ObservingShapes, HydrationStays
<1>5. ASSUME NEW t \in Threads, Register(t) PROVE InOrderSteps
  BY <1>0, <1>5, <1>a, RegisterShapes, RegisterIs
<1>6. ASSUME NEW t \in Threads, AfterOriginCall(t) \/ HydrationHalf(t) PROVE InOrderSteps
  <2>1. UNCHANGED <<originOutbox, originHand, hydrationHand>>
    BY <1>6 DEF AfterOriginCall, HydrationHalf
  <2> QED BY <1>0, <1>6, <1>a, <2>1, AfterOriginShapes, HalfShapes, OriginStays
<1>7. ASSUME NEW t \in Threads, OriginDrain(t) PROVE InOrderSteps
  <2>1. HydrationDispatch!Next \/ UNCHANGED HydrationDispatch!vars
    BY <1>7, HydrationQuiet, HydrationStays DEF OriginDrain
  <2>2. CASE OriginTake(t)
    BY <2>1, <2>2, OriginTakes DEF InOrderSteps, OriginDispatch!Next
  <2>3. CASE UNCHANGED <<originOutbox, originHand>>
    BY <2>1, <2>3, OriginQuiet, OriginStays DEF InOrderSteps
  <2> QED BY <1>7, <2>2, <2>3 DEF OriginDrain, OriginYield, OriginDone
<1>8. ASSUME NEW t \in Threads, Observer(t) PROVE InOrderSteps
  <2>1. HydrationDispatch!Next \/ UNCHANGED HydrationDispatch!vars
    BY <1>8, HydrationQuiet, HydrationStays DEF Observer
  <2> QED BY <1>8, <2>1, OriginReturns DEF Observer, InOrderSteps
<1>9. ASSUME NEW t \in Threads, HydrationDrain(t) PROVE InOrderSteps
  <2>0. UNCHANGED originOutbox
    BY <1>9 DEF HydrationDrain
  <2>1. CASE HydrationTake(t)
    <3>1. UNCHANGED originHand
      BY <2>1 DEF HydrationTake
    <3> QED BY <2>0, <2>1, <3>1, HydrationTakes, OriginQuiet, OriginStays
            DEF InOrderSteps, HydrationDispatch!Next
  <2>2. CASE HydrationYield(t) \/ HydrationDone(t)
    <3>1. /\ originHand' = [originHand EXCEPT ![t] = <<>>]
          /\ UNCHANGED <<hydrationOutbox, hydrationHand>>
      BY <2>2 DEF HydrationYield, HydrationDone, AfterHydration
    <3> QED BY <2>0, <3>1, OriginReturns, HydrationQuiet, HydrationStays DEF InOrderSteps
  <2> QED BY <1>9, <2>1, <2>2 DEF HydrationDrain
<1>10. ASSUME NEW t \in Threads, Deliver(t) PROVE InOrderSteps
  <2>1. UNCHANGED <<originOutbox, originHand>>
    BY <1>10 DEF Deliver
  <2> QED BY <1>10, <2>1, HydrationReturns, OriginQuiet, OriginStays
          DEF InOrderSteps, HydrationDispatch!Next
<1> QED BY <1>1, <1>2, <1>3, <1>4, <1>5, <1>6, <1>7, <1>8, <1>9, <1>10 DEF Next, Step

(* The places of Conserved, by name.                                       *)
InStaged == {x \in Messages \X (1..MaxRecords) : x[2] \in staged[x[1]]}
InPending == UNION {{p.message} \X (1..messages[p.message].count) : p \in ToSet(pending)}
InOriginQueue == RecordsIn(ToSet(originOutbox))
InOriginHand == RecordsIn(HandsOf(originHand, Calling))
InBurst(k) == RecordsIn(ToSet(BurstEvents(k)))
InBursts == UNION {InBurst(k) : k \in Keys}
InHydrationQueue == RecordsIn(ToSet(hydrationOutbox))
InHydrationHand == RecordsIn(HandsOf(hydrationHand, Threads))
InDelivered == RecordsIn(delivered)
Spot == [i \in 1..8 |-> Places[i]]

SpotFact ==
  /\ Spot = [i \in 1..8 |-> Spot[i]]
  /\ Spot[1] = InStaged /\ Spot[2] = InPending /\ Spot[3] = InOriginQueue
  /\ Spot[4] = InOriginHand /\ Spot[5] = InBursts /\ Spot[6] = InHydrationQueue
  /\ Spot[7] = InHydrationHand /\ Spot[8] = InDelivered
  /\ Parted(Accepted, Places) <=> Parted(Accepted, Spot)

(* Conserved speaks of the same eight places.                               *)
LEMMA SpotIs == SpotFact
<1>1. InBursts = UNION {RecordsIn(ToSet(b.events)) : b \in Bursts}
  <2>1. \A k \in Keys : bursts[k] = None => InBurst(k) = {}
    BY DEF InBurst, BurstEvents, RecordsIn, ToSet
  <2>2. \A k \in Keys : bursts[k] # None => InBurst(k) = RecordsIn(ToSet(bursts[k].events))
    BY DEF InBurst, BurstEvents
  <2>3. \A x : x \in InBursts <=> \E k \in Keys : bursts[k] # None /\ x \in InBurst(k)
    BY <2>1 DEF InBursts
  <2>4. \A x : x \in InBursts <=>
               \E k \in Keys : bursts[k] # None /\ x \in RecordsIn(ToSet(bursts[k].events))
    BY <2>2, <2>3
  <2>5. \A x : x \in UNION {RecordsIn(ToSet(b.events)) : b \in Bursts} <=>
               \E k \in Keys : bursts[k] # None /\ x \in RecordsIn(ToSet(bursts[k].events))
    BY DEF Bursts
  <2> QED BY <2>4, <2>5
<1>2. \A i \in 1..8 : Spot[i] = Places[i]
  BY DEF Spot
<1>3. Parted(Accepted, Places) <=> Parted(Accepted, Spot)
  BY <1>2 DEF Parted
<1>4. Spot = [i \in 1..8 |-> Spot[i]]
  BY <1>2 DEF Spot
<1>5. /\ Places[1] = InStaged /\ Places[2] = InPending /\ Places[3] = InOriginQueue
      /\ Places[4] = InOriginHand /\ Places[5] = InBursts /\ Places[6] = InHydrationQueue
      /\ Places[7] = InHydrationHand /\ Places[8] = InDelivered
  <2> DEFINE x5 == UNION {RecordsIn(ToSet(b.events)) : b \in Bursts}
  <2>1. Places = <<InStaged, InPending, InOriginQueue, InOriginHand, x5, InHydrationQueue,
                   InHydrationHand, InDelivered>>
    BY DEF Places, InStaged, InPending, InOriginQueue, InOriginHand, InHydrationQueue,
       InHydrationHand, InDelivered
  <2>2. x5 = InBursts
    BY <1>1
  <2> HIDE DEF x5
  <2> QED BY <2>1, <2>2
<1> QED BY <1>2, <1>3, <1>4, <1>5 DEF SpotFact

(* ... in the next state too.                                               *)
LEMMA SpotIsThen == SpotFact'
  BY SpotIs, PTL

(* Records move from a place to another, or arrive at one.                 *)
Move(P, i, j, X) == [P EXCEPT ![i] = P[i] \ X, ![j] = P[j] \cup X]
Arrive(P, j, X) == [l \in 1..8 |-> IF l = j THEN P[j] \cup X ELSE P[l]]

(* A move from a place to another keeps the records parted,                 *)
LEMMA MoveIs ==
  ASSUME NEW P, P = [l \in 1..8 |-> P[l]], NEW i \in 1..8, NEW j \in 1..8, i # j, NEW X,
         X \subseteq P[i], NEW A, Parted(A, P)
  PROVE  /\ Parted(A, Move(P, i, j, X))
         /\ Move(P, i, j, X) = [l \in 1..8 |-> Move(P, i, j, X)[l]]
         /\ \A l \in 1..8 : Move(P, i, j, X)[l] =
               IF l = i THEN P[i] \ X ELSE IF l = j THEN P[j] \cup X ELSE P[l]
<1> DEFINE Q == Move(P, i, j, X)
<1>1. Q = [l \in 1..8 |-> IF l = i THEN P[i] \ X ELSE IF l = j THEN P[j] \cup X ELSE P[l]]
  BY DEF Move
<1> HIDE DEF Q
<1>2. \A l \in 1..8 : Q[l] = IF l = i THEN P[i] \ X ELSE IF l = j THEN P[j] \cup X ELSE P[l]
  BY <1>1
<1>3. UNION {Q[l] : l \in 1..8} = A
  <2>1. \A x : (\E l \in 1..8 : x \in Q[l]) <=> (\E l \in 1..8 : x \in P[l])
    BY <1>2
  <2> QED BY <2>1 DEF Parted
<1>4. \A l, n \in 1..8 : l # n => Q[l] \cap Q[n] = {}
  <2>1. \A l, n \in 1..8 : \A x : l # n /\ x \in P[l] => x \notin P[n]
    BY DEF Parted
  <2> QED BY <1>2, <2>1
<1> QED BY <1>1, <1>2, <1>3, <1>4 DEF Parted, Q

(* ... and so does the arrival of new ones.                                 *)
LEMMA ArriveIs ==
  ASSUME NEW P, NEW j \in 1..8, NEW X, NEW A, Parted(A, P), \A x \in X : x \notin A
  PROVE  Parted(A \cup X, Arrive(P, j, X))
<1> DEFINE Q == Arrive(P, j, X)
<1>2. \A l \in 1..8 : Q[l] = IF l = j THEN P[j] \cup X ELSE P[l]
  BY DEF Arrive
<1> HIDE DEF Q
<1>0. \A x : x \in A <=> \E l \in 1..8 : x \in P[l]
  BY DEF Parted
<1>3. UNION {Q[l] : l \in 1..8} = A \cup X
  <2>1. \A x : (\E l \in 1..8 : x \in Q[l]) <=> x \in A \/ x \in X
    BY <1>0, <1>2
  <2> QED BY <2>1
<1>4. \A l, n \in 1..8 : l # n => Q[l] \cap Q[n] = {}
  <2>1. \A l, n \in 1..8 : \A x : l # n /\ x \in P[l] => x \notin P[n]
    BY DEF Parted
  <2>2. \A l \in 1..8, x \in X : x \notin P[l]
    BY <1>0
  <2> QED BY <1>2, <2>1, <2>2
<1> QED BY <1>3, <1>4 DEF Parted, Q

(* Places that hold the same.                                               *)
LEMMA SamePlaces ==
  ASSUME NEW P, NEW Q, NEW A, Parted(A, P), \A l \in 1..8 : Q[l] = P[l]
  PROVE  Parted(A, Q)
  BY DEF Parted

(* The records the decoder has handed over.                                 *)
LEMMA AcceptedIs ==
  ASSUME NEW r
  PROVE  r \in Accepted <=> \E m \in 1..Len(messages) : \E i \in 1..Registered(m) : r = <<m, i>>
  BY DEF Accepted, Registered

(* A record is in one place.                                                *)
LEMMA PlacesApart ==
  ASSUME Traced
  PROVE  /\ \A i \in 1..8 : Spot[i] \subseteq Accepted
         /\ \A i, j \in 1..8 : \A x \in Spot[i] : i # j => x \notin Spot[j]
<1>1. Parted(Accepted, Spot)
  BY SpotIs DEF Traced, SpotFact
<1>2. \A i \in 1..8 : \A x \in Spot[i] : x \in Accepted
  BY <1>1 DEF Parted
<1> QED BY <1>1, <1>2 DEF Parted

(* Records of two sets of events.                                           *)
LEMMA RecordsUnion ==
  ASSUME NEW A, NEW B
  PROVE  RecordsIn(A \cup B) = RecordsIn(A) \cup RecordsIn(B)
  BY DEF RecordsIn

(* Two records of the collector are not confused with one another.         *)
LEMMA EventIs ==
  ASSUME Shapes, NEW types \in SUBSET AllTypes, NEW e \in Known(types)
  PROVE  /\ IdOf[e] = <<e.message, e.record>>
         /\ e.message \in Nat /\ e.record \in Nat /\ e.type \in types
         /\ e.message \in 1..Len(messages)
<1>1. History
  BY DEF Shapes, DecoderShape
<1>2. MaxRecords \in Nat
  BY ConstantLimits
<1>3. e.message \in 1..Len(messages) /\ e.record \in 0..MaxRecords /\ e.type \in types
  BY DEF Known
<1>4. e.message \in Nat
  BY <1>1, <1>3, MessageIs
<1>5. IdOf[e] = <<e.message, e.record>>
  BY <1>1, IdOfEvent
<1> QED BY <1>2, <1>3, <1>4, <1>5

(* The types of events either tracker knows.                                *)
LEMMA TypesAre ==
  /\ StorageTypes \in SUBSET AllTypes /\ OriginTypes \in SUBSET AllTypes
  /\ HydrationTypes \in SUBSET AllTypes /\ {"storage_record"} \in SUBSET AllTypes
  /\ "observation" \notin HydrationTypes /\ "observation" \notin StorageTypes
  BY DEF StorageTypes, OriginTypes, HydrationTypes, AllTypes

(* What a sequence holds.                                                   *)
LEMMA InSeq ==
  ASSUME NEW S, NEW s \in Seq(S)
  PROVE  \A x \in ToSet(s) : x \in S
  BY DEF ToSet

(* What an outbox holds is at its place.                                    *)
LEMMA QueuedRecords ==
  ASSUME Shapes, Traced
  PROVE  /\ \A e \in ToSet(originOutbox) :
              /\ e \in Known(OriginTypes)
              /\ e.type # "observation" => e.record # 0 /\ <<e.message, e.record>> \in InOriginQueue
         /\ \A e \in ToSet(hydrationOutbox) :
              e \in Known(HydrationTypes) /\ <<e.message, e.record>> \in InHydrationQueue
<1>1. \A e \in ToSet(originOutbox) : e \in Known(OriginTypes)
  BY InSeq DEF Shapes, OriginShape
<1>2. \A e \in ToSet(hydrationOutbox) : e \in Known(HydrationTypes)
  BY InSeq DEF Shapes, HydrationShape
<1>3. ASSUME NEW e \in ToSet(originOutbox), e.type # "observation"
      PROVE  e.record # 0 /\ <<e.message, e.record>> \in InOriginQueue
  <2>1. <<e.message, e.record>> \in InOriginQueue
    BY <1>3 DEF InOriginQueue, RecordsIn
  <2>2. <<e.message, e.record>> \in Accepted
    <3>1. 3 \in 1..8
      OBVIOUS
    <3>2. Spot[3] \subseteq Accepted
      BY <3>1, PlacesApart
    <3>3. Spot[3] = InOriginQueue
      BY SpotIs DEF SpotFact
    <3> QED BY <2>1, <3>2, <3>3
  <2>3. PICK m \in 1..Len(messages) :
          \E i \in 1..Registered(m) : <<e.message, e.record>> = <<m, i>>
    BY <2>2, AcceptedIs
  <2>4. e.record \in 1..Registered(m)
    BY <2>3
  <2> QED BY <2>1, <2>4
<1>4. \A e \in ToSet(hydrationOutbox) : e.type # "observation"
  BY <1>2, TypesAre DEF Known
<1> QED BY <1>1, <1>2, <1>3, <1>4 DEF InHydrationQueue, RecordsIn

(* What is queued on the origin tracker's outbox is new to it.             *)
LEMMA OriginUnique ==
  ASSUME Shapes, Traced, NEW out \in Seq(Known(OriginTypes)), Inj(IdOf, out),
         \A e \in ToSet(out) :
            IF e.type = "observation"
            THEN e.record = 0 /\ \A x \in ToSet(originOutbox) :
                                    x.type = "observation" => x.message # e.message
            ELSE e.record # 0 /\ <<e.message, e.record>> \notin InOriginQueue
  PROVE  Inj(IdOf, originOutbox \o out)
<1> DEFINE K == Known(OriginTypes)
<1>1. originOutbox \in Seq(K) /\ out \in Seq(K) /\ Inj(IdOf, originOutbox)
  BY DEF Shapes, OriginShape, Traced
<1>2. \A e \in K : IdOf[e] = <<e.message, e.record>>
  BY EventIs, TypesAre
<1>3. (\A e \in ToSet(originOutbox) : e \in K) /\ (\A e \in ToSet(out) : e \in K)
  <2> HIDE DEF K
  <2> QED BY <1>1, InSeq
<1>4. ASSUME NEW a \in ToSet(originOutbox), NEW b \in ToSet(out)
      PROVE  IdOf[a] # IdOf[b]
  <2> SUFFICES ASSUME a.message = b.message, a.record = b.record PROVE FALSE
    BY <1>2, <1>3
  <2>1. a.type = "observation" => a.record = 0
    BY DEF Traced, ObservedOnce
  <2>2. a.type # "observation" => a.record # 0 /\ <<a.message, a.record>> \in InOriginQueue
    BY QueuedRecords
  <2> QED BY <2>1, <2>2
<1> HIDE DEF K
<1> QED BY <1>1, <1>4, AppendedInj

(* Records that come to the hydration outbox are not there yet.             *)
LEMMA HydrationUnique ==
  ASSUME Shapes, Traced, NEW out \in Seq(Known(HydrationTypes)), Inj(IdOf, out),
         RecordsIn(ToSet(out)) \cap InHydrationQueue = {}
  PROVE  Inj(IdOf, hydrationOutbox \o out)
<1> DEFINE K == Known(HydrationTypes)
<1>1. hydrationOutbox \in Seq(K) /\ out \in Seq(K) /\ Inj(IdOf, hydrationOutbox)
  BY DEF Shapes, HydrationShape, Traced
<1>2. \A e \in K : IdOf[e] = <<e.message, e.record>> /\ e.type # "observation"
  BY EventIs, TypesAre
<1>3. (\A e \in ToSet(hydrationOutbox) : e \in K) /\ (\A e \in ToSet(out) : e \in K)
  <2> HIDE DEF K
  <2> QED BY <1>1, InSeq
<1>4. ASSUME NEW a \in ToSet(hydrationOutbox), NEW b \in ToSet(out)
      PROVE  IdOf[a] # IdOf[b]
  <2>1. <<a.message, a.record>> \in InHydrationQueue
    BY QueuedRecords
  <2>2. <<b.message, b.record>> \in RecordsIn(ToSet(out))
    BY <1>2, <1>3 DEF RecordsIn
  <2> QED BY <1>2, <1>3, <2>1, <2>2
<1> HIDE DEF K
<1> QED BY <1>1, <1>4, AppendedInj

RecordsOf(deposits) ==
  UNION {{p.message} \X (1..messages[p.message].count) : p \in ToSet(deposits)}

(* The records of deposits.                                                 *)
LEMMA RecordsOfIs ==
  ASSUME NEW deposits, NEW r
  PROVE  r \in RecordsOf(deposits) <=>
           \E p \in ToSet(deposits) : \E i \in 1..messages[p.message].count :
              r = <<p.message, i>>
  BY DEF RecordsOf

(* The records of events.                                                   *)
LEMMA RecordsInIs ==
  ASSUME NEW events, NEW r
  PROVE  r \in RecordsIn(events) <=>
           \E e \in events : e.type # "observation" /\ r = <<e.message, e.record>>
  BY DEF RecordsIn

(* A verdict settles the records of the deposits that are gone, and those  *)
(* of the others stay pending.                                             *)
LEMMA SettledRecords ==
  ASSUME Shapes, NEW deposits \in Seq(Deposits), Inj(MessageOf, deposits), NEW gone, NEW worker
  PROVE  /\ RecordsIn(ToSet(Settled(deposits, gone, worker))) =
              {r \in RecordsOf(deposits) : r[1] \in gone}
         /\ RecordsOf(Keep(deposits, gone)) = {r \in RecordsOf(deposits) : r[1] \notin gone}
<1> DEFINE out == Settled(deposits, gone, worker)
           all == ToSet(deposits)
           S == RecordsOf(deposits)
<1>0. History
  BY DEF Shapes, DecoderShape
<1>1. ToSet(out) = UNION {{Event(p.message, i, Verdict(p, worker)) :
                             i \in 1..messages[p.message].count} : p \in SettledOf(deposits, gone)}
      /\ SettledOf(deposits, gone) = {p \in all : p.message \in gone}
  BY <1>0, SettledIs DEF SettledOf
<1>2. ToSet(Keep(deposits, gone)) = {p \in all : p.message \notin gone}
  BY KeepIs
<1>3. \A p \in all : Verdict(p, worker) # "observation"
  <2> SUFFICES ASSUME NEW p \in all PROVE Verdict(p, worker) # "observation"
    OBVIOUS
  <2>1. p \in Deposits
    BY InSeq
  <2>2. messages[p.message].kind \in StorageTypes
    BY <2>1 DEF Deposits, StorageMessages
  <2> QED BY <2>2 DEF Verdict, WireType, StorageTypes
<1> HIDE DEF out, all
<1>4. ASSUME NEW r
      PROVE  r \in RecordsIn(ToSet(out)) <=> r \in S /\ r[1] \in gone
  <2>1. r \in RecordsIn(ToSet(out)) <=>
          \E p \in all : p.message \in gone /\ \E i \in 1..messages[p.message].count :
             LET e == Event(p.message, i, Verdict(p, worker)) IN
             e.type # "observation" /\ r = <<e.message, e.record>>
    BY <1>1, RecordsInIs
  <2>2. r \in RecordsIn(ToSet(out)) <=>
          \E p \in all : p.message \in gone /\ \E i \in 1..messages[p.message].count :
             r = <<p.message, i>>
    BY <1>3, <2>1 DEF Event
  <2>3. r \in S <=> \E p \in all : \E i \in 1..messages[p.message].count : r = <<p.message, i>>
    BY RecordsOfIs DEF all
  <2> QED BY <2>2, <2>3
<1>5. ASSUME NEW r
      PROVE  r \in RecordsOf(Keep(deposits, gone)) <=> r \in S /\ r[1] \notin gone
  <2>1. r \in RecordsOf(Keep(deposits, gone)) <=>
          \E p \in all : p.message \notin gone /\ \E i \in 1..messages[p.message].count :
             r = <<p.message, i>>
    BY <1>2, RecordsOfIs
  <2>3. r \in S <=> \E p \in all : \E i \in 1..messages[p.message].count : r = <<p.message, i>>
    BY RecordsOfIs DEF all
  <2> QED BY <2>1, <2>3
<1> HIDE DEF S
<1>6. RecordsIn(ToSet(out)) = {r \in S : r[1] \in gone}
  BY <1>4
<1>7. RecordsOf(Keep(deposits, gone)) = {r \in S : r[1] \notin gone}
  BY <1>5
<1> QED BY <1>6, <1>7 DEF out, S

(* What _emit_neutral_entries takes from the staged batches.                *)
LEMMA UnstagedRecords ==
  ASSUME Shapes, NEW batches
  PROVE  RecordsIn(ToSet(Unstaged(batches))) = {r \in InStaged : r[1] \in batches}
<1> DEFINE out == Unstaged(batches)
<1>0. History
  BY DEF Shapes, DecoderShape
<1>1. ToSet(out) = UNION {{Event(m, i, WireType(m)) : i \in staged[m]} :
                            m \in StagedBatches(batches)}
  BY <1>0, StagedIs, UnstagedIs
<1>2. \A m \in 1..Len(messages) : staged[m] # {} => WireType(m) # "observation"
  BY StagedIs DEF StorageMessages, WireType, StorageTypes
<1>3. \A m \in Messages : staged[m] # {} => m \in 1..Len(messages)
  BY DEF Shapes, StagedShape, StorageMessages
<1>4. \A m \in 1..Len(messages) : m \in Messages
  BY <1>0 DEF History
<1>5. \A m \in Messages : staged[m] \subseteq 1..MaxRecords
  BY DEF Shapes, StagedShape
<1> HIDE DEF out
<1>6. ASSUME NEW r
      PROVE  r \in RecordsIn(ToSet(out)) <=> r \in InStaged /\ r[1] \in batches
  <2>1. r \in RecordsIn(ToSet(out)) <=>
          \E m \in StagedBatches(batches) : \E i \in staged[m] :
             LET e == Event(m, i, WireType(m)) IN
             e.type # "observation" /\ r = <<e.message, e.record>>
    BY <1>1, RecordsInIs
  <2>2. r \in RecordsIn(ToSet(out)) <=>
          \E m \in StagedBatches(batches) : \E i \in staged[m] : r = <<m, i>>
    BY <1>2, <2>1 DEF Event, StagedBatches
  <2>3. r \in RecordsIn(ToSet(out)) <=>
          \E m \in Messages : m \in batches /\ \E i \in staged[m] : r = <<m, i>>
    BY <1>3, <1>4, <2>2 DEF StagedBatches
  <2>4. r \in InStaged <=> \E m \in Messages : \E i \in staged[m] : r = <<m, i>>
    BY <1>5 DEF InStaged
  <2> QED BY <2>3, <2>4
<1> HIDE DEF InStaged
<1> QED BY <1>6 DEF out

(* The places a step leaves alone.                                         *)
LEMMA PlacesStay ==
  /\ UNCHANGED staged => InStaged' = InStaged
  /\ UNCHANGED originOutbox => InOriginQueue' = InOriginQueue
  /\ UNCHANGED <<originHand, Calling>> => InOriginHand' = InOriginHand
  /\ UNCHANGED bursts => InBursts' = InBursts /\ \A k : BurstEvents(k)' = BurstEvents(k)
  /\ UNCHANGED hydrationOutbox => InHydrationQueue' = InHydrationQueue
  /\ UNCHANGED hydrationHand => InHydrationHand' = InHydrationHand
  /\ UNCHANGED delivered => InDelivered' = InDelivered
<1>1. UNCHANGED staged => InStaged' = InStaged
  BY DEF InStaged
<1>2. UNCHANGED originOutbox => InOriginQueue' = InOriginQueue
  BY DEF InOriginQueue
<1>3. UNCHANGED <<originHand, Calling>> => InOriginHand' = InOriginHand
  BY DEF InOriginHand, HandsOf
<1>4. UNCHANGED bursts => InBursts' = InBursts /\ \A k : BurstEvents(k)' = BurstEvents(k)
  BY DEF InBursts, InBurst, BurstEvents
<1>5. UNCHANGED hydrationOutbox => InHydrationQueue' = InHydrationQueue
  BY DEF InHydrationQueue
<1>6. UNCHANGED hydrationHand => InHydrationHand' = InHydrationHand
  BY DEF InHydrationHand, HandsOf
<1>7. UNCHANGED delivered => InDelivered' = InDelivered
  BY DEF InDelivered
<1> QED BY <1>1, <1>2, <1>3, <1>4, <1>5, <1>6, <1>7

(* A pending deposit is complete.                                           *)
LEMMA PendingMember ==
  ASSUME Shapes, NEW p \in ToSet(pending)
  PROVE  /\ p \in Deposits /\ p.message \in 1..Len(messages)
         /\ Registered(p.message) = messages[p.message].count
<1> DEFINE D == Deposits
<1>1. pending \in Seq(D)
  BY DEF Shapes, PendingShape
<1> HIDE DEF D
<1>2. p \in D
  BY <1>1, InSeq
<1> QED BY <1>2 DEF D, Deposits, StorageMessages, Shapes, PendingShape

(* Deposits that stay keep their records.                                   *)
LEMMA PendingStays ==
  ASSUME Shapes, MoreHistory, UNCHANGED pending
  PROVE  InPending' = InPending
<1>1. \A p \in ToSet(pending) : p.message \in 1..Len(messages)
  BY PendingMember
<1>2. \A p \in ToSet(pending) : messages'[p.message].count = messages[p.message].count
  BY <1>1 DEF MoreHistory
<1> QED BY <1>2 DEF InPending

(* What is known of the places after a step is what Conserved asks.         *)
LEMMA Respotted ==
  ASSUME NEW P, Parted(Accepted', P), InStaged' = P[1], InPending' = P[2],
         InOriginQueue' = P[3], InOriginHand' = P[4], InBursts' = P[5],
         InHydrationQueue' = P[6], InHydrationHand' = P[7], InDelivered' = P[8]
  PROVE  Parted(Accepted, Places)'
<1>1. \A l \in 1..8 : Spot'[l] = P[l]
  <2> SUFFICES ASSUME NEW l \in 1..8 PROVE Spot'[l] = P[l]
    OBVIOUS
  <2>1. l = 1 \/ l = 2 \/ l = 3 \/ l = 4 \/ l = 5 \/ l = 6 \/ l = 7 \/ l = 8
    OBVIOUS
  <2>2. /\ Spot'[1] = InStaged' /\ Spot'[2] = InPending' /\ Spot'[3] = InOriginQueue'
        /\ Spot'[4] = InOriginHand' /\ Spot'[5] = InBursts' /\ Spot'[6] = InHydrationQueue'
        /\ Spot'[7] = InHydrationHand' /\ Spot'[8] = InDelivered'
    BY SpotIsThen DEF SpotFact
  <2> QED BY <2>1, <2>2
<1>2. Parted(Accepted', Spot')
  BY <1>1, SamePlaces
<1> QED BY <1>2, SpotIsThen DEF SpotFact, Parted

(* The starting point of every move.                                       *)
LEMMA PartedSpot ==
  ASSUME Traced
  PROVE  /\ Parted(Accepted, Spot) /\ Spot = [l \in 1..8 |-> Spot[l]]
         /\ Spot[1] = InStaged /\ Spot[2] = InPending /\ Spot[3] = InOriginQueue
         /\ Spot[4] = InOriginHand /\ Spot[5] = InBursts /\ Spot[6] = InHydrationQueue
         /\ Spot[7] = InHydrationHand /\ Spot[8] = InDelivered
  BY SpotIs DEF Traced, SpotFact

(* Storage events stand for records.                                        *)
LEMMA StorageKnown ==
  ASSUME Shapes, NEW s \in Seq(Known(StorageTypes))
  PROVE  \A e \in ToSet(s) :
           /\ e \in Known(StorageTypes) /\ IdOf[e] = <<e.message, e.record>>
           /\ e.type # "observation" /\ <<e.message, e.record>> \in RecordsIn(ToSet(s))
<1> DEFINE K == Known(StorageTypes)
<1>1. \A e \in K : /\ IdOf[e] = <<e.message, e.record>> /\ e.type # "observation"
  BY EventIs, TypesAre
<1> HIDE DEF K
<1>2. \A e \in ToSet(s) : e \in K
  BY InSeq DEF K
<1> QED BY <1>1, <1>2 DEF K, RecordsIn

(* Two sequences that share no record.                                      *)
LEMMA StorageApart ==
  ASSUME Shapes, NEW a \in Seq(Known(StorageTypes)), NEW b \in Seq(Known(StorageTypes)),
         Inj(IdOf, a), Inj(IdOf, b), RecordsIn(ToSet(a)) \cap RecordsIn(ToSet(b)) = {}
  PROVE  /\ a \o b \in Seq(Known(StorageTypes)) /\ Inj(IdOf, a \o b)
         /\ RecordsIn(ToSet(a \o b)) = RecordsIn(ToSet(a)) \cup RecordsIn(ToSet(b))
<1>1. \A x \in ToSet(a), y \in ToSet(b) : IdOf[x] # IdOf[y]
  <2>1. \A x \in ToSet(a) : IdOf[x] \in RecordsIn(ToSet(a))
    BY StorageKnown
  <2>2. \A x \in ToSet(b) : IdOf[x] \in RecordsIn(ToSet(b))
    BY StorageKnown
  <2> QED BY <2>1, <2>2
<1> DEFINE K == Known(StorageTypes)
<1>2. a \in Seq(K) /\ b \in Seq(K)
  OBVIOUS
<1> HIDE DEF K
<1>3. a \o b \in Seq(K) /\ ToSet(a \o b) = ToSet(a) \cup ToSet(b)
  BY <1>2, AppendedElements
<1>4. Inj(IdOf, a \o b)
  BY <1>1, <1>2, AppendedInj
<1> QED BY <1>3, <1>4, RecordsUnion DEF K

(* Records queued on the outbox of the origin tracker, each once.          *)
LEMMA OriginStorage ==
  ASSUME Shapes, Traced, NEW out \in Seq(Known(StorageTypes)), Inj(IdOf, out),
         RecordsIn(ToSet(out)) \cap InOriginQueue = {},
         \A r \in RecordsIn(ToSet(out)) : r[2] # 0,
         originOutbox' = originOutbox \o out
  PROVE  /\ Inj(IdOf, originOutbox')
         /\ InOriginQueue' = InOriginQueue \cup RecordsIn(ToSet(out))
         /\ \A e \in ToSet(originOutbox') : e.type = "observation" => e \in ToSet(originOutbox)
<1>1. out \in Seq(Known(OriginTypes))
  BY StorageIsOrigin
<1>2. \A e \in ToSet(out) : /\ e.type # "observation" /\ <<e.message, e.record>> \notin InOriginQueue
                            /\ e.record # 0
  <2>1. \A e \in ToSet(out) : /\ e.type # "observation"
                              /\ <<e.message, e.record>> \in RecordsIn(ToSet(out))
    BY StorageKnown
  <2> QED BY <2>1
<1>3. Inj(IdOf, originOutbox')
  BY <1>1, <1>2, OriginUnique
<1>4. ToSet(originOutbox') = ToSet(originOutbox) \cup ToSet(out)
  <2> DEFINE K == Known(OriginTypes)
  <2>1. originOutbox \in Seq(K) /\ out \in Seq(K)
    BY <1>1 DEF Shapes, OriginShape
  <2> HIDE DEF K
  <2> QED BY <2>1, AppendedElements
<1>5. InOriginQueue' = InOriginQueue \cup RecordsIn(ToSet(out))
  <2>1. InOriginQueue' = RecordsIn(ToSet(originOutbox'))
    BY DEF InOriginQueue, RecordsIn
  <2>2. RecordsIn(ToSet(originOutbox) \cup ToSet(out)) =
           RecordsIn(ToSet(originOutbox)) \cup RecordsIn(ToSet(out))
    BY RecordsUnion
  <2> QED BY <1>4, <2>1, <2>2 DEF InOriginQueue
<1> QED BY <1>2, <1>3, <1>4, <1>5

(* Observations stay what they are while deposits only leave, or become    *)
(* candidates.                                                             *)
LEMMA ObservedStays ==
  ASSUME Shapes, Traced, MoreHistory,
         \A e \in ToSet(originOutbox') : e.type = "observation" => e \in ToSet(originOutbox),
         \A p \in ToSet(pending') : \E q \in ToSet(pending) :
            q.message = p.message /\ (q.candidate => p.candidate)
  PROVE  ObservedOnce'
<1> SUFFICES ASSUME NEW e \in ToSet(originOutbox'), e.type = "observation"
             PROVE  /\ e.record = 0
                    /\ messages'[e.message].registered = messages'[e.message].count
                    /\ \A p \in ToSet(pending') : p.message = e.message => p.candidate
  BY DEF ObservedOnce, Registered
<1>1. e \in ToSet(originOutbox)
  OBVIOUS
<1>2. /\ e.record = 0 /\ Registered(e.message) = messages[e.message].count
      /\ \A p \in ToSet(pending) : p.message = e.message => p.candidate
  BY <1>1 DEF Traced, ObservedOnce
<1>3. e.message \in 1..Len(messages)
  BY <1>1, QueuedRecords, EventIs, TypesAre
<1>4. messages'[e.message].registered = messages'[e.message].count
  BY <1>2, <1>3 DEF MoreHistory, Registered
<1> QED BY <1>2, <1>4

HydrationOnce ==
  /\ \A k \in Keys : Inj(IdOf, BurstEvents(k))
  /\ Inj(IdOf, hydrationOutbox)
  /\ \A a, b \in delivered : IdOf[a] = IdOf[b] => a = b

(* The hydration tracker is left alone.                                     *)
LEMMA HydrationOnceStays ==
  ASSUME Traced, UNCHANGED <<bursts, hydrationOutbox, delivered>>
  PROVE  HydrationOnce'
  BY DEF Traced, HydrationOnce, BurstEvents, Inj

(* The parts of Traced.                                                     *)
LEMMA TracedThen ==
  ASSUME Parted(Accepted, Places)', Inj(IdOf, originOutbox'), ObservedOnce', HydrationOnce'
  PROVE  Traced'
  BY DEF Traced, HydrationOnce, IdOf, Inj, StorageTypes, AllTypes

(* Two sequences of records taken from where they were staged and from     *)
(* where they were pending are queued.                                     *)
LEMMA QueuedFrom ==
  ASSUME Shapes, Traced,
         NEW a \in Seq(Known(StorageTypes)), NEW b \in Seq(Known(StorageTypes)),
         Inj(IdOf, a), Inj(IdOf, b), NEW i \in 1..8, NEW j \in 1..8, i # j, i # 3, j # 3,
         RecordsIn(ToSet(a)) \subseteq Spot[i], RecordsIn(ToSet(b)) \subseteq Spot[j],
         originOutbox' = originOutbox \o (a \o b)
  PROVE  /\ Inj(IdOf, originOutbox')
         /\ InOriginQueue' = InOriginQueue \cup (RecordsIn(ToSet(a)) \cup RecordsIn(ToSet(b)))
         /\ \A e \in ToSet(originOutbox') : e.type = "observation" => e \in ToSet(originOutbox)
<1>0. /\ Spot[i] \subseteq Accepted /\ Spot[j] \subseteq Accepted /\ Spot[3] = InOriginQueue
      /\ \A x \in Spot[i] : x \notin Spot[j] /\ x \notin Spot[3]
      /\ \A x \in Spot[j] : x \notin Spot[3]
  BY PlacesApart, PartedSpot
<1>1. RecordsIn(ToSet(a)) \cap RecordsIn(ToSet(b)) = {}
  BY <1>0
<1> DEFINE out == a \o b
<1>2. /\ out \in Seq(Known(StorageTypes)) /\ Inj(IdOf, out)
      /\ RecordsIn(ToSet(out)) = RecordsIn(ToSet(a)) \cup RecordsIn(ToSet(b))
  BY <1>1, StorageApart
<1> HIDE DEF out
<1>3. RecordsIn(ToSet(out)) \cap InOriginQueue = {}
  BY <1>0, <1>2
<1>4. \A r \in RecordsIn(ToSet(out)) : r[2] # 0
  <2> SUFFICES ASSUME NEW r \in RecordsIn(ToSet(out)) PROVE r[2] # 0
    OBVIOUS
  <2>1. r \in Accepted
    BY <1>0, <1>2
  <2>2. PICK m \in 1..Len(messages) : \E n \in 1..Registered(m) : r = <<m, n>>
    BY <2>1, AcceptedIs
  <2> QED BY <2>2
<1>5. originOutbox' = originOutbox \o out
  BY DEF out
<1> QED BY <1>2, <1>3, <1>4, <1>5, OriginStorage

(* Closing moves staged and pending records to the outbox of the origin     *)
(* tracker.                                                                 *)
LEMMA ClosingTraced ==
  ASSUME Shapes, Traced, NEW batches, NEW closing, ClosePending(batches, closing),
         UNCHANGED <<messages, originHand, bursts, hydrationOutbox, hydrationHand, delivered>>,
         Calling' = Calling
  PROVE  Traced'
<1>1. PICK worker \in SUBSET Candidates(pending) :
        /\ staged' = [m \in Messages |-> IF m \in batches THEN {} ELSE staged[m]]
        /\ pending' = Keep(pending, closing \cup worker)
        /\ originOutbox' = originOutbox \o Unstaged(batches)
                             \o Settled(pending, closing \cup worker, worker)
  BY DEF ClosePending
<1> DEFINE gone == closing \cup worker
           a == Unstaged(batches)
           b == Settled(pending, gone, worker)
           A == {r \in InStaged : r[1] \in batches}
           B == {r \in InPending : r[1] \in gone}
<1>2. History /\ pending \in Seq(Deposits) /\ Inj(MessageOf, pending)
  BY DEF Shapes, DecoderShape, PendingShape
<1>3. a \in Seq(Known(StorageTypes)) /\ Inj(IdOf, a)
  BY <1>2, StagedIs, UnstagedIs
<1>4. b \in Seq(Known(StorageTypes)) /\ Inj(IdOf, b)
  BY <1>2, SettledIs
<1>5. RecordsIn(ToSet(a)) = A
  BY UnstagedRecords
<1>6. InPending = RecordsOf(pending)
  BY DEF InPending, RecordsOf
<1>7. /\ RecordsIn(ToSet(b)) = B
      /\ RecordsOf(Keep(pending, gone)) = InPending \ B
  <2> HIDE DEF a, gone
  <2>1. /\ RecordsIn(ToSet(b)) = {r \in RecordsOf(pending) : r[1] \in gone}
        /\ RecordsOf(Keep(pending, gone)) = {r \in RecordsOf(pending) : r[1] \notin gone}
    BY <1>2, SettledRecords
  <2> QED BY <1>6, <2>1
<1>8. originOutbox' = originOutbox \o (a \o b)
  BY <1>1, ClosePendingIs
<1>9. pending' = Keep(pending, gone)
  BY <1>1
<1>10. ToSet(pending') \subseteq ToSet(pending)
  BY <1>2, <1>9, KeepIs
<1> HIDE DEF gone, a, b
<1>11. InPending' = InPending \ B
  BY <1>7, <1>9 DEF InPending, RecordsOf
<1>12. InStaged' = InStaged \ A
  BY <1>1 DEF InStaged
<1> HIDE DEF A, B
<1>13. A \subseteq InStaged /\ B \subseteq InPending
  BY DEF A, B
<1>14. /\ Inj(IdOf, originOutbox')
       /\ InOriginQueue' = InOriginQueue \cup (A \cup B)
       /\ \A e \in ToSet(originOutbox') : e.type = "observation" => e \in ToSet(originOutbox)
  <2>1. 1 \in 1..8 /\ 2 \in 1..8 /\ Spot[1] = InStaged /\ Spot[2] = InPending
    BY PartedSpot
  <2>2. RecordsIn(ToSet(a)) \subseteq Spot[1] /\ RecordsIn(ToSet(b)) \subseteq Spot[2]
    BY <1>5, <1>7, <1>13, <2>1
  <2>3. /\ Inj(IdOf, originOutbox')
        /\ InOriginQueue' = InOriginQueue \cup (RecordsIn(ToSet(a)) \cup RecordsIn(ToSet(b)))
        /\ \A e \in ToSet(originOutbox') : e.type = "observation" => e \in ToSet(originOutbox)
    <3>1. 1 # 2 /\ 1 # 3 /\ 2 # 3
      OBVIOUS
    <3> QED BY ZenonT(60), <1>3, <1>4, <1>8, <2>1, <2>2, <3>1, QueuedFrom
  <2> QED BY <1>5, <1>7, <2>3
<1> DEFINE P == Move(Spot, 1, 3, A)
           Q == Move(P, 2, 3, B)
<1>15. /\ Parted(Accepted, P) /\ P = [l \in 1..8 |-> P[l]]
       /\ \A l \in 1..8 : P[l] = IF l = 1 THEN Spot[1] \ A ELSE IF l = 3 THEN Spot[3] \cup A
                                                           ELSE Spot[l]
  BY <1>13, PartedSpot, MoveIs
<1> HIDE DEF P
<1>16. /\ Parted(Accepted, Q)
       /\ \A l \in 1..8 : Q[l] = IF l = 2 THEN P[2] \ B ELSE IF l = 3 THEN P[3] \cup B ELSE P[l]
  <2>1. B \subseteq P[2]
    BY <1>13, <1>15, PartedSpot
  <2> QED BY <1>15, <2>1, MoveIs
<1> HIDE DEF Q
<1>17. /\ Q[1] = InStaged' /\ Q[2] = InPending' /\ Q[3] = InOriginQueue' /\ Q[4] = InOriginHand
       /\ Q[5] = InBursts /\ Q[6] = InHydrationQueue /\ Q[7] = InHydrationHand
       /\ Q[8] = InDelivered
  BY <1>11, <1>12, <1>14, <1>15, <1>16, PartedSpot
<1>18. Accepted' = Accepted
  BY DEF Accepted
<1>19. Parted(Accepted, Places)'
  BY <1>16, <1>17, <1>18, PlacesStay, Respotted
<1>20. ObservedOnce'
  <2>1. MoreHistory
    BY SameHistory DEF Shapes
  <2> QED BY <1>10, <1>14, <2>1, ObservedStays
<1> QED BY <1>14, <1>19, <1>20, HydrationOnceStays, TracedThen

(* A thread that is outside a callback, and stays so.                       *)
LEMMA CallingStays ==
  ASSUME Positions, NEW t \in Threads, NEW to, pc' = [pc EXCEPT ![t] = to],
         pc[t] # "originCall", to # "originCall"
  PROVE  Calling' = Calling
  BY DEF Positions, Calling

(* A wrapper has one deposit.                                               *)
LEMMA DepositUnique ==
  ASSUME Shapes, NEW p \in ToSet(pending), NEW r \in ToSet(pending), r.message = p.message
  PROVE  r = p
<1>1. PICK i \in DOMAIN pending : p = pending[i]
  BY DEF ToSet
<1>2. PICK j \in DOMAIN pending : r = pending[j]
  BY DEF ToSet
<1>3. p \in Deposits /\ r \in Deposits /\ p.message \in 1..Len(messages)
  BY PendingMember
<1>4. p.message \in Nat /\ MessageOf[p] = p.message /\ MessageOf[r] = r.message
  <2>1. Len(messages) \in Nat
    BY DEF Shapes, DecoderShape, History
  <2> QED BY <1>3, <2>1 DEF MessageOf, Deposits
<1>5. Inj(MessageOf, pending)
  BY DEF Shapes, PendingShape
<1> QED BY <1>1, <1>2, <1>4, <1>5 DEF Inj

(* An operation queues what is new to the origin tracker's outbox.         *)
LEMMA OriginNew ==
  ASSUME Shapes, Traced, NEW out \in Seq(Known(OriginTypes)), Inj(IdOf, out),
         \A e \in ToSet(out) :
            IF e.type = "observation"
            THEN e.record = 0 /\ \A x \in ToSet(originOutbox) :
                                    x.type = "observation" => x.message # e.message
            ELSE e.record # 0 /\ <<e.message, e.record>> \notin InOriginQueue,
         originOutbox' = originOutbox \o out
  PROVE  /\ Inj(IdOf, originOutbox')
         /\ ToSet(originOutbox') = ToSet(originOutbox) \cup ToSet(out)
         /\ InOriginQueue' = InOriginQueue \cup RecordsIn(ToSet(out))
<1>1. Inj(IdOf, originOutbox')
  BY OriginUnique
<1>2. ToSet(originOutbox') = ToSet(originOutbox) \cup ToSet(out)
  <2> DEFINE K == Known(OriginTypes)
  <2>1. originOutbox \in Seq(K) /\ out \in Seq(K)
    BY DEF Shapes, OriginShape
  <2> HIDE DEF K
  <2> QED BY <2>1, AppendedElements
<1>3. InOriginQueue' = RecordsIn(ToSet(originOutbox'))
  BY DEF InOriginQueue, RecordsIn
<1>4. RecordsIn(ToSet(originOutbox) \cup ToSet(out)) =
         RecordsIn(ToSet(originOutbox)) \cup RecordsIn(ToSet(out))
  BY RecordsUnion
<1> QED BY <1>1, <1>2, <1>3, <1>4 DEF InOriginQueue

(* Marking a deposit moves no record.                                       *)
LEMMA MarkedRecords ==
  ASSUME Shapes, NEW p \in ToSet(pending), NEW found \in BOOLEAN
  PROVE  RecordsOf(Marked(p, found)) = InPending
<1> DEFINE all == Marked(p, found)
<1>1. /\ \A q \in ToSet(all) : \E r \in ToSet(pending) : r.message = q.message
      /\ \A r \in ToSet(pending) : \E q \in ToSet(all) : q.message = r.message
  BY MarkedIs
<1> HIDE DEF all
<1>2. ASSUME NEW x PROVE x \in RecordsOf(all) <=> x \in RecordsOf(pending)
  <2>1. x \in RecordsOf(all) <=>
          \E q \in ToSet(all) : \E i \in 1..messages[q.message].count : x = <<q.message, i>>
    BY RecordsOfIs
  <2>2. x \in RecordsOf(pending) <=>
          \E q \in ToSet(pending) : \E i \in 1..messages[q.message].count : x = <<q.message, i>>
    BY RecordsOfIs
  <2> QED BY <1>1, <2>1, <2>2
<1>3. RecordsOf(pending) = InPending
  BY DEF RecordsOf, InPending
<1> HIDE DEF RecordsOf
<1> QED BY <1>2, <1>3 DEF all

(* The observation of a companion, if there is one, is no record.          *)
LEMMA ObservedRecords ==
  ASSUME Shapes, NEW m \in 1..Len(messages), NEW found \in BOOLEAN
  PROVE  RecordsIn(ToSet(Observed(m, found))) = {}
<1>1. History
  BY DEF Shapes, DecoderShape
<1>2. \A e \in ToSet(Observed(m, found)) : e.type = "observation"
  BY <1>1, ObservedIs
<1> QED BY <1>2 DEF RecordsIn

(* observe_stream and observe_frame move what they finalize to the outbox.  *)
LEMMA ObserveTraced ==
  ASSUME Shapes, Traced, NEW t, Observe(t), Calling' = Calling
  PROVE  Traced'
<1>1. PICK p \in ToSet(pending), found \in BOOLEAN : \E gone, worker :
           /\ found => ~p.candidate
           /\ pending' = Keep(Marked(p, found), gone)
           /\ originOutbox' = originOutbox \o Observed(p.message, found)
                                \o Settled(Marked(p, found), gone, worker)
  BY ObserveIs
<1>2. PICK gone, worker :
           /\ found => ~p.candidate
           /\ pending' = Keep(Marked(p, found), gone)
           /\ originOutbox' = originOutbox \o Observed(p.message, found)
                                \o Settled(Marked(p, found), gone, worker)
  BY <1>1
<1>3. UNCHANGED <<messages, staged, originHand, bursts, hydrationOutbox, hydrationHand,
                  delivered>>
  BY DEF Observe, decoder, hydration
<1>4. MoreHistory /\ History
  BY <1>3, SameHistory DEF Shapes, DecoderShape
<1> DEFINE m == p.message
           all == Marked(p, found)
           a == Observed(m, found)
           b == Settled(all, gone, worker)
           out == a \o b
           B == {r \in InPending : r[1] \in gone}
           K == Known(OriginTypes)
<1>5. p \in Deposits /\ m \in 1..Len(messages) /\ Registered(m) = messages[m].count
  BY PendingMember
<1>6. /\ all \in Seq(Deposits) /\ Inj(MessageOf, all)
      /\ \A q \in ToSet(all) : \E r \in ToSet(pending) :
            /\ r.message = q.message /\ (r.candidate => q.candidate)
            /\ (r = p /\ found => q.candidate)
  BY MarkedIs
<1>7. RecordsOf(all) = InPending
  BY MarkedRecords
<1> HIDE DEF m, all
<1>8. /\ RecordsIn(ToSet(b)) = B /\ RecordsOf(Keep(all, gone)) = InPending \ B
  <2>1. /\ RecordsIn(ToSet(b)) = {r \in RecordsOf(all) : r[1] \in gone}
        /\ RecordsOf(Keep(all, gone)) = {r \in RecordsOf(all) : r[1] \notin gone}
    BY <1>6, SettledRecords
  <2> QED BY <1>7, <2>1
<1>9. a \in Seq(K) /\ Inj(IdOf, a) /\ RecordsIn(ToSet(a)) = {}
      /\ \A e \in ToSet(a) : /\ found /\ e = Observation(m) /\ e.message = m /\ e.record = 0
                             /\ e.type = "observation" /\ IdOf[e] = <<m, 0>>
  BY <1>4, <1>5, ObservationIs, ObservedIs, ObservedRecords DEF m
<1>10. b \in Seq(Known(StorageTypes)) /\ b \in Seq(K) /\ Inj(IdOf, b)
  BY <1>4, <1>6, SettledIs, StorageIsOrigin
<1>11. \A e \in ToSet(b) :
          /\ e.message \in gone /\ e.record \in Nat /\ e.record # 0
          /\ IdOf[e] = <<e.message, e.record>> /\ e.type # "observation"
          /\ <<e.message, e.record>> \in B
  <2>1. \A e \in ToSet(b) :
          /\ e.message \in gone /\ e.record \in Nat /\ e.record # 0
          /\ IdOf[e] = <<e.message, e.record>>
    BY <1>4, <1>6, SettledIds
  <2>2. \A e \in ToSet(b) : e.type # "observation" /\ <<e.message, e.record>> \in B
    BY <1>8, <1>10, StorageKnown
  <2> QED BY <2>1, <2>2
<1> HIDE DEF a, b, B
<1>12. B \subseteq InPending
  BY DEF B
<1>13. originOutbox' = originOutbox \o out
  <2>1. originOutbox' = originOutbox \o a \o b
    BY <1>2 DEF a, b, m, all
  <2>2. originOutbox \in Seq(K)
    BY DEF Shapes, OriginShape
  <2> HIDE DEF K
  <2> QED BY <1>9, <1>10, <2>1, <2>2, ThreeQueued
<1>14. out \in Seq(K) /\ ToSet(out) = ToSet(a) \cup ToSet(b) /\ Inj(IdOf, out)
  <2>1. \A x \in ToSet(a), y \in ToSet(b) : IdOf[x] # IdOf[y]
    <3> SUFFICES ASSUME NEW x \in ToSet(a), NEW y \in ToSet(b) PROVE IdOf[x] # IdOf[y]
      OBVIOUS
    <3>1. IdOf[x] = <<m, 0>> /\ IdOf[y] = <<y.message, y.record>> /\ y.record # 0
      BY <1>9, <1>11
    <3> QED BY <3>1
  <2> HIDE DEF K
  <2> QED BY <1>9, <1>10, <2>1, AppendedElements, AppendedInj
<1> HIDE DEF out
<1>15. RecordsIn(ToSet(out)) = B
  <2>1. RecordsIn(ToSet(a) \cup ToSet(b)) = RecordsIn(ToSet(a)) \cup RecordsIn(ToSet(b))
    BY RecordsUnion
  <2> QED BY <1>8, <1>9, <1>14, <2>1
<1>16. InPending \cap InOriginQueue = {}
  <2>1. 2 \in 1..8 /\ 3 \in 1..8 /\ 2 # 3 /\ Spot[2] = InPending /\ Spot[3] = InOriginQueue
    BY PartedSpot
  <2>2. \A x \in Spot[2] : x \notin Spot[3]
    BY <2>1, PlacesApart
  <2> QED BY <2>1, <2>2
<1>17. \A x \in ToSet(originOutbox) : x.type = "observation" /\ x.message = m => p.candidate
  BY DEF Traced, ObservedOnce, m
<1>18. \A e \in ToSet(out) :
            IF e.type = "observation"
            THEN e.record = 0 /\ \A x \in ToSet(originOutbox) :
                                    x.type = "observation" => x.message # e.message
            ELSE e.record # 0 /\ <<e.message, e.record>> \notin InOriginQueue
  <2>1. \A e \in ToSet(a) : /\ e.type = "observation" /\ e.record = 0
                            /\ \A x \in ToSet(originOutbox) :
                                 x.type = "observation" => x.message # e.message
    BY <1>2, <1>9, <1>17
  <2>2. \A e \in ToSet(b) : /\ e.type # "observation" /\ e.record # 0
                            /\ <<e.message, e.record>> \notin InOriginQueue
    BY <1>11, <1>12, <1>16
  <2> QED BY <1>14, <2>1, <2>2
<1>19. /\ Inj(IdOf, originOutbox')
       /\ ToSet(originOutbox') = ToSet(originOutbox) \cup ToSet(out)
       /\ InOriginQueue' = InOriginQueue \cup B
  BY <1>13, <1>14, <1>15, <1>18, OriginNew
<1>20. pending' = Keep(all, gone)
  BY <1>2 DEF all
<1>21. InPending' = InPending \ B
  BY <1>3, <1>8, <1>20 DEF InPending, RecordsOf
<1>22. Parted(Accepted, Places)'
  <2> DEFINE Q == Move(Spot, 2, 3, B)
  <2>1. /\ Parted(Accepted, Q)
        /\ \A l \in 1..8 : Q[l] = IF l = 2 THEN Spot[2] \ B ELSE IF l = 3 THEN Spot[3] \cup B
                                                            ELSE Spot[l]
    BY <1>12, PartedSpot, MoveIs
  <2> HIDE DEF Q
  <2>2. /\ Q[1] = InStaged /\ Q[2] = InPending' /\ Q[3] = InOriginQueue' /\ Q[4] = InOriginHand
        /\ Q[5] = InBursts /\ Q[6] = InHydrationQueue /\ Q[7] = InHydrationHand
        /\ Q[8] = InDelivered
    BY <1>19, <1>21, <2>1, PartedSpot
  <2>3. Accepted' = Accepted
    BY <1>3 DEF Accepted
  <2> QED BY <1>3, <2>1, <2>2, <2>3, PlacesStay, Respotted
<1>23. ObservedOnce'
  <2>1. ToSet(pending') \subseteq ToSet(all)
    <3> DEFINE D == Deposits
    <3>1. all \in Seq(D)
      BY <1>6
    <3> HIDE DEF D
    <3> QED BY <1>20, <3>1, KeepIs
  <2>2. ASSUME NEW e \in ToSet(originOutbox'), e.type = "observation"
        PROVE  /\ e.record = 0 /\ e.message \in 1..Len(messages)
               /\ Registered(e.message) = messages[e.message].count
               /\ \A q \in ToSet(all) : q.message = e.message => q.candidate
    <3>1. CASE e \in ToSet(originOutbox)
      <4>1. e.message \in 1..Len(messages)
        BY <3>1, QueuedRecords, EventIs, TypesAre
      <4>2. /\ e.record = 0 /\ Registered(e.message) = messages[e.message].count
            /\ \A q \in ToSet(pending) : q.message = e.message => q.candidate
        BY <2>2, <3>1 DEF Traced, ObservedOnce
      <4> QED BY <1>6, <4>1, <4>2
    <3>2. CASE e \in ToSet(out)
      <4>1. e \in ToSet(a)
        BY <1>11, <1>14, <2>2, <3>2
      <4>2. found /\ e.message = m /\ e.record = 0
        BY <1>9, <4>1
      <4>3. ASSUME NEW q \in ToSet(all), q.message = m PROVE q.candidate
        <5>1. PICK r \in ToSet(pending) :
                /\ r.message = q.message /\ (r.candidate => q.candidate)
                /\ (r = p /\ found => q.candidate)
          BY <1>6
        <5>2. r = p
          BY <4>3, <5>1, DepositUnique DEF m
        <5> QED BY <4>2, <5>1, <5>2
      <4> QED BY <1>5, <4>2, <4>3
    <3> QED BY <1>19, <3>1, <3>2
  <2>3. \A e \in ToSet(originOutbox') : e.type = "observation" =>
           /\ e.record = 0 /\ messages'[e.message].registered = messages'[e.message].count
           /\ \A q \in ToSet(pending') : q.message = e.message => q.candidate
    BY <1>3, <2>1, <2>2 DEF Registered
  <2> QED BY <2>3 DEF ObservedOnce, Registered
<1> QED BY <1>3, <1>19, <1>22, <1>23, HydrationOnceStays, TracedThen

(* The decoder hands over the next record of its last message.             *)
Registering(m) ==
  /\ MoreHistory /\ m \in 1..Len(messages) /\ Len(messages)' = Len(messages)
  /\ Registered(m) \in Nat /\ Registered(m) < messages[m].count
  /\ messages'[m].registered = Registered(m) + 1
  /\ \A n \in 1..Len(messages) : n # m => messages'[n] = messages[n]
NextRecord(m) == <<m, Registered(m) + 1>>

(* A record handed over is a new one.                                       *)
LEMMA AcceptedGrows ==
  ASSUME NEW m, Registering(m)
  PROVE  /\ Accepted' = Accepted \cup {NextRecord(m)}
         /\ NextRecord(m) \notin Accepted
<1> DEFINE r == NextRecord(m)
<1>1. r \notin Accepted
  <2>1. ASSUME NEW n \in 1..Len(messages), NEW i \in 1..Registered(n), r = <<n, i>>
        PROVE  FALSE
    BY <2>1 DEF NextRecord, Registering
  <2> QED BY <2>1, AcceptedIs
<1>2. \A x : x \in Accepted' <=>
               \E n \in 1..Len(messages') : \E i \in 1..messages'[n].registered : x = <<n, i>>
  BY DEF Accepted
<1>3. ASSUME NEW x
      PROVE  x \in Accepted' <=> x \in Accepted \/ x = r
  <2>1. x \in Accepted <=> \E n \in 1..Len(messages) : \E i \in 1..Registered(n) : x = <<n, i>>
    BY AcceptedIs
  <2>2. ASSUME x \in Accepted' PROVE x \in Accepted \/ x = r
    <3>1. PICK n \in 1..Len(messages') : \E i \in 1..messages'[n].registered : x = <<n, i>>
      BY <1>2, <2>2
    <3>2. PICK i \in 1..messages'[n].registered : x = <<n, i>>
      BY <3>1
    <3>3. CASE n # m
      <4>1. messages'[n] = messages[n] /\ n \in 1..Len(messages)
        BY <3>3 DEF Registering
      <4> QED BY <2>1, <3>2, <4>1 DEF Registered
    <3>4. CASE n = m
      <4>1. i \in 1..Registered(m) \/ i = Registered(m) + 1
        BY <3>2, <3>4 DEF Registering
      <4>2. m \in 1..Len(messages)
        BY DEF Registering
      <4> QED BY <2>1, <3>2, <3>4, <4>1, <4>2 DEF NextRecord
    <3> QED BY <3>3, <3>4
  <2>3. ASSUME x \in Accepted PROVE x \in Accepted'
    <3>1. PICK n \in 1..Len(messages) : \E i \in 1..Registered(n) : x = <<n, i>>
      BY <2>1, <2>3
    <3>2. PICK i \in 1..Registered(n) : x = <<n, i>>
      BY <3>1
    <3>3. n \in 1..Len(messages') /\ i \in 1..messages'[n].registered
      BY <3>2 DEF Registering, Registered
    <3> QED BY <1>2, <3>2, <3>3
  <2>4. r \in Accepted'
    <3>1. m \in 1..Len(messages') /\ Registered(m) + 1 \in 1..messages'[m].registered
      BY DEF Registering
    <3> QED BY <1>2, <3>1 DEF NextRecord
  <2> QED BY <2>2, <2>3, <2>4
<1> HIDE DEF r
<1>4. Accepted' = Accepted \cup {r}
  BY <1>3
<1> QED BY <1>1, <1>4 DEF r

(* It waits for the others of its wrapper,                                  *)
LEMMA IncompleteTraced ==
  ASSUME Shapes, Traced, NEW m, Registering(m), Incomplete(m), Calling' = Calling,
         UNCHANGED <<originHand, hydrationHand, delivered>>
  PROVE  Traced'
<1> DEFINE r == NextRecord(m)
           Q == Arrive(Spot, 1, {r})
<1>1. /\ m \in Messages /\ Registered(m) + 1 \in 1..MaxRecords /\ MoreHistory
  <2>1. History /\ MaxRecords \in Nat
    BY ConstantLimits DEF Shapes, DecoderShape
  <2>2. m \in Messages /\ messages[m].count \in Nat /\ messages[m].count <= MaxRecords
    BY <2>1, MessageIs DEF Registering, History
  <2> QED BY <2>1, <2>2 DEF Registering
<1>2. UNCHANGED <<pending, originOutbox, bursts, hydrationOutbox>>
      /\ staged' = [staged EXCEPT ![m] = @ \cup {Registered(m) + 1}]
  BY DEF Incomplete
<1>3. InStaged' = InStaged \cup {r}
  <2>1. staged \in [Messages -> SUBSET (1..MaxRecords)]
    BY DEF Shapes, StagedShape
  <2>2. ASSUME NEW x PROVE x \in InStaged' <=> x \in InStaged \/ x = r
    <3>1. x \in InStaged' <=> \E n \in Messages, i \in 1..MaxRecords :
                                 x = <<n, i>> /\ i \in staged'[n]
      BY DEF InStaged
    <3>2. x \in InStaged <=> \E n \in Messages, i \in 1..MaxRecords :
                                x = <<n, i>> /\ i \in staged[n]
      BY DEF InStaged
    <3>3. \A n \in Messages, i \in 1..MaxRecords :
             i \in staged'[n] <=> i \in staged[n] \/ (n = m /\ i = Registered(m) + 1)
      BY <1>1, <1>2, <2>1
    <3> QED BY <1>1, <3>1, <3>2, <3>3 DEF NextRecord
  <2> HIDE DEF InStaged, r
  <2> QED BY <2>2
<1>4. /\ Accepted' = Accepted \cup {r} /\ {r} \cap Accepted = {}
  BY AcceptedGrows
<1> HIDE DEF r
<1>5. /\ Parted(Accepted \cup {r}, Q)
      /\ \A l \in 1..8 : Q[l] = IF l = 1 THEN Spot[1] \cup {r} ELSE Spot[l]
  <2>1. Parted(Accepted, Spot) /\ 1 \in 1..8 /\ \A x \in {r} : x \notin Accepted
    BY <1>4, PartedSpot
  <2>2. Parted(Accepted \cup {r}, Arrive(Spot, 1, {r}))
    BY <2>1, ArriveIs
  <2> QED BY <2>2 DEF Arrive
<1> HIDE DEF Q
<1>6. InPending' = InPending
  BY <1>1, <1>2, PendingStays
<1>7. /\ Q[1] = InStaged' /\ Q[2] = InPending' /\ Q[3] = InOriginQueue /\ Q[4] = InOriginHand
      /\ Q[5] = InBursts /\ Q[6] = InHydrationQueue /\ Q[7] = InHydrationHand
      /\ Q[8] = InDelivered
  BY <1>3, <1>5, <1>6, PartedSpot
<1>8. Parted(Accepted, Places)'
  BY <1>2, <1>4, <1>5, <1>7, PlacesStay, Respotted
<1>9. Inj(IdOf, originOutbox') /\ ObservedOnce'
  BY <1>1, <1>2, ObservedStays DEF Traced
<1> QED BY <1>2, <1>8, <1>9, HydrationOnceStays, TracedThen

(* A wrapper is retained: its records join those of the pending deposits,  *)
(* and what the operation queues is what is no longer pending.             *)
Leaves(m, deposit, out, left) ==
  LET all == InPending \cup ({m} \X (1..messages[m].count))
  IN  /\ RecordsIn(ToSet(out)) \subseteq all
      /\ RecordsOf(left) = all \ RecordsIn(ToSet(out))
      /\ ToSet(left) \subseteq ToSet(pending) \cup {deposit}
      /\ \A e \in ToSet(out) :
           IF e.type = "observation" THEN deposit.candidate /\ e.message = m /\ e.record = 0
           ELSE e.record # 0 /\ <<e.message, e.record>> \in RecordsIn(ToSet(out))

(* What _register_group queues, and what stays pending.                     *)
LEMMA RetainedRecords ==
  ASSUME Shapes, NEW m \in StorageMessages, Registered(m) < messages[m].count,
         NEW deposit \in Deposits, deposit.message = m, NEW gone, NEW worker
  PROVE  Leaves(m, deposit, RetainedOut(deposit, gone, worker),
                Keep(Retained(deposit, gone), Evicted(deposit, gone)))
<1> DEFINE all == Append(pending, deposit)
           kept == Retained(deposit, gone)
           evicted == Evicted(deposit, gone)
           left == Keep(kept, evicted)
           a == Observed(m, deposit.candidate)
           b == Settled(all, gone, worker)
           c == Settled(kept, evicted, {})
           out == RetainedOut(deposit, gone, worker)
           R == InPending \cup ({m} \X (1..messages[m].count))
<1>1. /\ all \in Seq(Deposits) /\ Inj(MessageOf, all)
      /\ ToSet(all) = ToSet(pending) \cup {deposit}
      /\ kept \in Seq(Deposits) /\ Inj(MessageOf, kept)
      /\ ToSet(kept) = {p \in ToSet(all) : p.message \notin gone}
      /\ ToSet(out) = ToSet(a) \cup ToSet(b) \cup ToSet(c)
  BY RetainIs
<1>2. History /\ m \in 1..Len(messages) /\ deposit.candidate \in BOOLEAN
  BY DEF Shapes, DecoderShape, Deposits, StorageMessages
<1>3. kept = Keep(all, gone)
  BY DEF Retained
<1>4. RecordsOf(all) = R
  <2> HIDE DEF all
  <2>1. ASSUME NEW x PROVE x \in RecordsOf(all) <=> x \in R
    <3>1. x \in RecordsOf(all) <=>
            \E p \in ToSet(all) : \E i \in 1..messages[p.message].count : x = <<p.message, i>>
      BY RecordsOfIs
    <3>2. x \in InPending <=>
            \E p \in ToSet(pending) : \E i \in 1..messages[p.message].count : x = <<p.message, i>>
      BY DEF InPending
    <3>3. x \in {m} \X (1..messages[m].count) <=>
            \E i \in 1..messages[m].count : x = <<deposit.message, i>>
      OBVIOUS
    <3> QED BY <1>1, <3>1, <3>2, <3>3
  <2> HIDE DEF R
  <2> QED BY <2>1
<1> HIDE DEF all, kept, evicted
<1>5. /\ RecordsIn(ToSet(b)) = {r \in RecordsOf(all) : r[1] \in gone}
      /\ RecordsOf(kept) = {r \in RecordsOf(all) : r[1] \notin gone}
  BY <1>1, <1>3, SettledRecords
<1>6. /\ RecordsIn(ToSet(c)) = {r \in RecordsOf(kept) : r[1] \in evicted}
      /\ RecordsOf(left) = {r \in RecordsOf(kept) : r[1] \notin evicted}
  BY <1>1, SettledRecords
<1>7. ToSet(left) \subseteq ToSet(kept)
  <2> DEFINE D == Deposits
  <2>1. kept \in Seq(D)
    BY <1>1
  <2> HIDE DEF D
  <2> QED BY <2>1, KeepIs
<1>8. \A e \in ToSet(a) : /\ deposit.candidate /\ e.message = m /\ e.record = 0
                          /\ e.type = "observation"
  BY <1>2, ObservedIs
<1>9. \A e \in ToSet(b) : e.record # 0 /\ e.type # "observation"
  <2> TAKE e \in ToSet(b)
  <2>1. e.record # 0 /\ e.type \in StorageTypes
    BY <1>1, <1>2, SettledIds
  <2> QED BY <2>1, TypesAre
<1>10. \A e \in ToSet(c) : e.record # 0 /\ e.type # "observation"
  <2> TAKE e \in ToSet(c)
  <2>1. e.record # 0 /\ e.type \in StorageTypes
    BY <1>1, <1>2, SettledIds
  <2> QED BY <2>1, TypesAre
<1>11. RecordsIn(ToSet(a)) = {}
  BY <1>2, ObservedRecords
<1> HIDE DEF a, b, c, out, left, R
<1>12. RecordsIn(ToSet(out)) = RecordsIn(ToSet(b)) \cup RecordsIn(ToSet(c))
  <2>1. \A x : x \in RecordsIn(ToSet(out)) <=>
               \E e \in ToSet(out) : e.type # "observation" /\ x = <<e.message, e.record>>
    BY RecordsInIs
  <2>2. \A x : x \in RecordsIn(ToSet(b)) <=>
               \E e \in ToSet(b) : e.type # "observation" /\ x = <<e.message, e.record>>
    BY RecordsInIs
  <2>3. \A x : x \in RecordsIn(ToSet(c)) <=>
               \E e \in ToSet(c) : e.type # "observation" /\ x = <<e.message, e.record>>
    BY RecordsInIs
  <2> QED BY <1>1, <1>8, <2>1, <2>2, <2>3
<1>13. RecordsIn(ToSet(out)) \subseteq R /\ RecordsOf(left) = R \ RecordsIn(ToSet(out))
  BY <1>4, <1>5, <1>6, <1>12
<1>14. ToSet(left) \subseteq ToSet(pending) \cup {deposit}
  BY <1>1, <1>7
<1>15. ASSUME NEW e \in ToSet(out)
       PROVE  IF e.type = "observation" THEN deposit.candidate /\ e.message = m /\ e.record = 0
              ELSE e.record # 0 /\ <<e.message, e.record>> \in RecordsIn(ToSet(out))
  <2>1. e.type # "observation" => <<e.message, e.record>> \in RecordsIn(ToSet(out))
    BY DEF RecordsIn
  <2> QED BY <1>1, <1>8, <1>9, <1>10, <2>1
<1> QED BY <1>13, <1>14, <1>15 DEF R, out, left, kept, evicted, Leaves

(* ... or completes them, and they are pending or queued.                   *)
LEMMA CompletedTraced ==
  ASSUME Shapes, Traced, NEW m, Handing(m), Registering(m), Completed(m), Calling' = Calling,
         UNCHANGED <<originHand, hydrationHand, delivered>>
  PROVE  Traced'
<1> DEFINE r == NextRecord(m)
           X == {m} \X (1..messages[m].count)
<1>1. /\ messages[m].count = Registered(m) + 1 /\ Registered(m) < messages[m].count
      /\ staged[m] = 1..Registered(m) /\ Registered(m) \in Nat
  BY CompletedIs
<1>2. /\ m \in StorageMessages /\ staged' = [staged EXCEPT ![m] = {}]
      /\ UNCHANGED <<bursts, hydrationOutbox>>
  BY DEF Completed
<1>3. /\ m \in Messages /\ m \in 1..Len(messages) /\ MoreHistory /\ History
      /\ MaxRecords \in Nat /\ messages[m].count \in 1..MaxRecords
  <2>1. m \in 1..Len(messages) /\ History
    BY <1>2 DEF StorageMessages, Shapes, DecoderShape
  <2> QED BY <2>1, MessageIs DEF Registering, History
<1>4. PICK deposit \in Deposits : \E gone, worker :
        deposit.message = m /\ worker \subseteq gone /\ Retain(deposit, gone, worker)
  BY DEF Completed
<1>5. PICK gone, worker :
        deposit.message = m /\ worker \subseteq gone /\ Retain(deposit, gone, worker)
  BY <1>4
<1> DEFINE out == RetainedOut(deposit, gone, worker)
           left == Keep(Retained(deposit, gone), Evicted(deposit, gone))
           B == RecordsIn(ToSet(out))
<1>6. /\ pending' = left /\ originOutbox' = originOutbox \o out
      /\ out \in Seq(Known(OriginTypes)) /\ Inj(IdOf, out)
  <2> HIDE DEF X, r
  <2> QED BY <1>1, <1>2, <1>5, RetainIs
<1>7. /\ B \subseteq InPending \cup X /\ RecordsOf(left) = (InPending \cup X) \ B
      /\ ToSet(left) \subseteq ToSet(pending) \cup {deposit}
      /\ \A e \in ToSet(out) :
           IF e.type = "observation" THEN deposit.candidate /\ e.message = m /\ e.record = 0
           ELSE e.record # 0 /\ <<e.message, e.record>> \in B
  <2>1. Leaves(m, deposit, out, left)
    BY <1>1, <1>2, <1>5, RetainedRecords
  <2> QED BY <2>1 DEF Leaves
<1> HIDE DEF out, left, B
<1>8. X \subseteq InStaged \cup {r} /\ InStaged' = (InStaged \cup {r}) \ X
  <2>0. staged \in [Messages -> SUBSET (1..MaxRecords)]
    BY DEF Shapes, StagedShape
  <2>1. ASSUME NEW x
        PROVE  x \in InStaged <=> \E n \in Messages : \E i \in 1..MaxRecords :
                                    x = <<n, i>> /\ i \in staged[n]
    BY DEF InStaged
  <2>2. ASSUME NEW x
        PROVE  x \in InStaged' <=> \E n \in Messages : \E i \in 1..MaxRecords :
                                    x = <<n, i>> /\ i \in staged'[n]
    BY DEF InStaged
  <2>3. \A n \in Messages : staged'[n] = IF n = m THEN {} ELSE staged[n]
    BY <1>2, <2>0
  <2>4. ASSUME NEW x PROVE x \in X <=> \E i \in 1..messages[m].count : x = <<m, i>>
    OBVIOUS
  <2>5. \A i \in 1..messages[m].count :
           i \in 1..MaxRecords /\ (i \in staged[m] \/ i = Registered(m) + 1)
    BY <1>1, <1>3
  <2>6. \A i \in staged[m] : i \in 1..messages[m].count
    BY <1>1
  <2>7. Registered(m) + 1 \in 1..messages[m].count
    BY <1>1
  <2>8. r = <<m, Registered(m) + 1>>
    BY DEF NextRecord
  <2> HIDE DEF r, X, InStaged
  <2>9. \A x \in X : x \in InStaged \/ x = r
    BY <1>3, <2>1, <2>4, <2>5, <2>8
  <2>10. \A x \in InStaged : x \in X \/ x \in InStaged'
    BY <1>3, <2>1, <2>2, <2>3, <2>4, <2>6
  <2>11. \A x \in InStaged' : x \in InStaged /\ x \notin X
    BY <1>3, <2>1, <2>2, <2>3, <2>4
  <2>12. r \in X
    BY <2>4, <2>7, <2>8
  <2> QED BY <2>9, <2>10, <2>11, <2>12
<1> HIDE DEF X
<1>9. /\ Accepted' = Accepted \cup {r} /\ \A x \in {r} : x \notin Accepted
  BY AcceptedGrows
<1> HIDE DEF r
<1> DEFINE P1 == Arrive(Spot, 1, {r})
           P2 == Move(P1, 1, 2, X)
           P3 == Move(P2, 2, 3, B)
<1>10. /\ Parted(Accepted \cup {r}, P1) /\ P1 = [l \in 1..8 |-> P1[l]]
       /\ \A l \in 1..8 : P1[l] = IF l = 1 THEN Spot[1] \cup {r} ELSE Spot[l]
  <2>1. Parted(Accepted, Spot) /\ 1 \in 1..8
    BY PartedSpot
  <2>2. Parted(Accepted \cup {r}, Arrive(Spot, 1, {r}))
    BY <1>9, <2>1, ArriveIs
  <2>3. P1 = [l \in 1..8 |-> IF l = 1 THEN Spot[1] \cup {r} ELSE Spot[l]]
    BY DEF Arrive
  <2> HIDE DEF P1
  <2> QED BY <2>2, <2>3 DEF P1
<1> HIDE DEF P1
<1>11. /\ Parted(Accepted \cup {r}, P2) /\ P2 = [l \in 1..8 |-> P2[l]]
       /\ \A l \in 1..8 : P2[l] = IF l = 1 THEN P1[1] \ X ELSE IF l = 2 THEN P1[2] \cup X
                                                           ELSE P1[l]
  <2>1. X \subseteq P1[1]
    BY <1>8, <1>10, PartedSpot
  <2> QED BY <1>10, <2>1, MoveIs
<1> HIDE DEF P2
<1>12. /\ Parted(Accepted \cup {r}, P3)
       /\ \A l \in 1..8 : P3[l] = IF l = 2 THEN P2[2] \ B ELSE IF l = 3 THEN P2[3] \cup B
                                                           ELSE P2[l]
  <2>1. B \subseteq P2[2]
    BY <1>7, <1>10, <1>11, PartedSpot
  <2> QED BY <1>11, <2>1, MoveIs
<1> HIDE DEF P3
<1>13. B \cap InOriginQueue = {}
  <2>1. P2[2] \cap P2[3] = {}
    BY <1>11 DEF Parted
  <2>2. P2[3] = InOriginQueue /\ P2[2] = InPending \cup X
    BY <1>10, <1>11, PartedSpot
  <2> QED BY <1>7, <2>1, <2>2
<1>14. \A x \in ToSet(originOutbox) : x.type = "observation" => x.message # m
  <2> SUFFICES ASSUME NEW x \in ToSet(originOutbox), x.type = "observation", x.message = m
               PROVE  FALSE
    OBVIOUS
  <2>1. Registered(m) = messages[m].count
    BY DEF Traced, ObservedOnce
  <2> QED BY <1>1, <2>1
<1>15. /\ Inj(IdOf, originOutbox')
       /\ ToSet(originOutbox') = ToSet(originOutbox) \cup ToSet(out)
       /\ InOriginQueue' = InOriginQueue \cup B
  <2>1. \A e \in ToSet(out) :
            IF e.type = "observation"
            THEN e.record = 0 /\ \A x \in ToSet(originOutbox) :
                                    x.type = "observation" => x.message # e.message
            ELSE e.record # 0 /\ <<e.message, e.record>> \notin InOriginQueue
    BY <1>7, <1>13, <1>14
  <2> QED BY <1>6, <2>1, OriginNew DEF B
<1>16. InPending' = (InPending \cup X) \ B
  <2>1. \A p \in ToSet(left) : messages'[p.message].count = messages[p.message].count
    <3>1. \A p \in ToSet(pending) : p.message \in 1..Len(messages)
      BY PendingMember
    <3> QED BY <1>3, <1>5, <1>7, <3>1 DEF MoreHistory
  <2>2. InPending' = UNION {{p.message} \X (1..messages'[p.message].count) : p \in ToSet(left)}
    BY <1>6 DEF InPending
  <2>3. InPending' = RecordsOf(left)
    BY <2>1, <2>2 DEF RecordsOf
  <2> QED BY <1>7, <2>3
<1>17. Parted(Accepted, Places)'
  <2>1. /\ P3[1] = InStaged' /\ P3[2] = InPending' /\ P3[3] = InOriginQueue'
        /\ P3[4] = InOriginHand /\ P3[5] = InBursts /\ P3[6] = InHydrationQueue
        /\ P3[7] = InHydrationHand /\ P3[8] = InDelivered
    BY <1>8, <1>10, <1>11, <1>12, <1>15, <1>16, PartedSpot
  <2> QED BY <1>2, <1>9, <1>12, <2>1, PlacesStay, Respotted
<1>18. ObservedOnce'
  <2> SUFFICES ASSUME NEW e \in ToSet(originOutbox'), e.type = "observation"
               PROVE  /\ e.record = 0
                      /\ messages'[e.message].registered = messages'[e.message].count
                      /\ \A p \in ToSet(pending') : p.message = e.message => p.candidate
    BY DEF ObservedOnce, Registered
  <2>1. CASE e \in ToSet(originOutbox)
    <3>1. e.message \in 1..Len(messages)
      BY <2>1, QueuedRecords, EventIs, TypesAre
    <3>2. /\ e.record = 0 /\ Registered(e.message) = messages[e.message].count
          /\ \A p \in ToSet(pending) : p.message = e.message => p.candidate
      BY <2>1 DEF Traced, ObservedOnce
    <3>3. e.message # m
      BY <1>14, <2>1
    <3>4. messages'[e.message] = messages[e.message]
      BY <3>1, <3>3 DEF Registering
    <3>5. \A p \in ToSet(pending') : p.message = e.message => p \in ToSet(pending)
      BY <1>5, <1>6, <1>7, <3>3
    <3> QED BY <3>2, <3>4, <3>5 DEF Registered
  <2>2. CASE e \in ToSet(out)
    <3>1. deposit.candidate /\ e.message = m /\ e.record = 0
      BY <1>7, <2>2
    <3>2. messages'[m].registered = Registered(m) + 1 /\ messages'[m].count = messages[m].count
      BY <1>3 DEF Registering, MoreHistory
    <3>3. \A p \in ToSet(pending) : p.message # m
      BY <1>1, <1>2, <1>5, RegisteredDeposits
    <3>4. \A p \in ToSet(pending') : p.message = m => p = deposit
      BY <1>6, <1>7, <3>3
    <3> QED BY <1>1, <3>1, <3>2, <3>4
  <2> QED BY <1>15, <2>1, <2>2
<1> QED BY <1>2, <1>15, <1>17, <1>18, HydrationOnceStays, TracedThen

(* A cohort is of one connection, so the cohorts share no record.          *)
LEMMA BurstRecords ==
  ASSUME Shapes, NEW k \in Keys
  PROVE  /\ BurstEvents(k) \in Seq(NeutralEvents)
         /\ \A x : x \in InBurst(k) <=>
                   \E e \in ToSet(BurstEvents(k)) : x = <<e.message, e.record>>
         /\ \A x \in InBurst(k) : KeyOf(x[1]) = k
<1>1. /\ BurstEvents(k) \in Seq(NeutralEvents)
      /\ \A e \in ToSet(BurstEvents(k)) : Key(e) = k
  BY DEF Shapes, BurstsShape, BurstShape, BurstEvents, NeutralEvents, ToSet
<1> DEFINE N == NeutralEvents
           s == BurstEvents(k)
<1>2. \A e \in N : e.type # "observation"
  BY DEF NeutralEvents, Known
<1> HIDE DEF N, s
<1>3. \A e \in ToSet(s) : e \in N
  BY <1>1, InSeq DEF N, s
<1>4. ASSUME NEW x
      PROVE  x \in InBurst(k) <=> \E e \in ToSet(s) : x = <<e.message, e.record>>
  <2>1. x \in InBurst(k) <=>
          \E e \in ToSet(s) : e.type # "observation" /\ x = <<e.message, e.record>>
    BY RecordsInIs DEF InBurst, s
  <2> QED BY <1>2, <1>3, <2>1
<1>5. ASSUME NEW x \in InBurst(k) PROVE KeyOf(x[1]) = k
  <2>1. PICK e \in ToSet(s) : x = <<e.message, e.record>>
    BY <1>4
  <2>2. Key(e) = k
    BY <1>1 DEF s
  <2> QED BY <2>1, <2>2 DEF Key, KeyOf
<1> QED BY <1>1, <1>4, <1>5 DEF s

(* The records of all bursts.                                               *)
LEMMA InBurstsIs ==
  ASSUME NEW x
  PROVE  /\ x \in InBursts <=> \E k \in Keys : x \in InBurst(k)
         /\ x \in InBursts' <=> \E k \in Keys : x \in InBurst(k)'
  BY DEF InBursts

(* What a flushed cohort held is queued.                                   *)
LEMMA FlushRecords ==
  ASSUME Shapes, Traced, NEW keys \in SUBSET Keys
  PROVE  LET out == Unconfirmed(keys) IN
         /\ out \in Seq(NeutralEvents) /\ out \in Seq(Known(HydrationTypes)) /\ Inj(IdOf, out)
         /\ \A x : x \in RecordsIn(ToSet(out)) <=> \E k \in keys : x \in InBurst(k)
         /\ RecordsIn(ToSet(out)) \subseteq InBursts
<1> DEFINE out == Unconfirmed(keys)
<1>1. /\ out \in Seq(NeutralEvents)
      /\ ToSet(out) = UNION {ToSet(BurstEvents(k)) : k \in keys}
      /\ (\A k \in keys : Inj(IdOf, BurstEvents(k))) => Inj(IdOf, out)
  BY FlushIs
<1>2. \A k \in keys : Inj(IdOf, BurstEvents(k))
  BY DEF Traced
<1>3. out \in Seq(Known(HydrationTypes))
  BY <1>1, NeutralIsHydration
<1> HIDE DEF out
<1>4. \A e : e \in ToSet(out) <=> \E k \in keys : e \in ToSet(BurstEvents(k))
  BY <1>1
<1>5. ASSUME NEW x
      PROVE  x \in RecordsIn(ToSet(out)) <=> \E k \in keys : x \in InBurst(k)
  <2>1. x \in RecordsIn(ToSet(out)) <=>
          \E e \in ToSet(out) : e.type # "observation" /\ x = <<e.message, e.record>>
    BY RecordsInIs
  <2>2. \A k \in keys : x \in InBurst(k) <=>
          \E e \in ToSet(BurstEvents(k)) : e.type # "observation" /\ x = <<e.message, e.record>>
    BY RecordsInIs DEF InBurst
  <2> QED BY <1>4, <2>1, <2>2
<1>6. RecordsIn(ToSet(out)) \subseteq InBursts
  BY <1>5, InBurstsIs
<1> QED BY <1>1, <1>2, <1>3, <1>5, <1>6 DEF out

(* ... and the other cohorts stay.                                         *)
LEMMA FlushedBursts ==
  ASSUME Shapes, Traced, NEW keys \in SUBSET Keys, bursts' = Without(keys)
  PROVE  /\ InBursts' = InBursts \ RecordsIn(ToSet(Unconfirmed(keys)))
         /\ \A k \in Keys : Inj(IdOf, BurstEvents(k)')
<1> DEFINE O == RecordsIn(ToSet(Unconfirmed(keys)))
<1>1. \A x : x \in O <=> \E k \in keys : x \in InBurst(k)
  BY FlushRecords
<1> HIDE DEF O
<1>2. \A k \in Keys : BurstEvents(k)' = IF k \in keys THEN <<>> ELSE BurstEvents(k)
  BY DEF Without, BurstEvents
<1>3. \A k \in Keys : InBurst(k)' = IF k \in keys THEN {} ELSE InBurst(k)
  <2>1. ToSet(<<>>) = {} /\ RecordsIn({}) = {}
    BY DEF ToSet, RecordsIn
  <2>2. \A k \in Keys : InBurst(k)' = RecordsIn(ToSet(BurstEvents(k)'))
    BY DEF InBurst, RecordsIn
  <2>3. \A k \in Keys : InBurst(k) = RecordsIn(ToSet(BurstEvents(k)))
    BY DEF InBurst
  <2> QED BY <1>2, <2>1, <2>2, <2>3
<1>4. ASSUME NEW x PROVE x \in InBursts' <=> x \in InBursts /\ x \notin O
  <2>1. \A k \in Keys : x \in InBurst(k) => KeyOf(x[1]) = k
    BY BurstRecords
  <2> QED BY <1>1, <1>3, <2>1, InBurstsIs
<1>5. ASSUME NEW k \in Keys PROVE Inj(IdOf, BurstEvents(k)')
  <2>1. Inj(IdOf, BurstEvents(k))
    BY DEF Traced
  <2>2. Inj(IdOf, <<>>)
    BY DEF Inj
  <2> QED BY <1>2, <2>1, <2>2
<1>6. InBursts' = InBursts \ O
  <2> HIDE DEF InBursts
  <2> QED BY <1>4
<1> QED BY <1>5, <1>6 DEF O

(* The hydration tracker takes the records S in: they join a cohort, or    *)
(* are queued with what the operation ends.                                *)
Hydrates(S, out) ==
  /\ hydrationOutbox' = hydrationOutbox \o out
  /\ out \in Seq(Known(HydrationTypes)) /\ Inj(IdOf, out)
  /\ RecordsIn(ToSet(out)) \subseteq InBursts \cup S
  /\ InBursts' = (InBursts \cup S) \ RecordsIn(ToSet(out))
  /\ \A k \in Keys : Inj(IdOf, BurstEvents(k)')

(* What is queued arrives at the hydration outbox.                          *)
LEMMA HydrationQueued2 ==
  ASSUME Shapes, Traced, NEW out \in Seq(Known(HydrationTypes)), Inj(IdOf, out),
         RecordsIn(ToSet(out)) \cap InHydrationQueue = {},
         hydrationOutbox' = hydrationOutbox \o out
  PROVE  /\ Inj(IdOf, hydrationOutbox')
         /\ InHydrationQueue' = InHydrationQueue \cup RecordsIn(ToSet(out))
<1>1. Inj(IdOf, hydrationOutbox')
  BY HydrationUnique
<1>2. ToSet(hydrationOutbox') = ToSet(hydrationOutbox) \cup ToSet(out)
  <2> DEFINE K == Known(HydrationTypes)
  <2>1. hydrationOutbox \in Seq(K) /\ out \in Seq(K)
    BY DEF Shapes, HydrationShape
  <2> HIDE DEF K
  <2> QED BY <2>1, AppendedElements
<1>3. InHydrationQueue' = RecordsIn(ToSet(hydrationOutbox'))
  BY DEF InHydrationQueue, RecordsIn
<1>4. RecordsIn(ToSet(hydrationOutbox) \cup ToSet(out)) =
         RecordsIn(ToSet(hydrationOutbox)) \cup RecordsIn(ToSet(out))
  BY RecordsUnion
<1> QED BY <1>1, <1>2, <1>3, <1>4 DEF InHydrationQueue

(* An operation of the hydration tracker, as a move.                        *)
LEMMA HydratesMoves ==
  ASSUME Shapes, Traced, NEW S, NEW out, Hydrates(S, out), UNCHANGED delivered,
         NEW P, P = [l \in 1..8 |-> P[l]], NEW A, Parted(A, P),
         P[5] = InBursts \cup S, P[6] = InHydrationQueue
  PROVE  /\ Parted(A, Move(P, 5, 6, RecordsIn(ToSet(out))))
         /\ Move(P, 5, 6, RecordsIn(ToSet(out)))[5] = InBursts'
         /\ Move(P, 5, 6, RecordsIn(ToSet(out)))[6] = InHydrationQueue'
         /\ \A l \in 1..8 : l # 5 /\ l # 6 =>
               Move(P, 5, 6, RecordsIn(ToSet(out)))[l] = P[l]
         /\ HydrationOnce'
<1> DEFINE O == RecordsIn(ToSet(out))
           Q == Move(P, 5, 6, O)
<1>1. O \subseteq P[5] /\ 5 \in 1..8 /\ 6 \in 1..8 /\ 5 # 6
  BY DEF Hydrates
<1> HIDE DEF O
<1>2. /\ Parted(A, Q)
      /\ \A l \in 1..8 : Q[l] = IF l = 5 THEN P[5] \ O ELSE IF l = 6 THEN P[6] \cup O ELSE P[l]
  BY <1>1, MoveIs
<1> HIDE DEF Q
<1>3. O \cap InHydrationQueue = {}
  <2>1. P[5] \cap P[6] = {}
    BY <1>1 DEF Parted
  <2> QED BY <1>1, <2>1
<1>4. Inj(IdOf, hydrationOutbox') /\ InHydrationQueue' = InHydrationQueue \cup O
  <2>1. /\ hydrationOutbox' = hydrationOutbox \o out
        /\ out \in Seq(Known(HydrationTypes)) /\ Inj(IdOf, out)
    BY DEF Hydrates
  <2> QED BY <1>3, <2>1, HydrationQueued2 DEF O
<1>5. Q[5] = InBursts'
  BY <1>1, <1>2 DEF Hydrates, O
<1>6. Q[6] = InHydrationQueue'
  BY <1>1, <1>2, <1>4
<1>7. \A l \in 1..8 : l # 5 /\ l # 6 => Q[l] = P[l]
  BY <1>2
<1>8. HydrationOnce'
  <2>1. \A k \in Keys : Inj(IdOf, BurstEvents(k)')
    BY DEF Hydrates
  <2>2. \A a, b \in delivered' : IdOf[a] = IdOf[b] => a = b
    BY DEF Traced
  <2> QED BY <1>4, <2>1, <2>2 DEF HydrationOnce, IdOf, Inj, AllTypes, StorageTypes
<1> QED BY <1>2, <1>5, <1>6, <1>7, <1>8 DEF Q, O

(* The hydration half of closing moves records from bursts to the outbox.   *)
LEMMA HalfTraced ==
  ASSUME Shapes, Traced, NEW t \in Threads, HydrationHalf(t), Calling' = Calling
  PROVE  Traced'
<1>1. UNCHANGED <<messages, staged, pending, originOutbox, originHand, hydrationHand, delivered>>
  BY DEF HydrationHalf, decoder, origin
<1>2. PICK keys \in SUBSET Keys :
        /\ bursts' = Without(keys) /\ hydrationOutbox' = hydrationOutbox \o Unconfirmed(keys)
  BY HalfIs
<1> DEFINE out == Unconfirmed(keys)
           O == RecordsIn(ToSet(out))
           Q == Move(Spot, 5, 6, O)
<1>3. Hydrates({}, out)
  BY <1>2, FlushRecords, FlushedBursts DEF Hydrates
<1>4. /\ Parted(Accepted, Q) /\ Q[5] = InBursts' /\ Q[6] = InHydrationQueue'
      /\ \A l \in 1..8 : l # 5 /\ l # 6 => Q[l] = Spot[l]
      /\ HydrationOnce'
  <2>1. Parted(Accepted, Spot) /\ Spot = [l \in 1..8 |-> Spot[l]]
        /\ Spot[5] = InBursts \cup {} /\ Spot[6] = InHydrationQueue
    BY PartedSpot
  <2> HIDE DEF out
  <2> QED BY <1>1, <1>3, <2>1, HydratesMoves
<1> HIDE DEF Q
<1>5. MoreHistory
  BY <1>1, SameHistory DEF Shapes
<1>6. InPending' = InPending
  BY <1>1, <1>5, PendingStays
<1>7. /\ Q[1] = InStaged /\ Q[2] = InPending' /\ Q[3] = InOriginQueue /\ Q[4] = InOriginHand
      /\ Q[7] = InHydrationHand /\ Q[8] = InDelivered
  BY <1>4, <1>6, PartedSpot
<1>8. Accepted' = Accepted
  BY <1>1 DEF Accepted
<1>9. Parted(Accepted, Places)'
  BY <1>1, <1>4, <1>7, <1>8, PlacesStay, Respotted
<1>10. Inj(IdOf, originOutbox') /\ ObservedOnce'
  BY <1>1, <1>5, ObservedStays DEF Traced
<1> QED BY <1>4, <1>9, <1>10, TracedThen

(* A record comes after others.                                             *)
LEMMA AppendedOnce ==
  ASSUME Shapes, NEW types \in SUBSET AllTypes, "observation" \notin types,
         NEW s \in Seq(Known(types)), NEW e \in Known(types), Inj(IdOf, s),
         <<e.message, e.record>> \notin RecordsIn(ToSet(s))
  PROVE  /\ Append(s, e) \in Seq(Known(types)) /\ Inj(IdOf, Append(s, e))
         /\ RecordsIn(ToSet(Append(s, e))) = RecordsIn(ToSet(s)) \cup {<<e.message, e.record>>}
<1> DEFINE K == Known(types)
<1>1. \A x \in K : IdOf[x] = <<x.message, x.record>> /\ x.type \in types
  BY EventIs
<1> HIDE DEF K
<1>2. \A x \in ToSet(s) : x \in K
  BY InSeq DEF K
<1>3. Append(s, e) = s \o <<e>> /\ <<e>> \in Seq(K) /\ ToSet(<<e>>) = {e}
      /\ Inj(IdOf, <<e>>)
  BY DEF ToSet, Inj, K
<1>4. s \in Seq(K)
  BY DEF K
<1>5. \A x \in ToSet(s) : IdOf[x] # IdOf[e]
  <2> TAKE x \in ToSet(s)
  <2>1. x \in K /\ x.type # "observation" /\ e \in K
    BY <1>1, <1>2 DEF K
  <2>2. <<x.message, x.record>> \in RecordsIn(ToSet(s))
    BY <2>1 DEF RecordsIn
  <2> QED BY <1>1, <2>1, <2>2
<1>6. Append(s, e) \in Seq(K) /\ ToSet(Append(s, e)) = ToSet(s) \cup {e}
  <2>1. e \in K
    BY DEF K
  <2> QED BY <1>4, <2>1, AppendIs
<1>7. \A x \in ToSet(s), y \in ToSet(<<e>>) : IdOf[x] # IdOf[y]
  BY <1>3, <1>5
<1>8. Inj(IdOf, Append(s, e))
  <2> DEFINE u == <<e>>
  <2>1. Append(s, e) = s \o u /\ u \in Seq(K) /\ Inj(IdOf, u)
        /\ \A x \in ToSet(s), y \in ToSet(u) : IdOf[x] # IdOf[y]
    BY <1>3, <1>7
  <2> HIDE DEF u
  <2>2. Inj(IdOf, s \o u)
    BY <1>4, <2>1, AppendedInj
  <2> QED BY <2>1, <2>2
<1>9. RecordsIn({e}) = {<<e.message, e.record>>}
  <2>1. e.type # "observation"
    BY <1>1 DEF K
  <2> QED BY <2>1 DEF RecordsIn
<1>10. RecordsIn(ToSet(s) \cup {e}) = RecordsIn(ToSet(s)) \cup RecordsIn({e})
  BY RecordsUnion
<1> QED BY <1>6, <1>8, <1>9, <1>10 DEF K

(* A boundary, or a record proven live, is queued behind what it ends.     *)
LEMMA PassesOn ==
  ASSUME Shapes, Traced, NEW keys \in SUBSET Keys, NEW e \in Known(HydrationTypes),
         <<e.message, e.record>> \notin InBursts, bursts' = Without(keys),
         hydrationOutbox' = hydrationOutbox \o Append(Unconfirmed(keys), e)
  PROVE  Hydrates({<<e.message, e.record>>}, Append(Unconfirmed(keys), e))
<1> DEFINE u == Unconfirmed(keys)
           r == <<e.message, e.record>>
<1>1. u \in Seq(Known(HydrationTypes)) /\ Inj(IdOf, u) /\ RecordsIn(ToSet(u)) \subseteq InBursts
  BY FlushRecords
<1>2. /\ InBursts' = InBursts \ RecordsIn(ToSet(u))
      /\ \A k \in Keys : Inj(IdOf, BurstEvents(k)')
  BY FlushedBursts
<1> HIDE DEF u
<1>3. /\ Append(u, e) \in Seq(Known(HydrationTypes)) /\ Inj(IdOf, Append(u, e))
      /\ RecordsIn(ToSet(Append(u, e))) = RecordsIn(ToSet(u)) \cup {r}
  <2>1. r \notin RecordsIn(ToSet(u))
    BY <1>1
  <2> QED BY <1>1, <2>1, TypesAre, AppendedOnce
<1>4. hydrationOutbox' = hydrationOutbox \o Append(u, e)
  BY DEF u
<1>5. RecordsIn(ToSet(Append(u, e))) \subseteq InBursts \cup {r}
      /\ InBursts' = (InBursts \cup {r}) \ RecordsIn(ToSet(Append(u, e)))
  <2> HIDE DEF r, InBursts
  <2> QED BY <1>1, <1>2, <1>3 DEF r
<1> HIDE DEF r
<1> QED BY <1>2, <1>3, <1>4, <1>5 DEF Hydrates, u, r

(* An inventory record flushes what came before it, and is queued.          *)
LEMMA BoundaryTraced ==
  ASSUME Shapes, Traced, NEW m, Handing(m), Registering(m), Boundary(m), Calling' = Calling,
         UNCHANGED <<originHand, hydrationHand, delivered>>
  PROVE  Traced'
<1> DEFINE i == Registered(m) + 1
           e == Event(m, i, "inventory_snapshot")
           k == Key(e)
           opens == inventoryLast[k] = None \/ Time(e) - inventoryLast[k] > InventoryGap
           keys == IF opens THEN {k} ELSE {}
           r == NextRecord(m)
<1>1. m \in 1..Len(messages) /\ History /\ MoreHistory /\ Registered(m) < messages[m].count
      /\ Registered(m) \in Nat
  BY DEF Registering, Shapes, DecoderShape
<1>2. k \in Keys /\ i \in 0..MaxRecords
  <2>1. k = <<messages[m].flow, messages[m].generation>>
    BY DEF Key, Event
  <2>2. messages[m].count \in 1..MaxRecords /\ MaxRecords \in Nat
    BY <1>1, MessageIs
  <2> QED BY <1>1, <2>1, <2>2, MessageIs DEF Keys
<1>3. e \in Known(HydrationTypes)
  BY <1>1, <1>2 DEF Known, Event, HydrationTypes
<1>4. /\ bursts' = Without(keys)
      /\ hydrationOutbox' = hydrationOutbox \o Append(Unconfirmed(keys), e)
      /\ UNCHANGED <<staged, pending, originOutbox>>
  BY DEF Boundary, ObserveInventory, HydrationQueue
<1>5. keys \in SUBSET Keys /\ r = <<e.message, e.record>>
  BY <1>2 DEF Event, NextRecord
<1>6. /\ Accepted' = Accepted \cup {r} /\ \A x \in {r} : x \notin Accepted
  BY AcceptedGrows
<1>7. r \notin InBursts
  <2>1. Spot[5] = InBursts /\ 5 \in 1..8 /\ Spot[5] \subseteq Accepted
    BY PartedSpot, PlacesApart
  <2> QED BY <1>6, <2>1
<1> HIDE DEF keys, e, k, opens, i, r
<1> DEFINE out == Append(Unconfirmed(keys), e)
<1>8. Hydrates({r}, out)
  BY <1>3, <1>4, <1>5, <1>7, PassesOn
<1> HIDE DEF out
<1> DEFINE P1 == Arrive(Spot, 5, {r})
           Q == Move(P1, 5, 6, RecordsIn(ToSet(out)))
<1>9. /\ Parted(Accepted \cup {r}, P1) /\ P1 = [l \in 1..8 |-> P1[l]]
      /\ \A l \in 1..8 : P1[l] = IF l = 5 THEN Spot[5] \cup {r} ELSE Spot[l]
  <2>1. Parted(Accepted, Spot) /\ 5 \in 1..8
    BY PartedSpot
  <2>2. Parted(Accepted \cup {r}, Arrive(Spot, 5, {r}))
    BY <1>6, <2>1, ArriveIs
  <2>3. P1 = [l \in 1..8 |-> IF l = 5 THEN Spot[5] \cup {r} ELSE Spot[l]]
    BY DEF Arrive
  <2> HIDE DEF P1
  <2> QED BY <2>2, <2>3 DEF P1
<1> HIDE DEF P1
<1>10. P1[5] = InBursts \cup {r} /\ P1[6] = InHydrationQueue
  BY <1>9, PartedSpot
<1>11. /\ Parted(Accepted \cup {r}, Q) /\ Q[5] = InBursts' /\ Q[6] = InHydrationQueue'
       /\ \A l \in 1..8 : l # 5 /\ l # 6 => Q[l] = P1[l]
       /\ HydrationOnce'
  BY <1>8, <1>9, <1>10, HydratesMoves
<1> HIDE DEF Q
<1>12. InPending' = InPending
  BY <1>1, <1>4, PendingStays
<1>13. /\ Q[1] = InStaged /\ Q[2] = InPending' /\ Q[3] = InOriginQueue /\ Q[4] = InOriginHand
       /\ Q[7] = InHydrationHand /\ Q[8] = InDelivered
  BY <1>9, <1>11, <1>12, PartedSpot
<1>14. Parted(Accepted, Places)'
  BY <1>4, <1>6, <1>11, <1>13, PlacesStay, Respotted
<1>15. Inj(IdOf, originOutbox') /\ ObservedOnce'
  BY <1>1, <1>4, ObservedStays DEF Traced
<1> QED BY <1>11, <1>14, <1>15, TracedThen

JoinedRecords(e) == RecordsIn(ToSet(Joined(e).events))

(* A neutral record joins its cohort, after what it ends was queued: what  *)
(* leaves the cohort is queued, and the rest waits.                        *)
Stages(e, events, out) ==
  /\ Inj(IdOf, events)
  /\ \A l \in Keys : BurstEvents(l)' = IF l = Key(e) THEN events ELSE BurstEvents(l)
  /\ out \in Seq(Known(HydrationTypes)) /\ Inj(IdOf, out)
  /\ RecordsIn(ToSet(out)) \subseteq JoinedRecords(e) \cup {<<e.message, e.record>>}
  /\ RecordsIn(ToSet(events)) =
       (JoinedRecords(e) \cup {<<e.message, e.record>>}) \ RecordsIn(ToSet(out))
  /\ hydrationOutbox' = hydrationOutbox \o (Flushed(e) \o out)

(* What a neutral record flushes, and what it joins.                        *)
LEMMA FlushedIs ==
  ASSUME Shapes, Traced, NEW e \in NeutralEvents
  PROVE  /\ Key(e) \in Keys
         /\ Flushed(e) \in Seq(Known(HydrationTypes)) /\ Inj(IdOf, Flushed(e))
         /\ RecordsIn(ToSet(Flushed(e))) \cup JoinedRecords(e) = InBurst(Key(e))
         /\ RecordsIn(ToSet(Flushed(e))) \cap JoinedRecords(e) = {}
<1> DEFINE k == Key(e)
           u == Unconfirmed({k})
           s == BurstEvents(k)
<1>1. k \in Keys
  BY KeyIn DEF Shapes, DecoderShape, NeutralEvents
<1>2. Joined(e).events = IF Continues(bursts[k], e) THEN s ELSE <<>>
  BY JoinedIs
<1>3. Flushed(e) = IF Continues(bursts[k], e) THEN <<>> ELSE u
  BY DEF Flushed
<1>4. /\ u \in Seq(Known(HydrationTypes)) /\ Inj(IdOf, u)
      /\ \A x : x \in RecordsIn(ToSet(u)) <=> x \in InBurst(k)
  <2>1. {k} \in SUBSET Keys
    BY <1>1
  <2>2. /\ u \in Seq(Known(HydrationTypes)) /\ Inj(IdOf, u)
        /\ \A x : x \in RecordsIn(ToSet(u)) <=> \E l \in {k} : x \in InBurst(l)
    BY <2>1, FlushRecords
  <2> HIDE DEF u, k
  <2> QED BY <2>2
<1>5. InBurst(k) = RecordsIn(ToSet(s))
  BY DEF InBurst
<1> HIDE DEF u, s
<1>6. RecordsIn(ToSet(u)) = InBurst(k)
  <2> HIDE DEF InBurst, RecordsIn, k
  <2> QED BY <1>4
<1>7. RecordsIn(ToSet(<<>>)) = {} /\ Inj(IdOf, <<>>) /\ <<>> \in Seq(Known(HydrationTypes))
  <2>1. ToSet(<<>>) = {} /\ RecordsIn({}) = {}
    BY DEF ToSet, RecordsIn
  <2>2. Inj(IdOf, <<>>)
    BY DEF Inj
  <2> HIDE DEF RecordsIn
  <2> QED BY <2>1, <2>2
<1> HIDE DEF k
<1>8. CASE Continues(bursts[k], e)
  <2>1. Joined(e).events = s /\ Flushed(e) = <<>>
    BY <1>2, <1>3, <1>8
  <2> QED BY <1>1, <1>5, <1>7, <2>1 DEF JoinedRecords, k
<1>9. CASE ~Continues(bursts[k], e)
  <2>1. Joined(e).events = <<>> /\ Flushed(e) = u
    BY <1>2, <1>3, <1>9
  <2> QED BY <1>1, <1>4, <1>6, <1>7, <2>1 DEF JoinedRecords, k
<1> QED BY <1>8, <1>9

(* A neutral record enters a burst, or leaves with it.                      *)
LEMMA StagesHydrates ==
  ASSUME Shapes, Traced, NEW e \in NeutralEvents, NEW events, NEW out, Stages(e, events, out),
         <<e.message, e.record>> \notin InBursts
  PROVE  Hydrates({<<e.message, e.record>>}, Flushed(e) \o out)
<1> DEFINE k == Key(e)
           r == <<e.message, e.record>>
           u == Flushed(e)
           F == RecordsIn(ToSet(u))
           J == JoinedRecords(e)
           O == RecordsIn(ToSet(out))
           K == Known(HydrationTypes)
<1>1. /\ k \in Keys /\ u \in Seq(K) /\ Inj(IdOf, u) /\ F \cup J = InBurst(k) /\ F \cap J = {}
  BY FlushedIs
<1>2. /\ Inj(IdOf, events)
      /\ \A l \in Keys : BurstEvents(l)' = IF l = k THEN events ELSE BurstEvents(l)
      /\ out \in Seq(K) /\ Inj(IdOf, out) /\ O \subseteq J \cup {r}
      /\ RecordsIn(ToSet(events)) = (J \cup {r}) \ O
      /\ hydrationOutbox' = hydrationOutbox \o (u \o out)
  BY DEF Stages
<1>3. \A l \in Keys : InBurst(l)' = IF l = k THEN (J \cup {r}) \ O ELSE InBurst(l)
  <2>1. \A l \in Keys : InBurst(l)' = RecordsIn(ToSet(BurstEvents(l)'))
    BY DEF InBurst, RecordsIn
  <2>2. \A l \in Keys : InBurst(l) = RecordsIn(ToSet(BurstEvents(l)))
    BY DEF InBurst
  <2> HIDE DEF k, r, u, F, J, O
  <2> QED BY <1>2, <2>1, <2>2
<1>4. \A l \in Keys : \A x \in InBurst(l) : KeyOf(x[1]) = l
  BY BurstRecords
<1>5. r \notin InBurst(k) /\ InBurst(k) \subseteq InBursts
  BY <1>1, InBurstsIs
<1>6. \A x \in K : IdOf[x] = <<x.message, x.record>> /\ x.type # "observation"
  BY EventIs, TypesAre
<1> HIDE DEF k, r, u, J
<1>7. \A x \in ToSet(u) : IdOf[x] \in F
  <2> HIDE DEF K
  <2>1. \A x \in ToSet(u) : x \in K
    BY <1>1, InSeq
  <2> QED BY <1>6, <2>1, RecordsInIs
<1>8. \A x \in ToSet(out) : IdOf[x] \in O
  <2> HIDE DEF K
  <2>1. \A x \in ToSet(out) : x \in K
    BY <1>2, InSeq
  <2> QED BY <1>6, <2>1, RecordsInIs
<1> HIDE DEF F, O, K
<1>9. F \cap O = {}
  BY <1>1, <1>2, <1>5
<1>10. u \o out \in Seq(K) /\ Inj(IdOf, u \o out) /\ ToSet(u \o out) = ToSet(u) \cup ToSet(out)
  BY <1>1, <1>2, <1>7, <1>8, <1>9, AppendedElements, AppendedInj
<1>11. RecordsIn(ToSet(u \o out)) = F \cup O
  BY <1>10, RecordsUnion DEF F, O
<1>12. ASSUME NEW x
       PROVE  x \in InBursts' <=> (x \in InBursts \/ x = r) /\ x \notin F \cup O
  <2>1. x \in InBursts <=> \E l \in Keys : x \in InBurst(l)
    BY InBurstsIs
  <2>2. x \in InBursts' <=> \E l \in Keys : x \in InBurst(l)'
    BY InBurstsIs
  <2>3. CASE x \in InBurst(k) \/ x = r
    <3>1. \A l \in Keys : l # k => x \notin InBurst(l)
      <4>1. CASE x \in InBurst(k)
        BY <1>1, <1>4, <4>1
      <4>2. CASE x = r
        BY <4>2, InBurstsIs DEF r
      <4> QED BY <2>3, <4>1, <4>2
    <3>2. x \in InBursts' <=> x \in (J \cup {r}) \ O
      BY <1>1, <1>3, <2>2, <3>1
    <3> QED BY <1>1, <1>5, <2>3, <3>2
  <2>4. CASE x \notin InBurst(k) /\ x # r
    <3>1. x \notin F /\ x \notin O /\ x \notin J
      BY <1>1, <1>2, <2>4
    <3> QED BY <1>1, <1>3, <2>1, <2>2, <2>4, <3>1
  <2> QED BY <2>3, <2>4
<1>13. InBursts' = (InBursts \cup {r}) \ (F \cup O)
  <2> HIDE DEF InBursts
  <2> QED BY <1>12
<1>14. F \cup O \subseteq InBursts \cup {r}
  BY <1>1, <1>2, <1>5
<1>15. \A l \in Keys : Inj(IdOf, BurstEvents(l)')
  <2>1. \A l \in Keys : Inj(IdOf, BurstEvents(l))
    BY DEF Traced
  <2> QED BY <1>2, <2>1
<1> QED BY <1>2, <1>10, <1>11, <1>13, <1>14, <1>15 DEF Hydrates, K, r, u

(* A snapshot has the records of its burst.                                 *)
LEMMA SnapshotRecords ==
  ASSUME Shapes, NEW s \in Seq(NeutralEvents), Inj(IdOf, s)
  PROVE  /\ AsSnapshots(s) \in Seq(Known(HydrationTypes)) /\ Inj(IdOf, AsSnapshots(s))
         /\ RecordsIn(ToSet(AsSnapshots(s))) = RecordsIn(ToSet(s))
<1> DEFINE out == AsSnapshots(s)
           K == Known({"storage_snapshot"})
           N == NeutralEvents
<1>1. /\ out \in Seq(K) /\ Inj(IdOf, out) /\ ToSet(out) = {SnapshotOf(e) : e \in ToSet(s)}
  BY SnapshotsAre DEF Shapes, DecoderShape
<1>2. K \subseteq Known(HydrationTypes)
  BY DEF Known, HydrationTypes
<1>3. \A e \in N : /\ e.type # "observation" /\ SnapshotOf(e).type # "observation"
                   /\ SnapshotOf(e).message = e.message /\ SnapshotOf(e).record = e.record
  BY DEF SnapshotOf, Known, NeutralEvents
<1> HIDE DEF out, K, N
<1>4. \A e \in ToSet(s) : e \in N
  BY InSeq DEF N
<1>5. ASSUME NEW x PROVE x \in RecordsIn(ToSet(out)) <=> x \in RecordsIn(ToSet(s))
  <2>1. x \in RecordsIn(ToSet(out)) <=>
          \E e \in ToSet(out) : e.type # "observation" /\ x = <<e.message, e.record>>
    BY RecordsInIs
  <2>2. x \in RecordsIn(ToSet(s)) <=>
          \E e \in ToSet(s) : e.type # "observation" /\ x = <<e.message, e.record>>
    BY RecordsInIs
  <2> QED BY <1>1, <1>3, <1>4, <2>1, <2>2
<1>6. RecordsIn(ToSet(out)) = RecordsIn(ToSet(s))
  <2> HIDE DEF RecordsIn
  <2> QED BY <1>5
<1>7. out \in Seq(Known(HydrationTypes))
  BY <1>1, <1>2, SeqWidens
<1> QED BY <1>1, <1>6, <1>7 DEF out

(* What may become of a burst.                                              *)
LEMMA NewBursts ==
  ASSUME Shapes, NEW e \in NeutralEvents
  PROVE  /\ Joined(e) # None /\ Confirming(e) # None /\ Waiting(e) # None
         /\ Confirming(e) \in Cohorts /\ Waiting(e) \in Cohorts
         /\ Confirming(e).events = <<>>
         /\ Waiting(e).events = Append(Joined(e).events, e)
<1> DEFINE j == Joined(e)
           E == Seq([message : Nat, record : Nat, type : {"storage_record"}])
           N == NeutralEvents
<1>1. j \in Cohorts /\ j.events \in Seq(N)
  BY JoinedIs
<1>2. N \subseteq [message : Nat, record : Nat, type : {"storage_record"}]
  <2>1. MaxRecords \in Nat
    BY ConstantLimits
  <2> QED BY <2>1 DEF NeutralEvents, Known, History
<1> DEFINE before == j.events
           events == Append(before, e)
<1>3. before \in Seq(N)
  BY <1>1
<1>4. events \in Seq(N)
  <2> HIDE DEF before
  <2>1. e \in N
    OBVIOUS
  <2> HIDE DEF N
  <2> QED BY <1>3, <2>1, AppendIs
<1>5. events \in E
  <2> HIDE DEF N, events
  <2> QED BY <1>2, <1>4, SeqWidens
<1>6. j \in [first : Nat, last : Nat, anchored : BOOLEAN, events : E,
             destinations : SUBSET Destinations, recordCount : Nat, confirmed : BOOLEAN]
  BY <1>1 DEF Cohorts
<1>7. <<>> \in E
  OBVIOUS
<1> HIDE DEF j, E
<1>8. /\ Confirming(e) = [j EXCEPT !.confirmed = TRUE, !.events = <<>>]
      /\ Waiting(e) = [j EXCEPT !.events = events]
  BY DEF Confirming, Waiting, j
<1> HIDE DEF events
<1>9. /\ Confirming(e) \in [first : Nat, last : Nat, anchored : BOOLEAN, events : E,
             destinations : SUBSET Destinations, recordCount : Nat, confirmed : BOOLEAN]
      /\ Waiting(e) \in [first : Nat, last : Nat, anchored : BOOLEAN, events : E,
             destinations : SUBSET Destinations, recordCount : Nat, confirmed : BOOLEAN]
      /\ Confirming(e).events = <<>> /\ Waiting(e).events = events
  BY <1>5, <1>6, <1>7, <1>8
<1>10. Confirming(e) \in Cohorts /\ Waiting(e) \in Cohorts
  BY <1>9 DEF Cohorts, E
<1> QED BY <1>1, <1>9, <1>10, CollectorConstants DEF j, events

(* StageNeutral, as a move.                                                 *)
LEMMA StagesIs ==
  ASSUME Shapes, Traced, NEW e \in NeutralEvents, StageNeutral(e),
         <<e.message, e.record>> \notin InBursts
  PROVE  \E events, out : Stages(e, events, out)
<1> DEFINE k == Key(e)
           j == Joined(e)
           s == j.events
           r == <<e.message, e.record>>
           N == NeutralEvents
           K == Known(HydrationTypes)
<1>1. k \in Keys /\ JoinedRecords(e) \subseteq InBursts
  BY FlushedIs, InBurstsIs
<1>2. s \in Seq(N) /\ Inj(IdOf, s)
  <2>1. s \in Seq(N)
    BY JoinedIs
  <2>2. s = IF Continues(bursts[k], e) THEN BurstEvents(k) ELSE <<>>
    BY JoinedIs
  <2>3. Inj(IdOf, BurstEvents(k)) /\ Inj(IdOf, <<>>)
    BY <1>1 DEF Traced, Inj
  <2> QED BY <2>1, <2>2, <2>3
<1>3. /\ j # None /\ Confirming(e) # None /\ Waiting(e) # None
      /\ Confirming(e).events = <<>> /\ Waiting(e).events = Append(s, e)
  BY NewBursts
<1>4. JoinedRecords(e) = RecordsIn(ToSet(s))
  BY DEF JoinedRecords
<1>5. /\ Append(s, e) \in Seq(N) /\ Inj(IdOf, Append(s, e))
      /\ RecordsIn(ToSet(Append(s, e))) = RecordsIn(ToSet(s)) \cup {r}
  <2> DEFINE types == {"storage_record"}
  <2>1. types \in SUBSET AllTypes /\ "observation" \notin types /\ N = Known(types)
    BY TypesAre DEF NeutralEvents
  <2>2. r \notin RecordsIn(ToSet(s))
    BY <1>1, <1>4
  <2> HIDE DEF types, s, N
  <2> QED BY <1>2, <2>1, <2>2, AppendedOnce DEF N
<1>6. <<e>> \in Seq(N) /\ Inj(IdOf, <<e>>) /\ RecordsIn(ToSet(<<e>>)) = {r}
  <2>1. ToSet(<<e>>) = {e} /\ e.type # "observation"
    BY DEF ToSet, NeutralEvents, Known
  <2> QED BY <2>1 DEF Inj, RecordsIn
<1>7. RecordsIn(ToSet(<<>>)) = {} /\ Inj(IdOf, <<>>) /\ <<>> \in Seq(K)
  <2>1. ToSet(<<>>) = {} /\ RecordsIn({}) = {}
    BY DEF ToSet, RecordsIn
  <2>2. Inj(IdOf, <<>>)
    BY DEF Inj
  <2>3. <<>> \in Seq(K)
    <3> HIDE DEF K
    <3> QED OBVIOUS
  <2> QED BY <2>1, <2>2, <2>3
<1>8. Append(s, e) \in Seq(K)
  BY <1>5, NeutralIsHydration
<1>9. /\ AsSnapshots(<<e>>) \in Seq(K) /\ Inj(IdOf, AsSnapshots(<<e>>))
      /\ RecordsIn(ToSet(AsSnapshots(<<e>>))) = {r}
  BY <1>6, SnapshotRecords
<1>10. /\ AsSnapshots(Append(s, e)) \in Seq(K) /\ Inj(IdOf, AsSnapshots(Append(s, e)))
       /\ RecordsIn(ToSet(AsSnapshots(Append(s, e)))) = RecordsIn(ToSet(s)) \cup {r}
  BY <1>5, SnapshotRecords
<1>11. bursts = [l \in Keys |-> bursts[l]]
  BY DEF Shapes, BurstsShape
<1>12. r \notin RecordsIn(ToSet(s))
  BY <1>1, <1>4
<1> HIDE DEF r, k, j, s, N, K
<1>13. ASSUME NEW b, NEW out, bursts' = [bursts EXCEPT ![k] = b]
       PROVE  \A l \in Keys : BurstEvents(l)' =
                 IF l = k THEN (IF b = None THEN <<>> ELSE b.events) ELSE BurstEvents(l)
  <2>1. \A l \in Keys : bursts'[l] = IF l = k THEN b ELSE bursts[l]
    BY <1>11, <1>13
  <2> QED BY <2>1 DEF BurstEvents
<1>14. ASSUME NEW b, NEW events, NEW out, Becomes(e, b, out),
              events = IF b = None THEN <<>> ELSE b.events,
              Inj(IdOf, events), out \in Seq(K), Inj(IdOf, out),
              RecordsIn(ToSet(out)) \subseteq RecordsIn(ToSet(s)) \cup {r},
              RecordsIn(ToSet(events)) = (RecordsIn(ToSet(s)) \cup {r}) \ RecordsIn(ToSet(out))
       PROVE  Stages(e, events, out)
  <2>1. bursts' = [bursts EXCEPT ![k] = b] /\ hydrationOutbox' = hydrationOutbox \o (Flushed(e) \o out)
    BY <1>14 DEF Becomes, k
  <2>2. \A l \in Keys : BurstEvents(l)' = IF l = k THEN events ELSE BurstEvents(l)
    BY <1>13, <1>14, <2>1
  <2> QED BY <1>4, <1>14, <2>1, <2>2 DEF Stages, k, r, K
<1>15. CASE Becomes(e, j, AsSnapshots(<<e>>))
  <2>1. s = IF j = None THEN <<>> ELSE j.events
    BY <1>3 DEF s
  <2>2. RecordsIn(ToSet(s)) = (RecordsIn(ToSet(s)) \cup {r}) \ {r}
    BY <1>12
  <2>3. Stages(e, s, AsSnapshots(<<e>>))
    BY <1>2, <1>9, <1>14, <1>15, <2>1, <2>2
  <2> QED BY <2>3
<1>16. CASE Becomes(e, Confirming(e), AsSnapshots(Append(s, e)))
  <2>1. <<>> = IF Confirming(e) = None THEN <<>> ELSE Confirming(e).events
    BY <1>3
  <2>2. Stages(e, <<>>, AsSnapshots(Append(s, e)))
    BY <1>7, <1>10, <1>14, <1>16, <2>1
  <2> QED BY <2>2
<1>17. CASE Becomes(e, None, Append(s, e))
  <2>1. <<>> = IF None = None THEN <<>> ELSE None.events
    OBVIOUS
  <2>2. Stages(e, <<>>, Append(s, e))
    BY <1>5, <1>7, <1>8, <1>14, <1>17, <2>1
  <2> QED BY <2>2
<1>18. CASE Becomes(e, Waiting(e), <<>>)
  <2>1. Append(s, e) = IF Waiting(e) = None THEN <<>> ELSE Waiting(e).events
    BY <1>3
  <2>2. Stages(e, Append(s, e), <<>>)
    BY <1>5, <1>7, <1>14, <1>18, <2>1
  <2> QED BY <2>2
<1> QED BY <1>15, <1>16, <1>17, <1>18, StageNeutralIs DEF j, s

(* Only the dispatcher of a tracker has a callback in hand.                *)
LEMMA HandOne ==
  ASSUME NEW hand, NEW holders \in SUBSET Threads, NEW t \in Threads,
         \A u \in Threads : u # t => hand[u] = <<>>
  PROVE  RecordsIn(HandsOf(hand, holders)) =
           IF t \in holders THEN RecordsIn(ToSet(hand[t])) ELSE {}
<1>1. ToSet(<<>>) = {} /\ RecordsIn({}) = {}
  BY DEF ToSet, RecordsIn
<1>2. \A u \in holders : u # t => ToSet(hand[u]) = {}
  BY <1>1
<1>3. HandsOf(hand, holders) = IF t \in holders THEN ToSet(hand[t]) ELSE {}
  BY <1>2 DEF HandsOf
<1> QED BY <1>1, <1>3

(* Only the dispatcher holds a record of the origin tracker,                *)
LEMMA OriginHandIs ==
  ASSUME IInv, Shapes, NEW t \in Threads, RunsOrigin(t) \/ ~originBusy
  PROVE  InOriginHand = IF pc[t] = "originCall" THEN RecordsIn(ToSet(originHand[t])) ELSE {}
<1>1. \A u \in Threads : u # t => originHand[u] = <<>>
  BY OriginHands
<1>2. Calling \in SUBSET Threads /\ (t \in Calling <=> pc[t] = "originCall")
  BY DEF Calling
<1> QED BY <1>1, <1>2, HandOne DEF InOriginHand

(* ... and what it takes or returns is all that changes.                    *)
LEMMA OriginHandNext ==
  ASSUME IInv, Shapes, NEW t \in Threads, RunsOrigin(t) \/ ~originBusy, NEW h,
         originHand' = [originHand EXCEPT ![t] = h]
  PROVE  InOriginHand' = IF pc'[t] = "originCall" THEN RecordsIn(ToSet(h)) ELSE {}
<1> DEFINE hand == originHand'
           holders == Calling'
<1>1. \A u \in Threads : u # t => originHand[u] = <<>>
  BY OriginHands
<1>2. originHand = [u \in Threads |-> originHand[u]]
  BY DEF IInv, Positions
<1>3. (\A u \in Threads : u # t => hand[u] = <<>>) /\ hand[t] = h
  BY <1>1, <1>2
<1>4. holders \in SUBSET Threads /\ (t \in holders <=> pc'[t] = "originCall")
  BY DEF Calling
<1>5. InOriginHand' = RecordsIn(HandsOf(hand, holders))
  BY DEF InOriginHand, RecordsIn, HandsOf
<1> HIDE DEF hand, holders
<1> QED BY <1>3, <1>4, <1>5, HandOne

(* A callback of the origin tracker hands its record to the hydration      *)
(* tracker.                                                                *)
LEMMA AfterOriginTraced ==
  ASSUME IInv, Shapes, Traced, NEW t \in Threads, AfterOriginCall(t)
  PROVE  Traced'
<1> DEFINE e == Head(originHand[t])
           r == <<e.message, e.record>>
<1>1. /\ e \in Known(StorageTypes) /\ e.type # "observation"
      /\ e.type = "storage_record" => e \in NeutralEvents
      /\ originHand[t] = <<e>>
  BY InHand, TypesAre DEF AfterOriginCall, IInv
<1>2. /\ UNCHANGED <<messages, staged, pending, originOutbox, originHand, hydrationHand, delivered>>
      /\ pc' = [pc EXCEPT ![t] = "hydration"] /\ pc[t] = "originCall" /\ ObserveStorage(e)
  BY DEF AfterOriginCall, decoder, origin
<1>3. pc'[t] = "hydration"
  BY <1>2 DEF IInv, Positions
<1>4. RunsOrigin(t)
  BY <1>2 DEF RunsOrigin
<1> HIDE DEF e, r
<1>5. RecordsIn(ToSet(<<e>>)) = {r}
  <2>1. ToSet(<<e>>) = {e}
    BY DEF ToSet
  <2> QED BY <1>1, <2>1 DEF RecordsIn, r
<1>6. InOriginHand = {r}
  BY <1>1, <1>2, <1>4, <1>5, OriginHandIs
<1>7. InOriginHand' = {}
  <2>1. originHand' = [originHand EXCEPT ![t] = originHand[t]]
    BY <1>2 DEF IInv, Positions
  <2> QED BY <1>3, <1>4, <2>1, OriginHandNext
<1> DEFINE P == Move(Spot, 4, 5, {r})
<1>8. /\ Parted(Accepted, P) /\ P = [l \in 1..8 |-> P[l]]
      /\ \A l \in 1..8 : P[l] = IF l = 4 THEN Spot[4] \ {r} ELSE IF l = 5 THEN Spot[5] \cup {r}
                                                           ELSE Spot[l]
  <2> DEFINE new == {r}
  <2>1. new \subseteq Spot[4]
    BY <1>6, PartedSpot
  <2> HIDE DEF new
  <2>2. /\ Parted(Accepted, Move(Spot, 4, 5, new))
        /\ Move(Spot, 4, 5, new) = [l \in 1..8 |-> Move(Spot, 4, 5, new)[l]]
        /\ \A l \in 1..8 : Move(Spot, 4, 5, new)[l] =
              IF l = 4 THEN Spot[4] \ new ELSE IF l = 5 THEN Spot[5] \cup new ELSE Spot[l]
    BY <2>1, PartedSpot, MoveIs
  <2> QED BY <2>2 DEF new
<1> HIDE DEF P
<1>9. r \notin InBursts
  <2>1. Spot[4] \cap Spot[5] = {}
    BY PartedSpot DEF Parted
  <2> QED BY <1>6, <2>1, PartedSpot
<1>10. P[4] = InOriginHand' /\ P[5] = InBursts \cup {r} /\ P[6] = InHydrationQueue
  BY <1>6, <1>7, <1>8, PartedSpot
<1>11. \E out : Hydrates({r}, out)
  <2>1. CASE e.type = "storage_record"
    <3>1. StageNeutral(e) /\ e \in NeutralEvents
      BY <1>1, <1>2, <2>1 DEF ObserveStorage
    <3>2. \E events, out : Stages(e, events, out)
      BY <1>9, <3>1, StagesIs DEF r
    <3> QED BY <1>9, <3>1, <3>2, StagesHydrates DEF r
  <2>2. CASE e.type # "storage_record"
    <3> DEFINE k == Key(e)
               keys == IF bursts[k] = None \/ Time(e) >= bursts[k].first THEN {k} ELSE {}
    <3>1. /\ bursts' = Without(keys)
          /\ hydrationOutbox' = hydrationOutbox \o Append(Unconfirmed(keys), e)
      BY <1>2, <2>2 DEF ObserveStorage, PassLive, HydrationQueue
    <3>2. k \in Keys
      BY <1>1, KeyIn DEF Shapes, DecoderShape
    <3>3. keys \in SUBSET Keys
      BY <3>2
    <3>4. e \in Known(HydrationTypes)
      BY <1>1 DEF Known, HydrationTypes
    <3> HIDE DEF keys, k
    <3>5. Hydrates({r}, Append(Unconfirmed(keys), e))
      BY <1>9, <3>1, <3>3, <3>4, PassesOn DEF r
    <3> QED BY <3>5
  <2> QED BY <2>1, <2>2
<1>12. PICK out : Hydrates({r}, out)
  BY <1>11
<1> DEFINE Q == Move(P, 5, 6, RecordsIn(ToSet(out)))
<1>13. /\ Parted(Accepted, Q) /\ Q[5] = InBursts' /\ Q[6] = InHydrationQueue'
       /\ \A l \in 1..8 : l # 5 /\ l # 6 => Q[l] = P[l]
       /\ HydrationOnce'
  BY <1>2, <1>8, <1>10, <1>12, HydratesMoves
<1> HIDE DEF Q
<1>14. MoreHistory
  BY <1>2, SameHistory DEF Shapes
<1>15. InPending' = InPending
  BY <1>2, <1>14, PendingStays
<1>16. /\ Q[1] = InStaged /\ Q[2] = InPending' /\ Q[3] = InOriginQueue /\ Q[4] = InOriginHand'
       /\ Q[7] = InHydrationHand /\ Q[8] = InDelivered
  BY <1>8, <1>10, <1>13, <1>15, PartedSpot
<1>17. Accepted' = Accepted
  BY <1>2 DEF Accepted
<1>18. Parted(Accepted, Places)'
  BY <1>2, <1>13, <1>16, <1>17, PlacesStay, Respotted
<1>19. Inj(IdOf, originOutbox') /\ ObservedOnce'
  BY <1>2, <1>14, ObservedStays DEF Traced
<1> QED BY <1>13, <1>18, <1>19, TracedThen

(* Nothing moves.                                                          *)
LEMMA QuietTraced ==
  ASSUME Shapes, Traced, MoreHistory, Accepted' = Accepted, InOriginHand' = InOriginHand,
         UNCHANGED <<staged, pending, originOutbox, bursts, hydrationOutbox, hydrationHand,
                     delivered>>
  PROVE  Traced'
<1>1. InPending' = InPending
  BY PendingStays
<1>2. Parted(Accepted', Spot)
  BY PartedSpot
<1>3. Parted(Accepted, Places)'
  <2>1. /\ InStaged' = Spot[1] /\ InPending' = Spot[2] /\ InOriginQueue' = Spot[3]
        /\ InOriginHand' = Spot[4] /\ InBursts' = Spot[5] /\ InHydrationQueue' = Spot[6]
        /\ InHydrationHand' = Spot[7] /\ InDelivered' = Spot[8]
    BY <1>1, PartedSpot, PlacesStay
  <2> QED BY <1>2, <2>1, Respotted
<1>4. Inj(IdOf, originOutbox') /\ ObservedOnce'
  BY ObservedStays DEF Traced
<1> QED BY <1>3, <1>4, HydrationOnceStays, TracedThen

(* The head of an outbox is taken.                                         *)
LEMMA TakenOnce ==
  ASSUME Shapes, NEW types \in SUBSET AllTypes, NEW s \in Seq(Known(types)), s # <<>>,
         Inj(IdOf, s)
  PROVE  /\ Inj(IdOf, Tail(s)) /\ ToSet(Tail(s)) \subseteq ToSet(s)
         /\ RecordsIn(ToSet(<<Head(s)>>)) \subseteq RecordsIn(ToSet(s))
         /\ RecordsIn(ToSet(Tail(s))) = RecordsIn(ToSet(s)) \ RecordsIn(ToSet(<<Head(s)>>))
<1> DEFINE K == Known(types)
           h == Head(s)
           u == Tail(s)
<1>0. \A x \in K : IdOf[x] = <<x.message, x.record>>
  BY EventIs
<1> HIDE DEF K
<1>1. /\ s \in Seq(K) /\ h \in K /\ u \in Seq(K) /\ ToSet(s) = {h} \cup ToSet(u)
  BY HeadTail DEF K
<1>2. /\ Len(s) \in Nat /\ Len(s) >= 1 /\ DOMAIN s = 1..Len(s) /\ DOMAIN u = 1..(Len(s) - 1)
      /\ h = s[1] /\ \A i \in 1..(Len(s) - 1) : u[i] = s[i + 1]
  BY <1>1
<1> HIDE DEF u, h
<1>3. Inj(IdOf, u)
  <2> SUFFICES ASSUME NEW i \in 1..(Len(s) - 1), NEW j \in 1..(Len(s) - 1),
                      IdOf[u[i]] = IdOf[u[j]]
               PROVE  i = j
    BY <1>2 DEF Inj
  <2>1. i + 1 \in DOMAIN s /\ j + 1 \in DOMAIN s /\ IdOf[s[i + 1]] = IdOf[s[j + 1]]
    BY <1>2
  <2>2. i + 1 = j + 1
    BY <2>1 DEF Inj
  <2> QED BY <1>2, <2>2
<1>4. \A x \in ToSet(u) : IdOf[x] # IdOf[h]
  <2> SUFFICES ASSUME NEW i \in 1..(Len(s) - 1), IdOf[u[i]] = IdOf[h] PROVE FALSE
    BY <1>2 DEF ToSet
  <2>1. IdOf[s[i + 1]] = IdOf[s[1]] /\ i + 1 \in DOMAIN s /\ 1 \in DOMAIN s
    BY <1>2
  <2> QED BY <1>2, <2>1 DEF Inj
<1>5. ToSet(<<h>>) = {h}
  BY DEF ToSet
<1>6. \A x \in ToSet(u) : x \in K
  BY <1>1, InSeq
<1>7. ASSUME NEW r
      PROVE  r \in RecordsIn(ToSet(u)) <=> r \in RecordsIn(ToSet(s)) /\ r \notin RecordsIn({h})
  <2>1. r \in RecordsIn(ToSet(u)) <=>
          \E e \in ToSet(u) : e.type # "observation" /\ r = <<e.message, e.record>>
    BY RecordsInIs
  <2>2. r \in RecordsIn(ToSet(s)) <=> r \in RecordsIn(ToSet(u)) \/ r \in RecordsIn({h})
    BY <1>1, RecordsInIs
  <2>3. r \in RecordsIn({h}) => r = <<h.message, h.record>>
    BY RecordsInIs
  <2>4. \A e \in ToSet(u) : <<e.message, e.record>> # <<h.message, h.record>>
    BY <1>0, <1>1, <1>4, <1>6
  <2> QED BY <2>1, <2>2, <2>3, <2>4
<1>8. RecordsIn(ToSet(u)) = RecordsIn(ToSet(s)) \ RecordsIn({h})
  <2> HIDE DEF RecordsIn
  <2> QED BY <1>7
<1>9. RecordsIn({h}) \subseteq RecordsIn(ToSet(s))
  BY <1>1, RecordsInIs
<1> QED BY <1>1, <1>3, <1>5, <1>8, <1>9 DEF h, u

(* A callback is taken from the origin tracker's outbox.                    *)
LEMMA OriginDrainTraced ==
  ASSUME IInv, Shapes, Traced, NEW t \in Threads, OriginDrain(t)
  PROVE  Traced'
<1>1. UNCHANGED <<messages, staged, pending, bursts, hydrationOutbox, hydrationHand, delivered>>
  BY DEF OriginDrain, decoder, origin, hydration
<1>2. MoreHistory /\ Accepted' = Accepted
  BY <1>1, SameHistory DEF Shapes, Accepted
<1>3. CASE OriginYield(t) \/ OriginDone(t)
  <2>1. UNCHANGED <<originOutbox, originHand>> /\ pc[t] \in {"origin", "originTake"}
        /\ \E to : to # "originCall" /\ pc' = [pc EXCEPT ![t] = to]
    BY <1>3 DEF OriginYield, OriginDone, MayDispatchOrigin, AfterOrigin, Leave
  <2>2. Calling' = Calling
    BY <2>1, CallingStays DEF IInv
  <2>3. InOriginHand' = InOriginHand
    BY <2>1, <2>2, PlacesStay
  <2> QED BY <1>1, <1>2, <2>1, <2>3, QuietTraced
<1>4. CASE OriginTake(t)
  <2> DEFINE h == <<Head(originOutbox)>>
             B == RecordsIn(ToSet(h))
             S == Known(OriginTypes)
  <2>1. /\ originOutbox # <<>> /\ originOutbox' = Tail(originOutbox)
        /\ originHand' = [originHand EXCEPT ![t] = h]
        /\ pc' = [pc EXCEPT ![t] = "originCall"]
        /\ pc[t] # "originCall" /\ (RunsOrigin(t) \/ ~originBusy)
    BY <1>4 DEF OriginTake, MayDispatchOrigin, RunsOrigin
  <2>2. pc'[t] = "originCall"
    BY <2>1 DEF IInv, Positions
  <2>3. InOriginHand = {}
    BY <2>1, OriginHandIs
  <2>4. /\ Inj(IdOf, Tail(originOutbox)) /\ ToSet(Tail(originOutbox)) \subseteq ToSet(originOutbox)
        /\ B \subseteq RecordsIn(ToSet(originOutbox))
        /\ RecordsIn(ToSet(Tail(originOutbox))) = RecordsIn(ToSet(originOutbox)) \ B
    <3>1. originOutbox \in Seq(Known(OriginTypes)) /\ Inj(IdOf, originOutbox)
      BY DEF Shapes, OriginShape, Traced
    <3> QED BY <2>1, <3>1, TypesAre, TakenOnce
  <2> HIDE DEF h, B
  <2>5. InOriginHand' = B
    BY <2>1, <2>2, OriginHandNext DEF B
  <2>6. InOriginQueue' = InOriginQueue \ B /\ B \subseteq InOriginQueue
    <3>1. InOriginQueue' = RecordsIn(ToSet(originOutbox'))
      BY DEF InOriginQueue, RecordsIn
    <3> QED BY <2>1, <2>4, <3>1 DEF InOriginQueue
  <2> DEFINE Q == Move(Spot, 3, 4, B)
  <2>7. /\ Parted(Accepted, Q)
        /\ \A l \in 1..8 : Q[l] = IF l = 3 THEN Spot[3] \ B ELSE IF l = 4 THEN Spot[4] \cup B
                                                            ELSE Spot[l]
    BY <2>6, PartedSpot, MoveIs
  <2> HIDE DEF Q
  <2>8. InPending' = InPending
    BY <1>1, <1>2, PendingStays
  <2>9. /\ Q[1] = InStaged /\ Q[2] = InPending' /\ Q[3] = InOriginQueue' /\ Q[4] = InOriginHand'
        /\ Q[5] = InBursts /\ Q[6] = InHydrationQueue /\ Q[7] = InHydrationHand
        /\ Q[8] = InDelivered
    BY <2>3, <2>5, <2>6, <2>7, <2>8, PartedSpot
  <2>10. Parted(Accepted, Places)'
    BY <1>1, <1>2, <2>7, <2>9, PlacesStay, Respotted
  <2>11. Inj(IdOf, originOutbox') /\ ObservedOnce'
    BY <1>1, <1>2, <2>1, <2>4, ObservedStays
  <2> QED BY <1>1, <2>10, <2>11, HydrationOnceStays, TracedThen
<1> QED BY <1>3, <1>4 DEF OriginDrain

(* An observation is no record.                                             *)
LEMMA ObserverTraced ==
  ASSUME IInv, Shapes, Traced, NEW t \in Threads, Observer(t)
  PROVE  Traced'
<1>1. /\ UNCHANGED <<messages, staged, pending, originOutbox, bursts, hydrationOutbox,
                     hydrationHand, delivered>>
      /\ originHand' = [originHand EXCEPT ![t] = <<>>] /\ pc[t] = "originCall"
      /\ Head(originHand[t]).type = "observation"
  BY DEF Observer, origin, hydration
<1>2. MoreHistory /\ Accepted' = Accepted
  BY <1>1, SameHistory DEF Shapes, Accepted
<1>3. RunsOrigin(t)
  BY <1>1 DEF RunsOrigin
<1>4. ToSet(<<>>) = {} /\ RecordsIn({}) = {}
  BY DEF ToSet, RecordsIn
<1>5. InOriginHand' = {}
  BY <1>1, <1>3, <1>4, OriginHandNext
<1>6. InOriginHand = {}
  <2> DEFINE S == Known(OriginTypes)
             h == originHand[t]
  <2>1. h # <<>> /\ originHand \in [Threads -> Seq(S)] /\ Len(h) <= 1
    BY <1>1 DEF IInv, Positions, Shapes, OriginShape
  <2> HIDE DEF S
  <2>2. h \in Seq(S)
    BY <2>1
  <2> HIDE DEF h
  <2>3. \A x \in ToSet(h) : x = Head(h)
    <3>1. Len(h) \in Nat /\ DOMAIN h = 1..Len(h) /\ Head(h) = h[1]
      BY <2>1, <2>2
    <3>2. \A i \in 1..Len(h) : i = 1
      BY <2>1, <3>1
    <3> QED BY <3>1, <3>2 DEF ToSet
  <2>4. RecordsIn(ToSet(h)) = {}
    BY <1>1, <2>3 DEF RecordsIn, h
  <2> QED BY <1>1, <1>3, <2>4, OriginHandIs DEF h
<1> QED BY <1>1, <1>2, <1>5, <1>6, QuietTraced

(* Only the dispatcher holds an event of the hydration tracker,             *)
LEMMA HydrationHandIs ==
  ASSUME IInv, Shapes, NEW t \in Threads, RunsHydration(t) \/ ~hydrationBusy
  PROVE  InHydrationHand = RecordsIn(ToSet(hydrationHand[t]))
<1>1. \A u \in Threads : u # t => hydrationHand[u] = <<>>
  BY HydrationHands
<1>2. Threads \in SUBSET Threads
  OBVIOUS
<1> QED BY <1>1, <1>2, HandOne DEF InHydrationHand

(* ... and what it takes or returns is all that changes.                    *)
LEMMA HydrationHandNext ==
  ASSUME IInv, Shapes, NEW t \in Threads, RunsHydration(t) \/ ~hydrationBusy, NEW h,
         hydrationHand' = [hydrationHand EXCEPT ![t] = h]
  PROVE  InHydrationHand' = RecordsIn(ToSet(h))
<1> DEFINE hand == hydrationHand'
<1>1. \A u \in Threads : u # t => hydrationHand[u] = <<>>
  BY HydrationHands
<1>2. DOMAIN hydrationHand = Threads
  BY DEF Shapes, HydrationShape
<1>3. (\A u \in Threads : u # t => hand[u] = <<>>) /\ hand[t] = h
  BY <1>1, <1>2
<1>4. Threads \in SUBSET Threads
  OBVIOUS
<1>5. InHydrationHand' = RecordsIn(HandsOf(hand, Threads))
  BY DEF InHydrationHand, RecordsIn, HandsOf
<1> HIDE DEF hand
<1> QED BY <1>3, <1>4, <1>5, HandOne

(* A callback is taken from the hydration tracker's outbox.                 *)
LEMMA HydrationDrainTraced ==
  ASSUME IInv, Shapes, Traced, NEW t \in Threads, HydrationDrain(t)
  PROVE  Traced'
<1>1. UNCHANGED <<messages, staged, pending, originOutbox, bursts, delivered>>
  BY DEF HydrationDrain, decoder, origin, hydration
<1>2. MoreHistory /\ Accepted' = Accepted
  BY <1>1, SameHistory DEF Shapes, Accepted
<1>3. /\ pc[t] \in {"hydration", "hydrationTake"}
      /\ \E to : to # "originCall" /\ pc' = [pc EXCEPT ![t] = to]
  BY DEF HydrationDrain, HydrationYield, HydrationTake, HydrationDone, MayDispatchHydration,
     AfterHydration, Leave
<1>4. Calling' = Calling /\ t \notin Calling
  BY <1>3, CallingStays DEF IInv, Calling
<1>5. CASE HydrationYield(t) \/ HydrationDone(t)
  <2>1. /\ UNCHANGED <<hydrationOutbox, hydrationHand>>
        /\ originHand' = [originHand EXCEPT ![t] = <<>>]
    BY <1>5 DEF HydrationYield, HydrationDone, AfterHydration
  <2>2. \A u \in Calling : originHand'[u] = originHand[u]
    BY <1>4, <2>1 DEF IInv, Positions, Calling
  <2>3. InOriginHand' = InOriginHand
    BY <1>4, <2>2 DEF InOriginHand, HandsOf, RecordsIn
  <2> QED BY <1>1, <1>2, <2>1, <2>3, QuietTraced
<1>6. CASE HydrationTake(t)
  <2> DEFINE h == <<Head(hydrationOutbox)>>
             B == RecordsIn(ToSet(h))
  <2>1. /\ hydrationOutbox # <<>> /\ hydrationOutbox' = Tail(hydrationOutbox)
        /\ hydrationHand' = [hydrationHand EXCEPT ![t] = h]
        /\ (RunsHydration(t) \/ ~hydrationBusy) /\ UNCHANGED originHand
    BY <1>6 DEF HydrationTake, MayDispatchHydration, RunsHydration
  <2>2. InHydrationHand = {}
    <3> DEFINE S == Known(HydrationTypes)
    <3>1. hydrationHand \in [Threads -> Seq(S)] /\ Len(hydrationHand[t]) = 0
      BY <1>3 DEF Shapes, HydrationShape
    <3> HIDE DEF S
    <3>2. hydrationHand[t] \in Seq(S)
      BY <3>1
    <3> DEFINE u == hydrationHand[t]
    <3>3. u \in Seq(S) /\ Len(u) = 0
      BY <3>1, <3>2
    <3> HIDE DEF u
    <3>4. ToSet(u) = {}
      BY <3>3 DEF ToSet
    <3>5. RecordsIn({}) = {}
      BY DEF RecordsIn
    <3> QED BY <2>1, <3>4, <3>5, HydrationHandIs DEF u
  <2>3. /\ Inj(IdOf, Tail(hydrationOutbox)) /\ B \subseteq RecordsIn(ToSet(hydrationOutbox))
        /\ RecordsIn(ToSet(Tail(hydrationOutbox))) = RecordsIn(ToSet(hydrationOutbox)) \ B
    <3>1. hydrationOutbox \in Seq(Known(HydrationTypes)) /\ Inj(IdOf, hydrationOutbox)
      BY DEF Shapes, HydrationShape, Traced
    <3> QED BY <2>1, <3>1, TypesAre, TakenOnce
  <2> HIDE DEF h, B
  <2>4. InHydrationHand' = B
    BY <2>1, HydrationHandNext DEF B
  <2>5. InHydrationQueue' = InHydrationQueue \ B /\ B \subseteq InHydrationQueue
    <3>1. InHydrationQueue' = RecordsIn(ToSet(hydrationOutbox'))
      BY DEF InHydrationQueue, RecordsIn
    <3> QED BY <2>1, <2>3, <3>1 DEF InHydrationQueue
  <2> DEFINE Q == Move(Spot, 6, 7, B)
  <2>6. /\ Parted(Accepted, Q)
        /\ \A l \in 1..8 : Q[l] = IF l = 6 THEN Spot[6] \ B ELSE IF l = 7 THEN Spot[7] \cup B
                                                            ELSE Spot[l]
    BY <2>5, PartedSpot, MoveIs
  <2> HIDE DEF Q
  <2>7. InPending' = InPending
    BY <1>1, <1>2, PendingStays
  <2>8. /\ Q[1] = InStaged /\ Q[2] = InPending' /\ Q[3] = InOriginQueue /\ Q[4] = InOriginHand
        /\ Q[5] = InBursts /\ Q[6] = InHydrationQueue' /\ Q[7] = InHydrationHand'
        /\ Q[8] = InDelivered
    BY <2>2, <2>4, <2>5, <2>6, <2>7, PartedSpot
  <2>9. Parted(Accepted, Places)'
    BY <1>1, <1>2, <1>4, <2>1, <2>6, <2>8, PlacesStay, Respotted
  <2>10. Inj(IdOf, originOutbox') /\ ObservedOnce'
    BY <1>1, <1>2, ObservedStays DEF Traced
  <2>11. HydrationOnce'
    <3>1. \A k \in Keys : Inj(IdOf, BurstEvents(k)')
      BY <1>1 DEF Traced, BurstEvents
    <3>2. \A a, b \in delivered' : IdOf[a] = IdOf[b] => a = b
      BY <1>1 DEF Traced
    <3>3. Inj(IdOf, hydrationOutbox')
      BY <2>1, <2>3
    <3> QED BY <3>1, <3>2, <3>3 DEF HydrationOnce, IdOf, Inj, AllTypes, StorageTypes
  <2> QED BY <2>9, <2>10, <2>11, TracedThen
<1> QED BY <1>5, <1>6 DEF HydrationDrain

(* It delivers its event.                                                   *)
LEMMA DeliverTraced ==
  ASSUME IInv, Shapes, Traced, NEW t \in Threads, Deliver(t)
  PROVE  Traced'
<1> DEFINE h == hydrationHand[t]
           B == RecordsIn(ToSet(h))
           K == Known(HydrationTypes)
<1>1. /\ UNCHANGED <<messages, staged, pending, originOutbox, originHand, bursts, hydrationOutbox>>
      /\ pc[t] = "hydrationCall" /\ pc' = [pc EXCEPT ![t] = "hydrationTake"]
      /\ hydrationHand' = [hydrationHand EXCEPT ![t] = <<>>]
      /\ delivered' = delivered \cup ToSet(h)
  BY DEF Deliver, decoder, origin, hydration
<1>2. MoreHistory /\ Accepted' = Accepted
  BY <1>1, SameHistory DEF Shapes, Accepted
<1>3. Calling' = Calling
  BY <1>1, CallingStays DEF IInv
<1>4. RunsHydration(t)
  BY <1>1 DEF RunsHydration
<1>5. InHydrationHand = B
  BY <1>4, HydrationHandIs
<1>6. InHydrationHand' = {}
  <2>1. ToSet(<<>>) = {} /\ RecordsIn({}) = {}
    BY DEF ToSet, RecordsIn
  <2> QED BY <1>1, <1>4, <2>1, HydrationHandNext
<1>7. InDelivered' = InDelivered \cup B
  <2>1. InDelivered' = RecordsIn(delivered \cup ToSet(h))
    BY <1>1 DEF InDelivered, RecordsIn
  <2> QED BY <2>1, RecordsUnion DEF InDelivered
<1>8. /\ hydrationHand \in [Threads -> Seq(K)] /\ Len(h) = 1 /\ delivered \subseteq K
      /\ \A x \in K : IdOf[x] = <<x.message, x.record>> /\ x.type # "observation"
  BY <1>1, EventIs, TypesAre DEF Shapes, HydrationShape
<1> HIDE DEF K
<1>9. h \in Seq(K)
  BY <1>8
<1> HIDE DEF h, B
<1>10. \A a, b \in ToSet(h) : a = b
  <2>1. DOMAIN h = 1..1
    BY <1>8, <1>9
  <2> QED BY <2>1 DEF ToSet
<1>11. \A x \in ToSet(h) : x \in K
  BY <1>9, InSeq
<1> DEFINE Q == Move(Spot, 7, 8, B)
<1>12. /\ Parted(Accepted, Q)
       /\ \A l \in 1..8 : Q[l] = IF l = 7 THEN Spot[7] \ B ELSE IF l = 8 THEN Spot[8] \cup B
                                                           ELSE Spot[l]
  BY <1>5, PartedSpot, MoveIs
<1> HIDE DEF Q
<1>13. InPending' = InPending
  BY <1>1, <1>2, PendingStays
<1>14. /\ Q[1] = InStaged /\ Q[2] = InPending' /\ Q[3] = InOriginQueue /\ Q[4] = InOriginHand
       /\ Q[5] = InBursts /\ Q[6] = InHydrationQueue /\ Q[7] = InHydrationHand'
       /\ Q[8] = InDelivered'
  BY <1>5, <1>6, <1>7, <1>12, <1>13, PartedSpot
<1>15. Parted(Accepted, Places)'
  BY <1>1, <1>2, <1>3, <1>12, <1>14, PlacesStay, Respotted
<1>16. Inj(IdOf, originOutbox') /\ ObservedOnce'
  BY <1>1, <1>2, ObservedStays DEF Traced
<1>17. \A x \in delivered, y \in ToSet(h) : IdOf[x] # IdOf[y]
  <2> TAKE x \in delivered, y \in ToSet(h)
  <2>1. x \in K /\ y \in K
    BY <1>8, <1>11
  <2>2. <<x.message, x.record>> \in InDelivered
    BY <1>8, <2>1 DEF InDelivered, RecordsIn
  <2>3. <<y.message, y.record>> \in B
    BY <1>8, <2>1 DEF B, RecordsIn
  <2>4. Spot[7] \cap Spot[8] = {} /\ Spot[7] = B /\ Spot[8] = InDelivered
    BY <1>5, PartedSpot DEF Parted
  <2> QED BY <1>8, <2>1, <2>2, <2>3, <2>4
<1>18. HydrationOnce'
  <2>1. \A k \in Keys : Inj(IdOf, BurstEvents(k)')
    BY <1>1 DEF Traced, BurstEvents
  <2>2. \A a, b \in delivered' : IdOf[a] = IdOf[b] => a = b
    BY <1>1, <1>10, <1>17 DEF Traced
  <2>3. Inj(IdOf, hydrationOutbox')
    BY <1>1 DEF Traced
  <2> QED BY <2>1, <2>2, <2>3 DEF HydrationOnce, IdOf, Inj, AllTypes, StorageTypes
<1> QED BY <1>15, <1>16, <1>18, TracedThen

(* _handle_accepted_record hands over the next record of the last message.  *)
LEMMA RegisterStep ==
  ASSUME IInv, Shapes, NEW t \in Threads, Register(t)
  PROVE  /\ Handing(Len(messages)) /\ Registering(Len(messages)) /\ Calling' = Calling
         /\ UNCHANGED <<originHand, hydrationHand, delivered>>
         /\ \/ Boundary(Len(messages)) \/ Completed(Len(messages))
            \/ Incomplete(Len(messages))
<1> DEFINE m == Len(messages)
<1>1. /\ Handing(m) /\ messages' = [messages EXCEPT ![m].registered = Registered(m) + 1]
      /\ todo' = todo - 1 /\ pc[t] = "ready"
      /\ UNCHANGED <<clock, generation, originHand, hydrationHand, delivered>>
      /\ pc' = [pc EXCEPT ![t] = "origin"] \/ pc' = [pc EXCEPT ![t] = "hydration"]
      /\ Boundary(m) \/ Completed(m) \/ Incomplete(m)
  BY RegisterIs
<1> HIDE DEF m
<1>2. Calling' = Calling
  BY <1>1, CallingStays DEF IInv
<1>3. /\ MoreHistory
      /\ Registered(m) \in Nat /\ Registered(m) < messages[m].count
      /\ messages'[m].registered = Registered(m) + 1
      /\ \A n \in 1..Len(messages) : n # m => messages'[n] = messages[n]
  BY <1>1, RegisteringHistory
<1>4. m \in 1..Len(messages) /\ Len(messages)' = Len(messages)
  <2>1. m \in 1..Len(messages) /\ History
    BY <1>1 DEF Handing, Shapes, DecoderShape
  <2>2. DOMAIN messages = 1..Len(messages) /\ DOMAIN messages' = DOMAIN messages
    BY <1>1, <2>1 DEF History
  <2>3. History'
    BY <1>1, <2>1, RegisterShapes DEF IInv, Shapes, DecoderShape
  <2> QED BY <2>1, <2>2, <2>3 DEF History
<1>5. Registering(m)
  BY <1>3, <1>4 DEF Registering
<1> QED BY <1>1, <1>2, <1>5 DEF m

(* That record arrives at one place.                                        *)
LEMMA RegisterTraced ==
  ASSUME IInv, Shapes, Traced, NEW t \in Threads, Register(t)
  PROVE  Traced'
  BY RegisterStep, IncompleteTraced, CompletedTraced, BoundaryTraced

(* A decoded message extends the history.                                   *)
LEMMA DecodeHistory ==
  ASSUME Shapes, NEW t \in Threads, Decode(t)
  PROVE  /\ MoreHistory
         /\ \E v : /\ v.registered = 0 /\ Len(messages') = Len(messages) + 1
                   /\ messages'[Len(messages) + 1] = v
                   /\ \A m \in 1..Len(messages) : messages'[m] = messages[m]
<1> DEFINE n == Len(messages)
           F == Fields
<1>2. PICK v : messages' = Append(messages, v) /\ v.registered = 0
  BY DEF Decode
<1>3. messages \in Seq(F) /\ n \in Nat
  BY DEF Shapes, DecoderShape, History
<1> HIDE DEF F
<1>4. /\ Len(messages') = n + 1 /\ messages'[n + 1] = v
      /\ \A m \in 1..n : messages'[m] = messages[m]
  BY <1>2, <1>3
<1>5. \A m \in 1..n : messages[m].registered \in Nat /\ messages[m].count \in Nat
                      /\ messages[m].registered <= messages[m].count
  <2> TAKE m \in 1..n
  <2>1. messages[m].registered \in Nat /\ messages[m].count \in 1..MaxRecords /\ MaxRecords \in Nat
    BY MessageIs DEF Shapes, DecoderShape
  <2> QED BY <2>1 DEF Shapes, DecoderShape, Registered
<1> HIDE DEF n
<1>6. MoreHistory
  BY <1>3, <1>4, <1>5 DEF MoreHistory, Registered, n
<1> QED BY <1>2, <1>4, <1>6 DEF n

(* A message whose records are not handed over yet adds none.               *)
LEMMA DecodeTraced ==
  ASSUME IInv, Shapes, Traced, NEW t \in Threads, Decode(t)
  PROVE  Traced'
<1> DEFINE n == Len(messages)
<1>1. UNCHANGED <<staged, pending, originOutbox, originHand, bursts, hydrationOutbox,
                  hydrationHand, delivered, pc>>
  BY DEF Decode, origin, hydration, threads
<1>2. PICK v : /\ v.registered = 0 /\ Len(messages') = n + 1 /\ messages'[n + 1] = v
               /\ \A m \in 1..n : messages'[m] = messages[m]
  BY DecodeHistory
<1>3. MoreHistory /\ n \in Nat
  BY DecodeHistory DEF Shapes, DecoderShape, History
<1> HIDE DEF n
<1>7. ASSUME NEW x PROVE x \in Accepted' <=> x \in Accepted
  <2>1. x \in Accepted <=> \E m \in 1..n : \E i \in 1..messages[m].registered : x = <<m, i>>
    BY AcceptedIs DEF Registered, n
  <2>2. x \in Accepted' <=>
          \E m \in 1..(n + 1) : \E i \in 1..messages'[m].registered : x = <<m, i>>
    BY <1>2 DEF Accepted
  <2>3. \A i \in 1..messages'[n + 1].registered : FALSE
    BY <1>2
  <2>4. \A m \in 1..(n + 1) : m \in 1..n \/ m = n + 1
    BY <1>3
  <2>5. \A m \in 1..n : m \in 1..(n + 1)
    BY <1>3
  <2> QED BY <1>2, <2>1, <2>2, <2>3, <2>4, <2>5
<1>8. Accepted' = Accepted
  BY <1>7
<1>9. InOriginHand' = InOriginHand
  <2>1. Calling' = Calling
    BY <1>1 DEF Calling
  <2> QED BY <1>1, <2>1, PlacesStay
<1> QED BY <1>1, <1>3, <1>8, <1>9, QuietTraced

(* Initially there is no record.                                            *)
LEMMA InitTraced == Init => Traced
<1> SUFFICES ASSUME Init PROVE Traced
  OBVIOUS
<1>1. /\ messages = <<>> /\ Len(messages) = 0
      /\ staged = [m \in Messages |-> {}]
      /\ pending = <<>> /\ originOutbox = <<>> /\ hydrationOutbox = <<>>
      /\ originHand = [t \in Threads |-> <<>>] /\ hydrationHand = [t \in Threads |-> <<>>]
      /\ delivered = {} /\ bursts = [k \in Keys |-> None]
  BY DEF Init
<1>2. ToSet(<<>>) = {} /\ RecordsIn({}) = {} /\ Inj(IdOf, <<>>)
  BY DEF ToSet, RecordsIn, Inj
<1>3. Accepted = {}
  BY <1>1 DEF Accepted
<1>4. \A k \in Keys : BurstEvents(k) = <<>>
  BY <1>1 DEF BurstEvents
<1>5. InStaged = {}
  BY <1>1 DEF InStaged
<1>6. InPending = {}
  BY <1>1, <1>2 DEF InPending
<1>7. InOriginQueue = {} /\ InHydrationQueue = {} /\ InDelivered = {}
  BY <1>1, <1>2 DEF InOriginQueue, InHydrationQueue, InDelivered
<1>8. InOriginHand = {} /\ InHydrationHand = {}
  <2>1. \A holders \in SUBSET Threads :
          HandsOf(originHand, holders) = {} /\ HandsOf(hydrationHand, holders) = {}
    BY <1>1, <1>2 DEF HandsOf
  <2>2. Calling \in SUBSET Threads /\ Threads \in SUBSET Threads
    BY DEF Calling
  <2> QED BY <1>2, <2>1, <2>2 DEF InOriginHand, InHydrationHand
<1>9. InBursts = {}
  BY <1>2, <1>4 DEF InBursts, InBurst
<1>10. Parted(Accepted, Spot)
  <2>1. \A i \in 1..8 : Spot[i] = {}
    BY <1>5, <1>6, <1>7, <1>8, <1>9, SpotIs DEF SpotFact
  <2> QED BY <1>3, <2>1 DEF Parted
<1>11. Parted(Accepted, Places)
  BY <1>10, SpotIs DEF SpotFact
<1> QED BY <1>1, <1>2, <1>4, <1>11 DEF Traced, ObservedOnce

(* Flows that close, poll() and the stop.                                   *)
LEMMA ClosedTraced ==
  ASSUME IInv, Shapes, Traced, FlushStale \/ Finalize \/ \E t \in Threads : CloseFlow(t)
  PROVE  Traced'
<1>1. ASSUME NEW t \in Threads, NEW batches, NEW closing, ClosePending(batches, closing),
             UNCHANGED <<messages, originHand, hydration, hydrationOutbox, hydrationHand,
                         delivered>>,
             pc[t] = "ready", pc' = [pc EXCEPT ![t] = "origin"]
      PROVE  Traced'
  <2>1. Calling' = Calling
    BY <1>1, CallingStays DEF IInv
  <2> QED BY <1>1, <2>1, ClosingTraced DEF hydration
<1>2. CASE FlushStale
  <2>1. PICK batches, closing : ClosePending(batches, closing)
    BY <1>2 DEF FlushStale
  <2>2. /\ UNCHANGED <<messages, originHand, hydration, hydrationOutbox, hydrationHand,
                       delivered>>
        /\ pc["consumer"] = "ready" /\ pc' = [pc EXCEPT !["consumer"] = "origin"]
        /\ "consumer" \in Threads
    BY <1>2 DEF FlushStale, Enter, decoder, Threads
  <2> QED BY <1>1, <2>1, <2>2
<1>3. CASE Finalize
  <2>1. PICK batches, closing : ClosePending(batches, closing)
    BY <1>3 DEF Finalize
  <2>2. /\ UNCHANGED <<messages, originHand, hydration, hydrationOutbox, hydrationHand,
                       delivered>>
        /\ pc["stopper"] = "ready" /\ pc' = [pc EXCEPT !["stopper"] = "origin"]
        /\ "stopper" \in Threads
    BY <1>3 DEF Finalize, Enter, decoder, Threads
  <2> QED BY <1>1, <2>1, <2>2
<1>4. ASSUME NEW t \in Threads, CloseFlow(t)
      PROVE  Traced'
  <2>1. PICK batches, closing : ClosePending(batches, closing)
    BY <1>4 DEF CloseFlow
  <2>2. /\ UNCHANGED <<messages, originHand, hydration, hydrationOutbox, hydrationHand,
                       delivered>>
        /\ pc[t] = "ready" /\ pc' = [pc EXCEPT ![t] = "origin"]
    BY <1>4 DEF CloseFlow, Enter, Decodes
  <2> QED BY <1>1, <2>1, <2>2
<1> QED BY <1>2, <1>3, <1>4

(* Every action keeps each record at one place.                             *)
LEMMA StepTraced == IInv /\ Shapes /\ Traced /\ [Next]_vars => Traced'
<1> SUFFICES ASSUME IInv, Shapes, Traced, [Next]_vars PROVE Traced'
  OBVIOUS
<1>0. Positions
  BY DEF IInv
<1>1. CASE UNCHANGED vars \/ FlushSkipped \/ Tick \/ WorkerEnds \/ Stopped
  <2>1. UNCHANGED <<messages, staged, pending, originOutbox, originHand, bursts,
                    hydrationOutbox, hydrationHand, delivered>>
    BY <1>1 DEF FlushSkipped, Tick, WorkerEnds, Stopped, vars, decoder, origin, hydration
  <2>2. Calling' = Calling
    <3>1. CASE UNCHANGED pc
      BY <3>1 DEF Calling
    <3>2. CASE WorkerEnds
      BY <1>0, <3>2, CallingStays DEF WorkerEnds, Threads
    <3> QED BY <1>1, <3>1, <3>2 DEF FlushSkipped, Tick, Stopped, vars, threads
  <2>3. MoreHistory /\ Accepted' = Accepted
    BY <2>1, SameHistory DEF Shapes, Accepted
  <2>4. InOriginHand' = InOriginHand
    BY <2>1, <2>2, PlacesStay
  <2> QED BY <2>1, <2>3, <2>4, QuietTraced
<1>2. CASE FlushStale \/ Finalize \/ \E t \in Threads : CloseFlow(t)
  BY <1>2, ClosedTraced
<1>3. ASSUME NEW t \in Threads, Observe(t)
      PROVE  Traced'
  <2>1. pc' = [pc EXCEPT ![t] = "origin"] /\ pc[t] = "ready"
    BY <1>3 DEF Observe, Enter, Decodes
  <2>2. Calling' = Calling
    BY <1>0, <2>1, CallingStays
  <2> QED BY <1>3, <2>2, ObserveTraced
<1>4. ASSUME NEW t \in Threads, HydrationHalf(t)
      PROVE  Traced'
  <2>1. pc' = [pc EXCEPT ![t] = "hydration"] /\ pc[t] = "between"
    BY <1>4 DEF HydrationHalf
  <2>2. Calling' = Calling
    BY <1>0, <2>1, CallingStays
  <2> QED BY <1>4, <2>2, HalfTraced
<1>5. ASSUME NEW t \in Threads, Step(t) \/ Decode(t)
      PROVE  Traced'
  BY <1>4, <1>5, RegisterTraced, OriginDrainTraced, ObserverTraced, AfterOriginTraced,
     HydrationDrainTraced, DeliverTraced, DecodeTraced DEF Step
<1> QED BY <1>1, <1>2, <1>3, <1>5 DEF Next

(* Events that stand for different records are counted by their records.   *)
LEMMA RecordsCounted ==
  ASSUME Shapes, NEW D \in SUBSET Known(HydrationTypes),
         \A a, b \in D : IdOf[a] = IdOf[b] => a = b
  PROVE  IsFiniteSet(D) /\ Cardinality(RecordsIn(D)) = Cardinality(D)
<1> DEFINE f == [e \in D |-> <<e.message, e.record>>]
           R == RecordsIn(D)
           T == (1..Len(messages)) \X (0..MaxRecords)
<1>1. \A e \in D : /\ IdOf[e] = <<e.message, e.record>> /\ e.type # "observation"
                   /\ e.message \in 1..Len(messages) /\ e.record \in 0..MaxRecords
  <2> TAKE e \in D
  <2>1. IdOf[e] = <<e.message, e.record>> /\ e.type \in HydrationTypes
    BY TypesAre, EventIs
  <2>2. e.message \in 1..Len(messages) /\ e.record \in 0..MaxRecords
    BY DEF Known
  <2> QED BY <2>1, <2>2, TypesAre
<1>2. IsFiniteSet(T)
  <2>1. Len(messages) \in Nat /\ MaxRecords \in Nat
    BY ConstantLimits DEF Shapes, DecoderShape, History
  <2>2. IsFiniteSet(1..Len(messages)) /\ IsFiniteSet(0..MaxRecords)
    BY <2>1, FS_Interval
  <2> QED BY <2>2, FS_Product
<1>3. \A r : r \in R <=> \E e \in D : r = <<e.message, e.record>>
  BY <1>1, RecordsInIs
<1> HIDE DEF R
<1>4. f \in Injection(D, R)
  BY <1>1, <1>3 DEF Injection, IsInjective
<1>5. f \in Surjection(D, R)
  BY <1>3 DEF Surjection
<1>6. R \subseteq T
  BY <1>1, <1>3
<1>7. IsFiniteSet(R)
  BY <1>2, <1>6, FS_Subset
<1> HIDE DEF f
<1>8. IsFiniteSet(D) /\ (Cardinality(D) = Cardinality(R) <=> f \in Surjection(D, R))
  BY <1>4, <1>7, FS_Injection
<1> QED BY <1>5, <1>8 DEF R

(* Different records are different events.                                  *)
LEMMA InjIsInjective ==
  ASSUME NEW s, Inj(IdOf, s)
  PROVE  IsInjective(s)
  BY DEF Inj, IsInjective

(* The parting of the records is what Conserved says.                       *)
LEMMA TracedConserved ==
  ASSUME Shapes, Traced
  PROVE  Conserved
<1>1. Parted(Accepted, Places)
  BY DEF Traced
<1>2. DOMAIN Places = 1..8
  BY DEF Places
<1> DEFINE P == Places
<1> HIDE DEF P
<1>3. UNION ToSet(P) = Accepted
  BY <1>1, <1>2 DEF Parted, ToSet, P
<1>4. \A i \in DOMAIN P : \A j \in 1..(i - 1) : P[i] \cap P[j] = {}
  BY <1>1, <1>2 DEF Parted, P
<1>5. IsInjective(originOutbox) /\ IsInjective(hydrationOutbox)
  BY InjIsInjective DEF Traced
<1>6. Cardinality(RecordsIn(delivered)) = Cardinality(delivered)
  <2>1. delivered \in SUBSET Known(HydrationTypes)
    BY DEF Shapes, HydrationShape
  <2> QED BY <2>1, RecordsCounted DEF Traced
<1> QED BY <1>3, <1>4, <1>5, <1>6 DEF Conserved, P

(* No flow has more deposits pending than the limit.                       *)
Limited == \A f \in Flows : Cardinality(PendingOf(f)) <= PendingLimit
IdsOf(deposits, f) ==
  {p.message : p \in {q \in ToSet(deposits) : messages[q.message].flow = f}}

(* The wrappers of a flow among deposits.                                   *)
LEMMA IdsAre ==
  ASSUME NEW deposits, NEW f, NEW n
  PROVE  n \in IdsOf(deposits, f) <=>
           \E p \in ToSet(deposits) : p.message = n /\ messages[n].flow = f
  BY DEF IdsOf

(* There are finitely many.                                                 *)
LEMMA IdsFinite ==
  ASSUME History, NEW deposits \in Seq(Deposits), NEW f
  PROVE  IsFiniteSet(IdsOf(deposits, f))
<1>1. \A p \in ToSet(deposits) : p \in Deposits
  <2> DEFINE S == Deposits
  <2>1. deposits \in Seq(S)
    OBVIOUS
  <2> HIDE DEF S
  <2>2. \A p \in ToSet(deposits) : p \in S
    BY <2>1, InSeq
  <2> QED BY <2>2 DEF S
<1>2. IdsOf(deposits, f) \subseteq 1..Len(messages)
  BY <1>1, IdsAre DEF Deposits, StorageMessages
<1>3. IsFiniteSet(1..Len(messages))
  BY FS_Interval DEF History
<1> QED BY <1>2, <1>3, FS_Subset

(* Those that are pending.                                                  *)
LEMMA PendingIds ==
  ASSUME NEW f
  PROVE  PendingOf(f) = IdsOf(pending, f)
  BY DEF PendingOf, IdsOf

(* Deposits only leave.                                                    *)
LEMMA LimitShrinks ==
  ASSUME Shapes, Limited, MoreHistory,
         \A p \in ToSet(pending)' : \E q \in ToSet(pending) : q.message = p.message
  PROVE  Limited'
<1> SUFFICES ASSUME NEW f \in Flows PROVE Cardinality(PendingOf(f)') <= PendingLimit
  BY DEF Limited
<1>1. PendingOf(f)' \subseteq PendingOf(f)
  <2> SUFFICES ASSUME NEW p \in ToSet(pending)', messages'[p.message].flow = f
               PROVE  p.message \in PendingOf(f)
    BY DEF PendingOf
  <2>1. PICK q \in ToSet(pending) : q.message = p.message
    OBVIOUS
  <2>2. q.message \in 1..Len(messages)
    <3> DEFINE S == Deposits
    <3>1. pending \in Seq(S)
      BY DEF Shapes, PendingShape
    <3> HIDE DEF S
    <3>2. q \in S
      BY <3>1, InSeq
    <3> QED BY <3>2 DEF S, Deposits, StorageMessages
  <2>3. messages'[q.message].flow = messages[q.message].flow
    BY <2>2 DEF MoreHistory
  <2> QED BY <2>1, <2>3 DEF PendingOf
<1>2. IsFiniteSet(PendingOf(f))
  BY PendingIds, IdsFinite DEF Shapes, PendingShape, DecoderShape
<1>3. Cardinality(PendingOf(f)') <= Cardinality(PendingOf(f))
      /\ Cardinality(PendingOf(f)) \in Nat /\ Cardinality(PendingOf(f)') \in Nat
  <2> DEFINE X == PendingOf(f)'
             Y == PendingOf(f)
  <2> HIDE DEF X, Y
  <2>1. X \in SUBSET Y /\ IsFiniteSet(Y)
    BY <1>1, <1>2 DEF X, Y
  <2>2. IsFiniteSet(X) /\ Cardinality(X) <= Cardinality(Y)
    BY <2>1, FS_Subset
  <2>3. Cardinality(X) \in Nat /\ Cardinality(Y) \in Nat
    BY <2>1, <2>2, FS_CardinalityType
  <2> QED BY <2>2, <2>3 DEF X, Y
<1>4. PendingLimit \in Nat
  BY CollectorConstants
<1> QED BY <1>3, <1>4 DEF Limited

(* Over the limit by one, evicting the oldest is enough.                    *)
LEMMA EvictedLimits ==
  ASSUME History, NEW deposits \in Seq(Deposits), NEW f,
         Cardinality(IdsOf(deposits, f)) <= PendingLimit + 1
  PROVE  Cardinality(IdsOf(deposits, f) \ Oldest(deposits, f)) <= PendingLimit
<1> DEFINE S == Deposits
           T == {p \in ToSet(deposits) : messages[p.message].flow = f}
           ofFlow == Where(deposits, T)
           ids == IdsOf(deposits, f)
<1>1. IsFiniteSet(ids) /\ Cardinality(ids) \in Nat /\ PendingLimit \in Nat
  BY IdsFinite, FS_CardinalityType, CollectorConstants
<1>2. Oldest(deposits, f) = IF Len(ofFlow) > PendingLimit THEN {Head(ofFlow).message} ELSE {}
  BY DEF Oldest
<1>3. deposits \in Seq(S)
  OBVIOUS
<1> HIDE DEF S
<1>4. ofFlow \in Seq(S) /\ ToSet(ofFlow) = T
  <2>1. T \subseteq ToSet(deposits)
    OBVIOUS
  <2> HIDE DEF T
  <2>2. ofFlow \in Seq(S) /\ ToSet(ofFlow) = ToSet(deposits) \cap T
    BY <1>3, WhereElements
  <2> QED BY <2>1, <2>2
<1> HIDE DEF ofFlow
<1>5. \A n : n \in ids <=> \E p \in ToSet(ofFlow) : p.message = n
  BY <1>4, IdsAre
<1> HIDE DEF T, ids
<1> DEFINE l == Len(ofFlow)
<1>6. l \in Nat /\ DOMAIN ofFlow = 1..l
  BY <1>4
<1>7. CASE l <= PendingLimit
  <2> DEFINE F == [i \in 1..l |-> ofFlow[i].message]
  <2>1. F \in Surjection(1..l, ids)
    <3>1. \A i \in 1..l : ofFlow[i].message \in ids
      BY <1>5, <1>6 DEF ToSet
    <3>2. \A n \in ids : \E i \in 1..l : ofFlow[i].message = n
      BY <1>5, <1>6 DEF ToSet
    <3> QED BY <3>1, <3>2 DEF Surjection
  <2>2. Cardinality(ids) <= l
    BY <1>6, <2>1, FS_SurjCardinalityBound DEF ExistsSurjection
  <2>3. Oldest(deposits, f) = {}
    BY <1>2, <1>6, <1>7, <1>1
  <2> QED BY <1>1, <1>6, <1>7, <2>2, <2>3 DEF ids
<1>8. CASE ~(l <= PendingLimit)
  <2> DEFINE h == Head(ofFlow).message
  <2>1. l > PendingLimit /\ l >= 1
    BY <1>1, <1>6, <1>8
  <2>2. h \in ids
    <3>1. ofFlow # <<>> /\ Head(ofFlow) = ofFlow[1] /\ 1 \in DOMAIN ofFlow
      BY <1>4, <1>6, <2>1
    <3> QED BY <1>5, <3>1 DEF ToSet
  <2> HIDE DEF h
  <2>3. Oldest(deposits, f) = {h}
    BY <1>2, <2>1 DEF h
  <2>4. Cardinality(ids \ {h}) = Cardinality(ids) - 1
    BY <1>1, <2>2, FS_RemoveElement
  <2> QED BY <1>1, <2>3, <2>4 DEF ids
<1> QED BY <1>7, <1>8

(* A new deposit keeps its flow within the limit.                           *)
LEMMA RetainLimited ==
  ASSUME Shapes, Limited, NEW m, Registering(m), m \in StorageMessages,
         NEW deposit \in Deposits, deposit.message = m, NEW gone, NEW worker,
         Retain(deposit, gone, worker)
  PROVE  Limited'
<1> DEFINE all == Append(pending, deposit)
           kept == Retained(deposit, gone)
           evicted == Evicted(deposit, gone)
           S == Deposits
<1>1. /\ pending' = Keep(kept, evicted)
      /\ ToSet(all) = ToSet(pending) \cup {deposit}
      /\ kept \in Seq(S) /\ ToSet(kept) = {p \in ToSet(all) : p.message \notin gone}
  BY RetainIs DEF Registering
<1>2. History /\ pending \in Seq(S)
  BY DEF Shapes, DecoderShape, PendingShape
<1>3. evicted = IF m \in gone THEN {} ELSE Oldest(kept, messages[m].flow)
  BY DEF Evicted, Retained
<1> HIDE DEF kept, evicted, all
<1>4. ToSet(pending') = {p \in ToSet(kept) : p.message \notin evicted}
  <2> HIDE DEF S
  <2> QED BY <1>1, KeepIs
<1>5. \A p \in ToSet(kept) : p.message \in 1..Len(messages)
  <2> HIDE DEF S
  <2>1. \A p \in ToSet(kept) : p \in S
    BY <1>1, InSeq
  <2> QED BY <2>1 DEF S, Deposits, StorageMessages
<1> SUFFICES ASSUME NEW f \in Flows PROVE Cardinality(PendingOf(f)') <= PendingLimit
  BY DEF Limited
<1> DEFINE X == PendingOf(f)'
           Y == PendingOf(f)
           K == IdsOf(kept, f)
<1>6. X = K \ evicted
  <2>1. X = {p.message : p \in {q \in ToSet(pending') : messages'[q.message].flow = f}}
    BY DEF PendingOf
  <2>2. \A p \in ToSet(kept) : messages'[p.message].flow = messages[p.message].flow
    BY <1>5 DEF Registering, MoreHistory
  <2>3. ASSUME NEW n PROVE n \in X <=> n \in K /\ n \notin evicted
    <3>1. n \in X <=> \E p \in ToSet(pending') : p.message = n /\ messages'[p.message].flow = f
      BY <2>1
    <3>2. n \in K <=> \E p \in ToSet(kept) : p.message = n /\ messages[n].flow = f
      BY IdsAre
    <3> HIDE DEF X, K
    <3> QED BY <1>4, <2>2, <3>1, <3>2
  <2> HIDE DEF X, K
  <2> QED BY <2>3
<1>7. IsFiniteSet(Y) /\ IsFiniteSet(K)
  BY <1>1, <1>2, PendingIds, IdsFinite
<1>8. Cardinality(Y) <= PendingLimit /\ PendingLimit \in Nat
  BY CollectorConstants DEF Limited
<1>9. \A n \in K : n \in Y \/ (n = m /\ m \notin gone /\ f = messages[m].flow)
  <2> TAKE n \in K
  <2>1. PICK p \in ToSet(kept) : p.message = n /\ messages[n].flow = f
    BY IdsAre
  <2>2. p \in ToSet(pending) \/ (p = deposit /\ m \notin gone)
    BY <1>1, <2>1
  <2>3. p \in ToSet(pending) => n \in IdsOf(pending, f)
    BY <2>1, IdsAre
  <2> QED BY <2>1, <2>2, <2>3, PendingIds
<1> HIDE DEF X, Y, K
<1>10. CASE K \subseteq Y
  <2>1. X \in SUBSET Y
    BY <1>6, <1>10
  <2>2. IsFiniteSet(X) /\ Cardinality(X) <= Cardinality(Y)
    BY <1>7, <2>1, FS_Subset
  <2>3. Cardinality(X) \in Nat /\ Cardinality(Y) \in Nat
    BY <1>7, <2>2, FS_CardinalityType
  <2> QED BY <1>8, <2>2, <2>3 DEF X
<1>11. CASE ~(K \subseteq Y)
  <2>1. m \notin gone /\ f = messages[m].flow /\ K \subseteq Y \cup {m}
    BY <1>9, <1>11
  <2>2. IsFiniteSet(Y \cup {m}) /\ Cardinality(Y \cup {m}) <= Cardinality(Y) + 1
    <3>1. IsFiniteSet(Y \cup {m}) /\ Cardinality(Y \cup {m}) =
            IF m \in Y THEN Cardinality(Y) ELSE Cardinality(Y) + 1
      BY <1>7, FS_AddElement
    <3>2. Cardinality(Y) \in Nat
      BY <1>7, FS_CardinalityType
    <3> QED BY <3>1, <3>2
  <2>3. Cardinality(K) <= Cardinality(Y \cup {m})
    BY <2>1, <2>2, FS_Subset
  <2>4. Cardinality(K) \in Nat /\ Cardinality(Y) \in Nat /\ Cardinality(Y \cup {m}) \in Nat
    BY <1>7, <2>2, FS_CardinalityType
  <2>5. Cardinality(K) <= PendingLimit + 1
    BY <1>8, <2>2, <2>3, <2>4
  <2>6. Cardinality(K \ Oldest(kept, f)) <= PendingLimit
    BY <1>1, <1>2, <2>5, EvictedLimits DEF K
  <2> QED BY <1>3, <1>6, <2>1, <2>6 DEF X
<1> QED BY <1>10, <1>11

(* Initially nothing is pending.                                            *)
LEMMA InitLimited == Init => Limited
<1> SUFFICES ASSUME Init, NEW f \in Flows PROVE Cardinality(PendingOf(f)) <= PendingLimit
  BY DEF Limited
<1>1. PendingOf(f) = {}
  BY DEF Init, PendingOf, ToSet
<1>2. Cardinality({}) = 0 /\ PendingLimit \in Nat
  BY FS_EmptySet, CollectorConstants
<1> QED BY <1>1, <1>2

(* Closing takes deposits away, and observing marks or takes them.         *)
LEMMA KeptLimited ==
  ASSUME Shapes, Limited, MoreHistory, NEW deposits, deposits \in Seq(Deposits), NEW gone,
         pending' = Keep(deposits, gone),
         \A q \in ToSet(deposits) : \E r \in ToSet(pending) : r.message = q.message
  PROVE  Limited'
<1> DEFINE S == Deposits
<1>1. deposits \in Seq(S)
  OBVIOUS
<1> HIDE DEF S
<1>2. ToSet(pending)' \subseteq ToSet(deposits)
  <2>1. ToSet(pending)' = ToSet(pending')
    OBVIOUS
  <2> QED BY <1>1, <2>1, KeepIs
<1> QED BY <1>2, LimitShrinks

(* Every action keeps the limit.                                            *)
LEMMA StepLimited == IInv /\ Shapes /\ Limited /\ [Next]_vars => Limited'
<1> SUFFICES ASSUME IInv, Shapes, Limited, [Next]_vars PROVE Limited'
  OBVIOUS
<1>0. UNCHANGED messages => MoreHistory
  BY SameHistory DEF Shapes
<1>1. UNCHANGED pending /\ MoreHistory => Limited'
  BY LimitShrinks
<1>2. CASE UNCHANGED <<messages, pending>>
  BY <1>0, <1>1, <1>2
<1>3. ASSUME NEW t \in Threads, Decode(t) PROVE Limited'
  BY <1>1, <1>3, DecodeHistory DEF Decode, origin
<1>4. ASSUME NEW t \in Threads, Register(t) PROVE Limited'
  <2> DEFINE m == Len(messages)
  <2>1. /\ Registering(m) /\ MoreHistory
        /\ Boundary(m) \/ Completed(m) \/ Incomplete(m)
    BY <1>4, RegisterStep DEF Registering
  <2> HIDE DEF m
  <2>2. CASE Completed(m)
    <3>1. m \in StorageMessages
      BY <2>2 DEF Completed
    <3>2. PICK deposit \in Deposits : \E gone, worker :
            deposit.message = m /\ worker \subseteq gone /\ Retain(deposit, gone, worker)
      BY <2>2 DEF Completed
    <3> QED BY <2>1, <3>1, <3>2, RetainLimited
  <2>3. CASE Boundary(m) \/ Incomplete(m)
    BY <1>1, <2>1, <2>3 DEF Boundary, Incomplete, Settled3, origin
  <2> QED BY <2>1, <2>2, <2>3
<1>5. ASSUME NEW t \in Threads, Observe(t) PROVE Limited'
  <2>1. PICK p \in ToSet(pending), found \in BOOLEAN : \E gone :
          pending' = Keep(Marked(p, found), gone)
    BY <1>5, ObserveIs
  <2>2. MoreHistory
    BY <1>0, <1>5 DEF Observe, decoder
  <2> QED BY <2>1, <2>2, MarkedIs, KeptLimited
<1>6. ASSUME NEW batches, NEW closing, ClosePending(batches, closing), UNCHANGED messages
      PROVE  Limited'
  <2>1. PICK gone : pending' = Keep(pending, gone)
    BY <1>6 DEF ClosePending
  <2>2. pending \in Seq(Deposits)
    BY DEF Shapes, PendingShape
  <2> QED BY <1>0, <1>6, <2>1, <2>2, KeptLimited
<1>7. CASE FlushStale
  BY <1>6, <1>7 DEF FlushStale, decoder
<1>8. CASE Finalize
  BY <1>6, <1>8 DEF Finalize, decoder
<1>9. ASSUME NEW t \in Threads, CloseFlow(t) PROVE Limited'
  BY <1>6, <1>9 DEF CloseFlow
<1>10. ASSUME NEW t \in Threads, Step(t), ~Register(t) PROVE Limited'
  <2>1. UNCHANGED <<messages, pending>>
    BY <1>10 DEF Step, OriginDrain, Observer, AfterOriginCall, HydrationHalf, HydrationDrain,
                 Deliver, decoder, origin
  <2> QED BY <1>2, <2>1
<1>11. CASE UNCHANGED vars \/ Tick \/ WorkerEnds \/ FlushSkipped \/ Stopped
  <2>1. UNCHANGED <<messages, pending>>
    BY <1>11 DEF Tick, WorkerEnds, FlushSkipped, Stopped, vars, decoder, origin
  <2> QED BY <1>2, <2>1
<1> QED BY <1>3, <1>4, <1>5, <1>7, <1>8, <1>9, <1>10, <1>11 DEF Next

(* The shapes, and the limit, are the type invariant.                       *)
LEMMA ShapesTyped ==
  ASSUME Shapes, Limited
  PROVE  TypeOK
<1> DEFINE O == Known(OriginTypes)
           H == Known(HydrationTypes)
<1>1. History /\ Len(messages) \in Nat /\ MaxRecords \in Nat
  BY ConstantLimits DEF Shapes, DecoderShape, History
<1>2. O \subseteq OriginEvents /\ H \subseteq HydrationEvents
  <2>1. \A m \in 1..Len(messages) : m \in Messages
    BY <1>1, MessageIs
  <2> QED BY <2>1 DEF Known, OriginEvents, HydrationEvents, EventSet, OriginTypes, HydrationTypes
<1>3. DOMAIN messages \subseteq Messages /\ todo \in 0..MaxRecords
  <2>1. DOMAIN messages = 1..Len(messages)
    BY <1>1 DEF History
  <2>2. \A m \in 1..Len(messages) : m \in Messages
    BY <1>1, MessageIs
  <2>3. CASE todo = 0
    BY <1>1, <2>1, <2>2, <2>3
  <2>4. CASE todo # 0
    <3> DEFINE m == Len(messages)
    <3>1. todo \in Nat /\ todo > 0 /\ m \in 1..Len(messages)
          /\ Registered(m) + todo = messages[m].count
      BY <1>1, <2>4 DEF Shapes, DecoderShape
    <3>2. Registered(m) \in Nat /\ messages[m].count \in 1..MaxRecords
      BY <1>1, <3>1, MessageIs DEF Registered
    <3> HIDE DEF m
    <3>3. todo \in 0..MaxRecords
      BY <1>1, <3>1, <3>2
    <3> QED BY <2>1, <2>2, <3>3
  <2> QED BY <2>3, <2>4
<1>4. ASSUME NEW S, NEW T, S \subseteq T, NEW hand \in [Threads -> Seq(S)]
      PROVE  DOMAIN hand = Threads /\ HandsOf(hand, Threads) \subseteq T
  <2>1. \A t \in Threads : \A x \in ToSet(hand[t]) : x \in S
    BY <1>4, InSeq
  <2> QED BY <1>4, <2>1 DEF HandsOf
<1>5. /\ originOutbox \in Seq(O) /\ originHand \in [Threads -> Seq(O)]
      /\ hydrationOutbox \in Seq(H) /\ hydrationHand \in [Threads -> Seq(H)]
      /\ delivered \subseteq H
  BY DEF Shapes, OriginShape, HydrationShape
<1> HIDE DEF O, H
<1>6. ToSet(originOutbox) \subseteq OriginEvents /\ ToSet(hydrationOutbox) \subseteq HydrationEvents
  BY <1>2, <1>5, InSeq
<1>7. /\ DOMAIN originHand = Threads /\ HandsOf(originHand, Threads) \subseteq OriginEvents
      /\ DOMAIN hydrationHand = Threads
      /\ HandsOf(hydrationHand, Threads) \subseteq HydrationEvents
  BY <1>2, <1>4, <1>5
<1>8. anchor \in [Keys -> Nat \cup {None}]
  <2>1. anchor \in [Keys -> (0..MaxTime) \cup {None}] /\ MaxTime \in Nat
    BY CollectorConstants DEF Shapes, AnchorShape
  <2>2. (0..MaxTime) \cup {None} \subseteq Nat \cup {None}
    BY <2>1
  <2> QED BY <2>1, <2>2
<1>9. delivered \subseteq HydrationEvents
  BY <1>2, <1>5
<1> QED BY <1>3, <1>6, <1>7, <1>8, <1>9
        DEF TypeOK, Shapes, DecoderShape, StagedShape, Limited

(* What proves a snapshot only grows with the history.                     *)
LEMMA WindowGrows ==
  ASSUME History, MoreHistory, NEW k, NEW lo, NEW hi
  PROVE  /\ \A m \in Window(k, lo, hi) : m \in Window(k, lo, hi)'
         /\ InventoryAt(k, lo, hi) => InventoryAt(k, lo, hi)'
<1>1. \A m \in 1..Len(messages) :
        /\ m \in 1..Len(messages') /\ KeyOf(m)' = KeyOf(m) /\ Neutral(m)' = Neutral(m)
        /\ messages'[m].time = messages[m].time /\ messages'[m].kind = messages[m].kind
        /\ Registered(m) > 0 => Registered(m)' > 0
  <2> TAKE m \in 1..Len(messages)
  <2>1. /\ messages'[m].flow = messages[m].flow /\ messages'[m].kind = messages[m].kind
        /\ messages'[m].generation = messages[m].generation
        /\ messages'[m].time = messages[m].time
        /\ Registered(m) \in Nat /\ messages'[m].registered \in Nat
        /\ Registered(m) <= messages'[m].registered
    BY DEF MoreHistory
  <2>2. m \in 1..Len(messages')
    BY DEF MoreHistory
  <2> QED BY <2>1, <2>2 DEF KeyOf, Neutral, Registered
<1>2. ASSUME NEW m \in Window(k, lo, hi) PROVE m \in Window(k, lo, hi)'
  <2>1. /\ m \in 1..Len(messages) /\ Neutral(m) /\ Registered(m) > 0 /\ KeyOf(m) = k
        /\ messages[m].time \in lo..hi
    BY <1>2 DEF Window
  <2>2. /\ m \in 1..Len(messages') /\ Neutral(m)' /\ Registered(m)' > 0 /\ KeyOf(m)' = k
        /\ messages'[m].time \in lo..hi
    BY <1>1, <2>1
  <2> QED BY <2>2 DEF Window
<1>3. ASSUME InventoryAt(k, lo, hi) PROVE InventoryAt(k, lo, hi)'
  <2>1. PICK m \in 1..Len(messages) : /\ messages[m].kind = "inventory_snapshot" /\ KeyOf(m) = k
                                      /\ messages[m].time \in lo..hi
    BY <1>3 DEF InventoryAt
  <2>2. /\ m \in 1..Len(messages') /\ messages'[m].kind = "inventory_snapshot" /\ KeyOf(m)' = k
        /\ messages'[m].time \in lo..hi
    BY <1>1, <2>1
  <2> QED BY <2>2 DEF InventoryAt
<1> QED BY <1>2, <1>3

(* The destinations of some neutral records,                                *)
LEMMA DestinationIs ==
  ASSUME NEW S, NEW d
  PROVE  d \in DestinationsOf(S) <=> d # None /\ \E m \in S : messages[m].destination = d
  BY DEF DestinationsOf

(* ... of which there are finitely many,                                    *)
LEMMA DestinationsFinite ==
  ASSUME History, NEW S \in SUBSET (1..Len(messages))
  PROVE  IsFiniteSet(DestinationsOf(S))
<1> DEFINE f == [m \in S |-> messages[m].destination]
           T == {messages[m].destination : m \in S}
<1>1. IsFiniteSet(S)
  <2>1. IsFiniteSet(1..Len(messages))
    BY FS_Interval DEF History
  <2> QED BY <2>1, FS_Subset
<1>2. f \in Surjection(S, T)
  BY DEF Surjection
<1>3. IsFiniteSet(T)
  <2> HIDE DEF f, T
  <2> QED BY <1>1, <1>2, FS_Surjection
<1>4. DestinationsOf(S) \in SUBSET T
  BY DEF DestinationsOf
<1> HIDE DEF T
<1> QED BY <1>3, <1>4, FS_Subset

FiniteDestinations ==
  History => \A S \in SUBSET (1..Len(messages)) : IsFiniteSet(DestinationsOf(S))

(* ... in every state                                                       *)
LEMMA FiniteNow == FiniteDestinations
  BY DestinationsFinite DEF FiniteDestinations

(* ... and in the next one,                                                 *)
LEMMA FiniteThen == FiniteDestinations'
  BY FiniteNow, PTL

(* ... and which a longer history keeps.                                    *)
LEMMA DestinationsGrow ==
  ASSUME History, MoreHistory, NEW S \in SUBSET (1..Len(messages)), NEW T, \A m \in S : m \in T
  PROVE  \A d \in DestinationsOf(S) : d # None /\ \E m \in T : messages'[m].destination = d
<1> TAKE d \in DestinationsOf(S)
<1>1. d # None
  BY DestinationIs
<1>2. PICK m \in S : messages[m].destination = d
  BY DestinationIs
<1>3. messages'[m].destination = d
  BY <1>2 DEF MoreHistory
<1> QED BY <1>1, <1>2, <1>3

(* What spans enough still does when it grows.                              *)
LEMMA LargerSpan ==
  ASSUME NEW A, NEW B, IsFiniteSet(B), A \subseteq B, NEW n \in Nat, Cardinality(A) >= n
  PROVE  Cardinality(B) >= n
<1>1. IsFiniteSet(A) /\ Cardinality(A) <= Cardinality(B)
  BY FS_Subset
<1>2. Cardinality(A) \in Nat /\ Cardinality(B) \in Nat
  BY <1>1, FS_CardinalityType
<1> QED BY <1>1, <1>2

(* The time and the key of a known event.                                   *)
LEMMA TimeIs ==
  ASSUME History, NEW types \in SUBSET AllTypes, NEW e \in Known(types)
  PROVE  /\ e.message \in 1..Len(messages) /\ Time(e) \in Nat /\ Key(e) = KeyOf(e.message)
         /\ e.message \in Messages
<1>1. e.message \in 1..Len(messages)
  BY DEF Known
<1>2. messages[e.message].time \in 0..MaxTime
  BY <1>1, MessageIs
<1>3. MaxTime \in Nat
  BY CollectorConstants
<1> QED BY <1>1, <1>2, <1>3, MessageIs DEF Time, Key, KeyOf

(* The neutral records decoded around the time of an event.                 *)
LEMMA CohortIs ==
  ASSUME NEW e, NEW m
  PROVE  m \in Cohort(e) <=>
           /\ m \in 1..Len(messages) /\ Neutral(m) /\ Registered(m) > 0 /\ KeyOf(m) = Key(e)
           /\ messages[m].time - Time(e) \in (-BurstLength)..BurstLength
  BY DEF Cohort, Neutral, Registered, KeyOf

(* They span as many destinations as they have.                             *)
LEMMA SpansIs ==
  ASSUME NEW S, NEW n
  PROVE  Spans(S, n) <=> Cardinality(DestinationsOf(S)) >= n
  BY DEF Spans, DestinationsOf

(* A proven snapshot stays proven.                                         *)
LEMMA SnapshotStays ==
  ASSUME History, History', MoreHistory, NEW types \in SUBSET AllTypes, NEW e \in Known(types),
         SnapshotProven(e)
  PROVE  SnapshotProven(e)'
<1>1. /\ e.message \in 1..Len(messages) /\ Key(e)' = Key(e) /\ Time(e)' = Time(e)
  BY TimeIs DEF MoreHistory, Key, Time
<1> DEFINE C == Cohort(e)
<1>2. \A m \in C : m \in Cohort(e)' /\ messages'[m].count = messages[m].count
  <2> TAKE m \in C
  <2>1. /\ m \in 1..Len(messages) /\ Neutral(m) /\ Registered(m) > 0 /\ KeyOf(m) = Key(e)
        /\ messages[m].time - Time(e) \in (-BurstLength)..BurstLength
    BY CohortIs
  <2>2. /\ messages'[m].flow = messages[m].flow /\ messages'[m].kind = messages[m].kind
        /\ messages'[m].generation = messages[m].generation
        /\ messages'[m].time = messages[m].time /\ messages'[m].count = messages[m].count
        /\ Registered(m) \in Nat /\ messages'[m].registered \in Nat
        /\ Registered(m) <= messages'[m].registered
    BY <2>1 DEF MoreHistory
  <2>3. m \in 1..Len(messages')
    BY <2>1 DEF MoreHistory
  <2>4. /\ messages'[m].registered > 0
        /\ <<messages'[m].flow, messages'[m].generation>> = Key(e)'
    BY <1>1, <2>1, <2>2 DEF KeyOf
  <2>5. m \in Cohort(e)'
    BY <1>1, <2>1, <2>2, <2>3, <2>4 DEF Cohort, Neutral
  <2> QED BY <2>2, <2>5
<1>3. C \in SUBSET (1..Len(messages)) /\ Cohort(e)' \in SUBSET (1..Len(messages'))
  BY DEF Cohort
<1>4. DestinationsOf(C) \subseteq DestinationsOf(Cohort(e))'
  <2> HIDE DEF C
  <2>1. \A d \in DestinationsOf(C) : d # None /\ \E m \in Cohort(e)' : messages'[m].destination = d
    BY <1>2, <1>3, DestinationsGrow
  <2> QED BY <2>1 DEF DestinationsOf
<1>5. IsFiniteSet(DestinationsOf(Cohort(e))')
  <2>1. IsFiniteSet({messages'[m].destination : m \in Cohort(e)'} \ {None})
    <3>1. \A S \in SUBSET (1..Len(messages')) : IsFiniteSet(DestinationsOf(S)')
      BY FiniteThen DEF FiniteDestinations
    <3> QED BY <1>3, <3>1 DEF DestinationsOf
  <2> QED BY <2>1 DEF DestinationsOf
<1>6. ASSUME NEW n \in Nat, Spans(C, n) PROVE Spans(Cohort(e), n)'
  <2>1. Cardinality(DestinationsOf(C)) >= n
    BY <1>6, SpansIs
  <2> HIDE DEF C
  <2>2. Cardinality(DestinationsOf(Cohort(e))') >= n
    BY <1>4, <1>5, <2>1, LargerSpan
  <2> QED BY <2>2 DEF Spans, DestinationsOf
<1>7. MinAnchored \in Nat /\ MinUnanchored \in Nat
  BY CollectorConstants
<1>8. CASE /\ Spans(C, MinAnchored)
           /\ InventoryAt(Key(e), Time(e) - Epoch, Time(e))
  <2>1. Spans(Cohort(e), MinAnchored)'
    BY <1>6, <1>7, <1>8
  <2> DEFINE k == Key(e)
             lo == Time(e) - Epoch
             hi == Time(e)
  <2>2. \A l, a, b : InventoryAt(l, a, b) => InventoryAt(l, a, b)'
    BY WindowGrows
  <2>3. InventoryAt(Key(e), Time(e) - Epoch, Time(e))'
    BY <1>1, <1>8, <2>2
  <2> QED BY <2>1, <2>3 DEF SnapshotProven
<1>9. CASE /\ Spans(C, MinUnanchored)
           /\ \E m \in C : messages[m].count >= MinRecordCount
  <2>1. Spans(Cohort(e), MinUnanchored)'
    BY <1>6, <1>7, <1>9
  <2>2. \E m \in Cohort(e)' : messages'[m].count >= MinRecordCount
    BY <1>2, <1>9
  <2> QED BY <2>1, <2>2 DEF SnapshotProven
<1> QED BY <1>8, <1>9 DEF SnapshotProven

(* The fields of a burst.                                                   *)
LEMMA CohortFields ==
  ASSUME NEW b \in Cohorts
  PROVE  /\ b.first \in Nat /\ b.last \in Nat /\ b.anchored \in BOOLEAN
         /\ b.destinations \subseteq Destinations /\ b.recordCount \in Nat
         /\ b.confirmed \in BOOLEAN
  BY DEF Cohorts

(* The neutral records of a key within a span of time.                      *)
LEMMA WindowIs ==
  ASSUME NEW k, NEW lo, NEW hi, NEW m
  PROVE  m \in Window(k, lo, hi) <=>
           /\ m \in 1..Len(messages) /\ Neutral(m) /\ Registered(m) > 0 /\ KeyOf(m) = k
           /\ messages[m].time \in lo..hi
  BY DEF Window

(* What is proven of a cohort stays so.                                    *)
LEMMA BurstStays ==
  ASSUME History, History', MoreHistory, NEW b \in Cohorts, NEW k, BurstShape(b, k),
         BurstProven(b, k)
  PROVE  BurstProven(b, k)'
<1>1. \A e \in ToSet(b.events) : Time(e)' = Time(e)
  <2> DEFINE S == Known({"storage_record"})
             s == b.events
  <2>1. s \in Seq(S)
    BY DEF BurstShape
  <2> HIDE DEF S, s
  <2>2. \A e \in ToSet(s) : e \in S
    BY <2>1, InSeq
  <2>3. \A e \in S : Time(e)' = Time(e)
    <3> TAKE e \in S
    <3>1. e.message \in 1..Len(messages)
      BY DEF S, Known
    <3> QED BY <3>1 DEF Time, MoreHistory
  <2> QED BY <2>2, <2>3 DEF s
<1> DEFINE W == Window(k, b.first, b.last)
<1>2. \A m \in W : /\ m \in W' /\ m \in 1..Len(messages)
                   /\ messages'[m].count = messages[m].count
                   /\ messages'[m].destination = messages[m].destination
  <2>1. \A lo, hi : \A m \in Window(k, lo, hi) : m \in Window(k, lo, hi)'
    BY WindowGrows
  <2>2. \A m \in W : m \in 1..Len(messages)
    BY DEF Window
  <2> QED BY <2>1, <2>2 DEF MoreHistory
<1>3. b.first <= b.last /\ b.last - b.first <= BurstLength
  BY DEF BurstProven
<1>4. \A e \in ToSet(b.events) : Time(e)' \in b.first..b.last
  BY <1>1 DEF BurstProven
<1>5. b.anchored => \A e \in ToSet(b.events) : InventoryAt(k, Time(e) - Epoch, Time(e))'
  <2>1. \A lo, hi : InventoryAt(k, lo, hi) => InventoryAt(k, lo, hi)'
    BY WindowGrows
  <2> SUFFICES ASSUME b.anchored, NEW e \in ToSet(b.events)
               PROVE  InventoryAt(k, Time(e) - Epoch, Time(e))'
    OBVIOUS
  <2>2. InventoryAt(k, Time(e) - Epoch, Time(e))
    BY DEF BurstProven
  <2> QED BY <1>1, <2>1, <2>2
<1>6. b.destinations \subseteq DestinationsOf(W)'
  <2>1. ASSUME NEW d \in b.destinations PROVE d \in DestinationsOf(W)'
    <3>1. d \in DestinationsOf(W)
      BY DEF BurstProven
    <3>2. d # None /\ \E m \in W : messages[m].destination = d
      BY <3>1, DestinationIs
    <3>3. \E m \in W' : messages'[m].destination = d
      BY <1>2, <3>2
    <3> QED BY <3>2, <3>3 DEF DestinationsOf
  <2> QED BY <2>1
<1>7. b.recordCount > 0 => \E m \in W' : messages'[m].count >= b.recordCount
  <2>1. b.recordCount > 0 => \E m \in W : messages[m].count >= b.recordCount
    BY DEF BurstProven
  <2> QED BY <1>2, <2>1
<1>8. b.confirmed => Enough(b)
  BY DEF BurstProven
<1> QED BY <1>3, <1>4, <1>5, <1>6, <1>7, <1>8 DEF BurstProven

(* Two moments of a burst are no further apart than it is long.            *)
LEMMA WithinLength ==
  ASSUME NEW f \in Nat, NEW l \in Nat, NEW n \in Nat, l - f <= n, NEW x \in f..l, NEW y \in f..l
  PROVE  x - y \in (-n)..n
  OBVIOUS

(* Enough of a cohort proves any record of its window a snapshot.          *)
LEMMA WindowProves ==
  ASSUME History, NEW k, NEW b \in Cohorts, BurstProven(b, k), Enough(b),
         NEW e, Key(e) = k, Time(e) \in b.first..b.last, Time(e) \in Nat,
         b.anchored => InventoryAt(k, Time(e) - Epoch, Time(e))
  PROVE  SnapshotProven(e)
<1> DEFINE W == Window(k, b.first, b.last)
           C == Cohort(e)
<1>0. /\ b.first \in Nat /\ b.last \in Nat /\ b.recordCount \in Nat
      /\ {BurstLength, MinAnchored, MinUnanchored, MinRecordCount} \subseteq Nat
      /\ MinRecordCount > 0
  BY CohortFields, CollectorConstants
<1>1. \A m \in W : m \in C
  <2> TAKE m \in W
  <2>1. /\ m \in 1..Len(messages) /\ Neutral(m) /\ Registered(m) > 0 /\ KeyOf(m) = k
        /\ messages[m].time \in b.first..b.last
    BY WindowIs
  <2>2. messages[m].time - Time(e) \in (-BurstLength)..BurstLength
    <3>1. b.last - b.first <= BurstLength
      BY DEF BurstProven
    <3> DEFINE f == b.first
               l == b.last
               x == messages[m].time
               y == Time(e)
    <3>2. f \in Nat /\ l \in Nat /\ BurstLength \in Nat /\ l - f <= BurstLength
      BY <1>0, <3>1
    <3>3. x \in f..l /\ y \in f..l
      BY <2>1
    <3> HIDE DEF f, l, x, y
    <3>4. x - y \in (-BurstLength)..BurstLength
      BY <3>2, <3>3, WithinLength
    <3> QED BY <3>4 DEF x, y
  <2> QED BY <2>1, <2>2, CohortIs
<1>2. C \in SUBSET (1..Len(messages))
  BY DEF Cohort
<1>3. ASSUME NEW n \in Nat, Cardinality(b.destinations) >= n
      PROVE  Spans(C, n)
  <2>1. b.destinations \subseteq DestinationsOf(W)
    BY DEF BurstProven
  <2>2. DestinationsOf(W) \subseteq DestinationsOf(C)
    BY <1>1, DestinationIs
  <2>3. IsFiniteSet(DestinationsOf(C))
    BY <1>2, DestinationsFinite
  <2> HIDE DEF C, W
  <2>4. Cardinality(DestinationsOf(C)) >= n
    BY <1>3, <2>1, <2>2, <2>3, LargerSpan
  <2> QED BY <2>4, SpansIs
<1>4. CASE b.anchored
  <2>1. Cardinality(b.destinations) >= MinAnchored
    BY <1>4 DEF Enough
  <2>2. Spans(C, MinAnchored)
    BY <1>0, <1>3, <2>1
  <2> QED BY <1>4, <2>2 DEF SnapshotProven
<1>5. CASE ~b.anchored
  <2>1. Cardinality(b.destinations) >= MinUnanchored /\ b.recordCount >= MinRecordCount
    BY <1>5 DEF Enough
  <2>2. Spans(C, MinUnanchored)
    BY <1>0, <1>3, <2>1
  <2>3. PICK m \in W : messages[m].count >= b.recordCount
    BY <1>0, <2>1 DEF BurstProven
  <2>4. messages[m].count >= MinRecordCount /\ m \in C
    <3>1. m \in 1..Len(messages)
      BY WindowIs
    <3>2. messages[m].count \in Nat
      BY <3>1, MessageIs
    <3> QED BY <1>0, <1>1, <2>1, <2>3, <3>2
  <2> QED BY <2>2, <2>4 DEF SnapshotProven
<1> QED BY <1>4, <1>5

(* The cohort a neutral record joins is proven with the record in it.      *)
JoinedProven(e) ==
  /\ BurstProven(Joined(e), Key(e)) /\ Time(e) \in Joined(e).first..Joined(e).last
  /\ Joined(e).anchored => InventoryAt(Key(e), Time(e) - Epoch, Time(e))

From(e) == IF Continues(bursts[Key(e)], e) THEN bursts[Key(e)] ELSE NewBurst(e)

(* The burst a neutral record finds, or opens, is proven.                   *)
LEMMA FromIs ==
  ASSUME Shapes, Proven, NEW e \in NeutralEvents
  PROVE  /\ From(e) \in Cohorts /\ Time(e) \in Nat /\ Key(e) \in Keys
         /\ BurstProven(From(e), Key(e)) /\ From(e).anchored = Anchored(e)
         /\ From(e).last <= Time(e) /\ From(e).first <= Time(e)
         /\ Time(e) - From(e).first <= BurstLength
<1> DEFINE k == Key(e)
<1>1. /\ k \in Keys /\ Time(e) \in Nat /\ e.message \in 1..Len(messages) /\ History
  BY KeyIn DEF Shapes, DecoderShape, NeutralEvents
<1>2. CASE Continues(bursts[k], e)
  <2>1. /\ bursts[k] # None /\ Time(e) - bursts[k].first <= BurstLength
        /\ Time(e) >= bursts[k].last /\ bursts[k].anchored = Anchored(e)
    BY <1>2 DEF Continues
  <2>2. bursts[k] \in Cohorts /\ BurstProven(bursts[k], k)
    BY <1>1, <2>1 DEF Shapes, BurstsShape, BurstShape, Proven
  <2>3. bursts[k].first <= bursts[k].last
    BY <2>2 DEF BurstProven
  <2>4. bursts[k].first \in Nat /\ bursts[k].last \in Nat
    BY <2>2, CohortFields
  <2>5. bursts[k].first <= Time(e)
    BY <1>1, <2>1, <2>3, <2>4
  <2>6. From(e) = bursts[k]
    BY <1>2 DEF From
  <2> QED BY <1>1, <2>1, <2>2, <2>5, <2>6
<1>3. CASE ~Continues(bursts[k], e)
  <2> DEFINE b == NewBurst(e)
  <2>1. From(e) = b
    BY <1>3 DEF From
  <2>2. b \in Cohorts
    BY <1>1 DEF NewBurst, Cohorts, Anchored
  <2>3. /\ b.first = Time(e) /\ b.last = Time(e) /\ b.anchored = Anchored(e)
        /\ b.events = <<>> /\ b.destinations = {} /\ b.recordCount = 0 /\ b.confirmed = FALSE
    BY DEF NewBurst
  <2>4. ToSet(b.events) = {}
    BY <2>3 DEF ToSet
  <2> HIDE DEF b
  <2>5. BurstLength \in Nat
    BY CollectorConstants
  <2>6. BurstProven(b, k)
    BY <1>1, <2>3, <2>4, <2>5 DEF BurstProven
  <2> QED BY <1>1, <2>1, <2>2, <2>3, <2>5, <2>6
<1> QED BY <1>2, <1>3

(* An anchored record has an inventory snapshot within Epoch before it.     *)
LEMMA AnchorsRecord ==
  ASSUME Shapes, Proven, NEW e \in NeutralEvents, Anchored(e)
  PROVE  InventoryAt(Key(e), Time(e) - Epoch, Time(e))
<1> DEFINE k == Key(e)
           a == anchor[k]
<1>1. k \in Keys /\ Time(e) \in Nat /\ History
  BY FromIs DEF Shapes, DecoderShape
<1>2. a # None /\ a <= Time(e) /\ Time(e) - a <= Epoch
  BY DEF Anchored
<1>3. a \in 0..MaxTime /\ MaxTime \in Nat /\ Epoch \in Nat
  BY <1>1, <1>2, CollectorConstants DEF Shapes, AnchorShape
<1>4. InventoryAt(k, a, a)
  BY <1>1, <1>2 DEF Proven
<1>5. PICK m \in 1..Len(messages) : /\ messages[m].kind = "inventory_snapshot" /\ KeyOf(m) = k
                                    /\ messages[m].time \in a..a
  BY <1>4 DEF InventoryAt
<1>6. messages[m].time \in (Time(e) - Epoch)..Time(e)
  BY <1>1, <1>2, <1>3, <1>5
<1> QED BY <1>5, <1>6 DEF InventoryAt

(* A neutral record joins its burst, which stays proven: its registration   *)
(* is part of the window.                                                   *)
LEMMA JoinedProvenIs ==
  ASSUME Shapes, Proven, NEW e \in NeutralEvents, Registered(e.message) > 0
  PROVE  JoinedProven(e)
<1> DEFINE k == Key(e)
           b == From(e)
           d == messages[e.message].destination
           c == messages[e.message].count
           j == Joined(e)
           m == e.message
<1>1. /\ b \in Cohorts /\ Time(e) \in Nat /\ k \in Keys /\ BurstProven(b, k)
      /\ b.anchored = Anchored(e) /\ b.last <= Time(e) /\ b.first <= Time(e)
      /\ Time(e) - b.first <= BurstLength
  BY FromIs
<1>2. /\ b.first \in Nat /\ b.last \in Nat /\ b.anchored \in BOOLEAN
      /\ b.destinations \subseteq Destinations /\ b.recordCount \in Nat
  BY <1>1, CohortFields
<1>3. History /\ m \in 1..Len(messages) /\ Neutral(m) /\ k = KeyOf(m)
  BY DEF Shapes, DecoderShape, NeutralEvents, Known, Key, KeyOf
<1>4. c \in Nat /\ Time(e) = messages[m].time
  BY <1>3, MessageIs DEF Time
<1>5. j = [b EXCEPT !.last = Time(e), !.destinations = (@ \cup {d}) \ {None},
                    !.recordCount = IF c > @ THEN c ELSE @]
  BY DEF Joined, From
<1>6. /\ j.first = b.first /\ j.last = Time(e) /\ j.anchored = b.anchored
      /\ j.events = b.events /\ j.confirmed = b.confirmed
      /\ j.destinations = (b.destinations \cup {d}) \ {None}
      /\ j.recordCount = IF c > b.recordCount THEN c ELSE b.recordCount
  <2> HIDE DEF b, d, c, j
  <2>1. b \in [first : Nat, last : Nat, anchored : BOOLEAN,
               events : Seq([message : Nat, record : Nat, type : {"storage_record"}]),
               destinations : SUBSET Destinations, recordCount : Nat, confirmed : BOOLEAN]
    BY <1>1 DEF Cohorts
  <2> QED BY <1>5, <2>1
<1> HIDE DEF b, j, c, d, k
<1> DEFINE W == Window(k, b.first, b.last)
           V == Window(k, j.first, j.last)
<1>7. \A n \in W : n \in V
  <2> TAKE n \in W
  <2>1. /\ n \in 1..Len(messages) /\ Neutral(n) /\ Registered(n) > 0 /\ KeyOf(n) = k
        /\ messages[n].time \in b.first..b.last
    BY WindowIs
  <2>2. messages[n].time \in Nat
    BY <2>1, <1>2
  <2>3. messages[n].time \in j.first..j.last
    BY <1>1, <1>2, <1>6, <2>1, <2>2
  <2> QED BY <2>1, <2>3, WindowIs
<1>8. m \in V
  <2>1. messages[m].time \in j.first..j.last
    BY <1>1, <1>2, <1>4, <1>6
  <2> QED BY <1>3, <2>1, WindowIs
<1>9. /\ j.first <= j.last /\ j.last - j.first <= BurstLength /\ Time(e) \in j.first..j.last
  BY <1>1, <1>2, <1>6
<1>10. \A x \in ToSet(j.events) : Time(x) \in j.first..j.last
  <2>1. \A x \in ToSet(b.events) : Time(x) \in b.first..b.last
    BY <1>1 DEF BurstProven
  <2> QED BY <1>1, <1>2, <1>6, <2>1
<1>11. j.anchored => \A x \in ToSet(j.events) : InventoryAt(k, Time(x) - Epoch, Time(x))
  BY <1>1, <1>6 DEF BurstProven
<1>12. j.anchored => InventoryAt(k, Time(e) - Epoch, Time(e))
  BY <1>1, <1>6, AnchorsRecord DEF k
<1>13. j.destinations \subseteq DestinationsOf(V)
  <2>1. \A x \in b.destinations : x \in DestinationsOf(W)
    BY <1>1 DEF BurstProven
  <2>2. \A x \in DestinationsOf(W) : x \in DestinationsOf(V)
    BY <1>7, DestinationIs
  <2>3. d # None => d \in DestinationsOf(V)
    BY <1>8, DestinationIs DEF d
  <2> QED BY <1>6, <2>1, <2>2, <2>3
<1>14. j.recordCount > 0 => \E n \in V : messages[n].count >= j.recordCount
  <2>1. CASE c > b.recordCount
    BY <1>4, <1>6, <1>8, <2>1 DEF c
  <2>2. CASE ~(c > b.recordCount)
    <3>1. b.recordCount > 0 => \E n \in W : messages[n].count >= b.recordCount
      BY <1>1 DEF BurstProven
    <3> QED BY <1>6, <1>7, <2>2, <3>1
  <2> QED BY <2>1, <2>2
<1>15. j.confirmed => Enough(j)
  <2> SUFFICES ASSUME j.confirmed PROVE Enough(j)
    OBVIOUS
  <2>1. Enough(b)
    BY <1>1, <1>6 DEF BurstProven
  <2>2. b.destinations \subseteq j.destinations
    <3>1. \A x \in b.destinations : x # None
      <4>1. \A x \in b.destinations : x \in DestinationsOf(W)
        BY <1>1 DEF BurstProven
      <4> QED BY <4>1, DestinationIs
    <3> QED BY <1>6, <3>1
  <2>3. IsFiniteSet(j.destinations)
    <3>1. V \in SUBSET (1..Len(messages))
      BY DEF Window
    <3>2. IsFiniteSet(DestinationsOf(V))
      BY <1>3, <3>1, DestinationsFinite
    <3> QED BY <1>13, <3>2, FS_Subset
  <2>4. MinAnchored \in Nat /\ MinUnanchored \in Nat /\ MinRecordCount \in Nat
    BY CollectorConstants
  <2>5. \A n \in Nat : Cardinality(b.destinations) >= n => Cardinality(j.destinations) >= n
    BY <2>2, <2>3, LargerSpan
  <2>6. j.recordCount >= b.recordCount /\ j.recordCount \in Nat
    BY <1>2, <1>4, <1>6
  <2>7. b.anchored \/ j.recordCount >= MinRecordCount
    BY <1>2, <2>1, <2>4, <2>6 DEF Enough
  <2>8. Cardinality(j.destinations) >= IF b.anchored THEN MinAnchored ELSE MinUnanchored
    BY <2>1, <2>4, <2>5 DEF Enough
  <2> QED BY <1>6, <2>7, <2>8 DEF Enough
<1>16. BurstProven(j, k)
  BY <1>9, <1>10, <1>11, <1>13, <1>14, <1>15 DEF BurstProven
<1> QED BY <1>9, <1>12, <1>16 DEF JoinedProven, j, k

(* Confirming a burst, or waiting in it, changes what it holds back and     *)
(* nothing it counts.                                                       *)
LEMMA BurstsNext ==
  ASSUME Shapes, NEW e \in NeutralEvents
  PROVE  LET j == Joined(e) IN
         \A b \in {Confirming(e), Waiting(e)} :
            /\ b.first = j.first /\ b.last = j.last /\ b.anchored = j.anchored
            /\ b.destinations = j.destinations /\ b.recordCount = j.recordCount
            /\ b = Confirming(e) => b.confirmed /\ b.events = <<>>
            /\ b = Waiting(e) => b.confirmed = j.confirmed /\ b.events = Append(j.events, e)
<1> DEFINE j == Joined(e)
           E == Seq([message : Nat, record : Nat, type : {"storage_record"}])
           events == Append(j.events, e)
<1>1. j \in Cohorts
  BY JoinedIs
<1>2. j \in [first : Nat, last : Nat, anchored : BOOLEAN, events : E,
             destinations : SUBSET Destinations, recordCount : Nat, confirmed : BOOLEAN]
  BY <1>1 DEF Cohorts
<1>3. /\ Confirming(e) = [j EXCEPT !.confirmed = TRUE, !.events = <<>>]
      /\ Waiting(e) = [j EXCEPT !.events = events]
  BY DEF Confirming, Waiting
<1> HIDE DEF j, E, events
<1>5. LET b == Confirming(e) IN
      /\ b.first = j.first /\ b.last = j.last /\ b.anchored = j.anchored
      /\ b.destinations = j.destinations /\ b.recordCount = j.recordCount
      /\ b.confirmed /\ b.events = <<>>
  BY <1>2, <1>3
<1>6. LET b == Waiting(e) IN
      /\ b.first = j.first /\ b.last = j.last /\ b.anchored = j.anchored
      /\ b.destinations = j.destinations /\ b.recordCount = j.recordCount
      /\ b.confirmed = j.confirmed /\ b.events = events
  BY <1>2, <1>3
<1> QED BY <1>5, <1>6 DEF j, events

(* What leaves a proven cohort as a snapshot is proven.                    *)
LEMMA SnapshotOfProven ==
  ASSUME Shapes, NEW b \in Cohorts, NEW k, BurstProven(b, k), Enough(b),
         NEW e \in NeutralEvents, Key(e) = k, Time(e) \in b.first..b.last,
         b.anchored => InventoryAt(k, Time(e) - Epoch, Time(e))
  PROVE  SnapshotProven(SnapshotOf(e))
<1> DEFINE x == SnapshotOf(e)
<1>1. x.message = e.message
  BY DEF SnapshotOf, NeutralEvents, Known
<1>2. History /\ Time(e) \in Nat
  BY KeyIn DEF Shapes, DecoderShape, NeutralEvents
<1>3. Key(x) = k /\ Time(x) = Time(e)
  BY <1>1 DEF Key, Time
<1> HIDE DEF x
<1>4. SnapshotProven(x)
  BY <1>2, <1>3, WindowProves
<1> QED BY <1>4 DEF x

Staged(e, b, out) ==
  /\ bursts' = [bursts EXCEPT ![Key(e)] = b] /\ UNCHANGED anchor
  /\ b # None => b \in Cohorts /\ BurstProven(b, Key(e))
  /\ hydrationOutbox' = hydrationOutbox \o (Flushed(e) \o out)
  /\ out \in Seq(Known(HydrationTypes))
  /\ \A x \in ToSet(out) : x.type = "storage_snapshot" => SnapshotProven(x)

(* A neutral record leaves a proven burst behind, and queues proven         *)
(* snapshots only.                                                          *)
LEMMA StagedProven ==
  ASSUME Shapes, Proven, NEW e \in NeutralEvents, Registered(e.message) > 0, StageNeutral(e)
  PROVE  \E b, out : Staged(e, b, out)
<1> DEFINE j == Joined(e)
           k == Key(e)
           events == Append(j.events, e)
           N == NeutralEvents
           H == Known(HydrationTypes)
<1>1. /\ j \in Cohorts /\ j.events \in Seq(N) /\ \A x \in ToSet(j.events) : Key(x) = k
  BY JoinedIs
<1>2. /\ BurstProven(j, k) /\ Time(e) \in j.first..j.last
      /\ j.anchored => InventoryAt(k, Time(e) - Epoch, Time(e))
  BY JoinedProvenIs DEF JoinedProven
<1>3. /\ UNCHANGED anchor
      /\ \/ j.confirmed /\ Becomes(e, j, AsSnapshots(<<e>>))
         \/ ~j.confirmed /\ Enough(j) /\ Becomes(e, Confirming(e), AsSnapshots(events))
         \/ ~j.confirmed /\ Becomes(e, None, events)
         \/ ~j.confirmed /\ Becomes(e, Waiting(e), <<>>)
  BY StageNeutralIs
<1>4. N \subseteq H /\ \A x \in N : x.type = "storage_record"
  BY NeutralIsHydration DEF NeutralEvents, Known
<1>5. Known({"storage_snapshot"}) \subseteq H
  BY DEF Known, HydrationTypes
<1>6. e \in N /\ <<e>> \in Seq(N) /\ ToSet(<<e>>) = {e}
  BY DEF ToSet
<1>7. events \in Seq(N) /\ ToSet(events) = ToSet(j.events) \cup {e}
  <2> DEFINE before == j.events
  <2>1. before \in Seq(N)
    BY <1>1
  <2> HIDE DEF before, N
  <2> QED BY <1>6, <2>1, AppendIs DEF before
<1>8. \A x \in ToSet(events) :
        /\ x \in N /\ Key(x) = k /\ Time(x) \in j.first..j.last
        /\ j.anchored => InventoryAt(k, Time(x) - Epoch, Time(x))
  <2>1. \A x \in ToSet(events) : x \in N
    <3> HIDE DEF N, events
    <3> QED BY <1>7, InSeq
  <2>2. \A x \in ToSet(j.events) : Time(x) \in j.first..j.last
    BY <1>2 DEF BurstProven
  <2>3. j.anchored => \A x \in ToSet(j.events) : InventoryAt(k, Time(x) - Epoch, Time(x))
    BY <1>2 DEF BurstProven
  <2> HIDE DEF j, events, N
  <2> QED BY <1>1, <1>2, <1>7, <2>1, <2>2, <2>3 DEF k
<1>9. ASSUME Enough(j) PROVE \A x \in ToSet(events) : SnapshotProven(SnapshotOf(x))
  <2> HIDE DEF j, events, k
  <2> QED BY <1>1, <1>2, <1>8, <1>9, SnapshotOfProven
<1>10. \A s \in Seq(N) : /\ AsSnapshots(s) \in Seq(H)
                         /\ ToSet(AsSnapshots(s)) = {SnapshotOf(x) : x \in ToSet(s)}
  <2> TAKE s \in Seq(N)
  <2> DEFINE out == AsSnapshots(s)
             K == Known({"storage_snapshot"})
  <2>1. out \in Seq(K) /\ ToSet(out) = {SnapshotOf(x) : x \in ToSet(s)}
    BY SnapshotsAre DEF Shapes, DecoderShape
  <2> HIDE DEF out, K, H
  <2>2. out \in Seq(H)
    BY <1>5, <2>1, SeqWidens DEF K
  <2> QED BY <2>1, <2>2 DEF out
<1> HIDE DEF N, H
<1>11. CASE j.confirmed /\ Becomes(e, j, AsSnapshots(<<e>>))
  <2> DEFINE one == <<e>>
             out == AsSnapshots(one)
  <2>1. one \in Seq(N) /\ ToSet(one) = {e}
    BY <1>6
  <2> HIDE DEF one
  <2>2. out \in Seq(H) /\ ToSet(out) = {SnapshotOf(e)}
    BY <1>10, <2>1
  <2>3. Enough(j)
    BY <1>2, <1>11 DEF BurstProven
  <2>4. SnapshotProven(SnapshotOf(e))
    BY <1>7, <1>9, <2>3
  <2>5. Becomes(e, j, out)
    BY <1>11 DEF one
  <2> HIDE DEF out, j
  <2>6. Staged(e, j, out)
    BY <1>1, <1>2, <1>3, <2>2, <2>4, <2>5 DEF Staged, Becomes, H
  <2> QED BY <2>6
<1>12. CASE ~j.confirmed /\ Enough(j) /\ Becomes(e, Confirming(e), AsSnapshots(events))
  <2> DEFINE out == AsSnapshots(events)
             b == Confirming(e)
  <2>1. /\ b.first = j.first /\ b.last = j.last /\ b.anchored = j.anchored
        /\ b.destinations = j.destinations /\ b.recordCount = j.recordCount
        /\ b.confirmed /\ b.events = <<>>
    BY BurstsNext
  <2>2. b \in Cohorts
    BY NewBursts
  <2>3. out \in Seq(H) /\ ToSet(out) = {SnapshotOf(x) : x \in ToSet(events)}
    <3> HIDE DEF events
    <3> QED BY <1>7, <1>10
  <2>4. Becomes(e, b, out)
    BY <1>12
  <2> HIDE DEF out, b, events, j, k
  <2>5. \A x \in ToSet(out) : SnapshotProven(x)
    BY <1>9, <1>12, <2>3
  <2>6. ToSet(b.events) = {} /\ Enough(b)
    BY <1>12, <2>1 DEF ToSet, Enough
  <2>7. BurstProven(b, k)
    BY <1>2, <2>1, <2>6 DEF BurstProven
  <2>8. Staged(e, b, out)
    BY <1>3, <2>2, <2>3, <2>4, <2>5, <2>7 DEF Staged, Becomes, H, k
  <2> QED BY <2>8
<1>13. CASE Becomes(e, None, events)
  <2> HIDE DEF events
  <2>1. events \in Seq(H)
    BY <1>4, <1>7, SeqWidens
  <2>2. \A x \in ToSet(events) : x.type = "storage_record"
    BY <1>4, <1>8
  <2>3. Staged(e, None, events)
    BY <1>3, <1>13, <2>1, <2>2 DEF Staged, Becomes, H
  <2> QED BY <2>3
<1>14. CASE ~j.confirmed /\ Becomes(e, Waiting(e), <<>>)
  <2> DEFINE b == Waiting(e)
  <2>1. /\ b.first = j.first /\ b.last = j.last /\ b.anchored = j.anchored
        /\ b.destinations = j.destinations /\ b.recordCount = j.recordCount
        /\ b.confirmed = j.confirmed /\ b.events = events
    BY BurstsNext
  <2>2. b \in Cohorts
    BY NewBursts
  <2>3. Becomes(e, b, <<>>)
    BY <1>14
  <2> HIDE DEF b, events, j, k
  <2>4. BurstProven(b, k)
    BY <1>2, <1>8, <1>14, <2>1 DEF BurstProven
  <2>5. <<>> \in Seq(H) /\ ToSet(<<>>) = {}
    BY DEF ToSet
  <2>6. Staged(e, b, <<>>)
    BY <1>3, <2>2, <2>3, <2>4, <2>5 DEF Staged, Becomes, H, k
  <2> QED BY <2>6
<1> QED BY <1>3, <1>11, <1>12, <1>13, <1>14

Leavers == Leaving \cup HandsOf(hydrationHand, Threads)

(* What leaves the hydration tracker is known.                              *)
LEMMA LeaversKnown ==
  ASSUME Shapes
  PROVE  \A e \in Leavers : e \in Known(HydrationTypes)
<1> DEFINE H == Known(HydrationTypes)
<1>1. /\ hydrationOutbox \in Seq(H) /\ hydrationHand \in [Threads -> Seq(H)]
      /\ delivered \subseteq H
  BY DEF Shapes, HydrationShape
<1> HIDE DEF H
<1>2. \A e \in ToSet(hydrationOutbox) : e \in H
  BY <1>1, InSeq
<1>3. \A t \in Threads : \A e \in ToSet(hydrationHand[t]) : e \in H
  BY <1>1, InSeq
<1> QED BY <1>1, <1>2, <1>3 DEF Leavers, Leaving, HandsOf, H

(* A step that proves what is new in the hydration tracker.                *)
LEMMA ProvenThen ==
  ASSUME Shapes, Shapes', Proven, MoreHistory,
         \A k \in Keys : \A b : b = bursts'[k] /\ b # None =>
            b = bursts[k] \/ BurstProven(b, k)',
         \A k \in Keys : \A a : a = anchor'[k] /\ a # None =>
            a = anchor[k] \/ InventoryAt(k, a, a)',
         \A e \in Leavers' : e.type = "storage_snapshot" => e \in Leavers \/ SnapshotProven(e)'
  PROVE  Proven'
<1>1. History /\ History'
  BY DEF Shapes, DecoderShape
<1>2. \A k \in Keys : \A b : b = bursts'[k] /\ b # None => BurstProven(b, k)'
  <2> SUFFICES ASSUME NEW k \in Keys, NEW b, b = bursts'[k], b # None
               PROVE  BurstProven(b, k)'
    OBVIOUS
  <2>1. CASE b = bursts[k]
    <3>1. b \in Cohorts /\ BurstShape(b, k)
      BY <2>1 DEF Shapes, BurstsShape, BurstShape
    <3>2. BurstProven(b, k)
      BY <2>1 DEF Proven
    <3> QED BY <1>1, <3>1, <3>2, BurstStays
  <2> QED BY <2>1
<1>3. \A k \in Keys : \A a : a = anchor'[k] /\ a # None => InventoryAt(k, a, a)'
  <2> SUFFICES ASSUME NEW k \in Keys, NEW a, a = anchor'[k], a # None
               PROVE  InventoryAt(k, a, a)'
    OBVIOUS
  <2>1. CASE a = anchor[k]
    <3>1. InventoryAt(k, a, a)
      BY <2>1 DEF Proven
    <3> QED BY <1>1, <3>1, WindowGrows
  <2> QED BY <2>1
<1>4. \A e \in Leavers' : e.type = "storage_snapshot" => SnapshotProven(e)'
  <2> SUFFICES ASSUME NEW e \in Leavers', e.type = "storage_snapshot", e \in Leavers
               PROVE  SnapshotProven(e)'
    OBVIOUS
  <2>1. SnapshotProven(e)
    BY DEF Proven, Leavers
  <2>2. e \in Known(HydrationTypes)
    BY LeaversKnown
  <2> QED BY <1>1, <2>1, <2>2, TypesAre, SnapshotStays
<1>5. (\A k \in Keys : bursts[k] # None => BurstProven(bursts[k], k))'
  BY <1>2
<1>6. (\A k \in Keys : anchor[k] # None => InventoryAt(k, anchor[k], anchor[k]))'
  BY <1>3
<1>7. (\A e \in Leaving \cup HandsOf(hydrationHand, Threads) :
         e.type = "storage_snapshot" => SnapshotProven(e))'
  BY <1>4 DEF Leavers
<1> QED BY <1>5, <1>6, <1>7 DEF Proven

(* Steps that leave the bursts alone and let nothing new leave.             *)
LEMMA NoBurstProven ==
  ASSUME Shapes, Shapes', Proven, MoreHistory, UNCHANGED <<bursts, anchor>>,
         \A e \in Leavers' : e \in Leavers
  PROVE  Proven'
  BY ProvenThen

(* What is queued leaves the tracker.                                      *)
LEMMA LeaversNext ==
  ASSUME Shapes, NEW out \in Seq(Known(HydrationTypes)),
         hydrationOutbox' = hydrationOutbox \o out, UNCHANGED <<hydrationHand, delivered>>
  PROVE  \A e \in Leavers' : e \in Leavers \/ e \in ToSet(out)
<1> DEFINE H == Known(HydrationTypes)
<1>1. hydrationOutbox \in Seq(H) /\ out \in Seq(H)
  BY DEF Shapes, HydrationShape
<1> HIDE DEF H
<1>2. ToSet(hydrationOutbox') = ToSet(hydrationOutbox) \cup ToSet(out)
  BY <1>1, AppendedElements
<1>3. ToSet(hydrationOutbox)' = ToSet(hydrationOutbox') /\ HandsOf(hydrationHand, Threads)' = HandsOf(hydrationHand, Threads)
  OBVIOUS
<1> QED BY <1>2, <1>3 DEF Leavers, Leaving

(* Cohorts end, and what they held is queued with an event that is no      *)
(* snapshot.                                                               *)
LEMMA PassesProven ==
  ASSUME Shapes, Shapes', Proven, MoreHistory, NEW keys \in SUBSET Keys,
         bursts' = Without(keys),
         \A k \in Keys : \A a : a = anchor'[k] /\ a # None =>
            a = anchor[k] \/ InventoryAt(k, a, a)',
         NEW out \in Seq(Known(HydrationTypes)), \A e \in ToSet(out) : e.type # "storage_snapshot",
         hydrationOutbox' = hydrationOutbox \o out, UNCHANGED <<hydrationHand, delivered>>
  PROVE  Proven'
<1>1. \A e \in Leavers' : e.type = "storage_snapshot" => e \in Leavers
  BY LeaversNext
<1>2. \A k \in Keys : \A b : b = bursts'[k] /\ b # None => b = bursts[k]
  BY DEF Without
<1> QED BY <1>1, <1>2, ProvenThen

(* What the end of some bursts releases is no snapshot,                     *)
LEMMA FlushedTypes ==
  ASSUME Shapes, NEW keys \in SUBSET Keys
  PROVE  /\ Unconfirmed(keys) \in Seq(Known(HydrationTypes))
         /\ \A x \in ToSet(Unconfirmed(keys)) : x.type # "storage_snapshot"
<1> DEFINE u == Unconfirmed(keys)
           N == NeutralEvents
           H == Known(HydrationTypes)
<1>1. u \in Seq(N)
  BY FlushIs
<1>2. N \subseteq H /\ \A x \in N : x.type = "storage_record"
  BY NeutralIsHydration DEF NeutralEvents, Known
<1> HIDE DEF u, N, H
<1>3. u \in Seq(H) /\ \A x \in ToSet(u) : x \in N
  BY <1>1, <1>2, InSeq, SeqWidens
<1> QED BY <1>2, <1>3 DEF u, H

(* ... with a neutral record after it as well.                              *)
LEMMA AppendedTypes ==
  ASSUME Shapes, NEW keys \in SUBSET Keys, NEW e \in Known(HydrationTypes),
         e.type # "storage_snapshot"
  PROVE  /\ Append(Unconfirmed(keys), e) \in Seq(Known(HydrationTypes))
         /\ \A x \in ToSet(Append(Unconfirmed(keys), e)) : x.type # "storage_snapshot"
<1> DEFINE u == Unconfirmed(keys)
           H == Known(HydrationTypes)
<1>1. u \in Seq(H) /\ e \in H /\ \A x \in ToSet(u) : x.type # "storage_snapshot"
  BY FlushedTypes
<1> HIDE DEF u, H
<1>2. Append(u, e) \in Seq(H) /\ ToSet(Append(u, e)) = ToSet(u) \cup {e}
  BY <1>1, AppendIs
<1> QED BY <1>1, <1>2 DEF u, H

(* A record handed over: an inventory snapshot anchors its key.             *)
LEMMA RegisterProven ==
  ASSUME IInv, Shapes, Shapes', Proven, NEW t \in Threads, Register(t)
  PROVE  Proven'
<1> DEFINE m == Len(messages)
<1>1. /\ Registering(m) /\ UNCHANGED <<hydrationHand, delivered>>
      /\ Boundary(m) \/ Completed(m) \/ Incomplete(m)
  BY RegisterStep
<1> HIDE DEF m
<1>2. MoreHistory /\ m \in 1..Len(messages) /\ History /\ Registered(m) \in Nat
      /\ Registered(m) < messages[m].count
  BY <1>1 DEF Registering, Shapes, DecoderShape
<1>3. CASE Completed(m) \/ Incomplete(m)
  <2>1. UNCHANGED <<bursts, anchor, hydrationOutbox>>
    BY <1>3 DEF Completed, Incomplete
  <2>2. Leavers' = Leavers
    BY <1>1, <2>1 DEF Leavers, Leaving, HandsOf
  <2> QED BY <1>2, <2>1, <2>2, NoBurstProven
<1>4. CASE Boundary(m)
  <2> DEFINE e == Event(m, Registered(m) + 1, "inventory_snapshot")
             k == Key(e)
             opens == inventoryLast[k] = None \/ Time(e) - inventoryLast[k] > InventoryGap
             keys == IF opens THEN {k} ELSE {}
  <2>1. /\ bursts' = Without(keys)
        /\ hydrationOutbox' = hydrationOutbox \o Append(Unconfirmed(keys), e)
        /\ anchor' = IF opens THEN [anchor EXCEPT ![k] = Time(e)] ELSE anchor
        /\ messages[m].kind = "inventory_snapshot"
    BY <1>4 DEF Boundary, ObserveInventory, HydrationQueue
  <2>2. k = KeyOf(m) /\ Time(e) = messages[m].time /\ e.type = "inventory_snapshot"
    BY DEF Key, KeyOf, Event, Time
  <2>3. k \in Keys /\ Registered(m) + 1 \in 0..MaxRecords /\ Time(e) \in Nat
    <3>1. messages[m].count \in 1..MaxRecords /\ MaxRecords \in Nat
          /\ messages[m].time \in 0..MaxTime
      BY <1>2, MessageIs
    <3>2. messages[m].flow \in Flows /\ messages[m].generation \in 0..MaxCloses
      BY <1>2, MessageIs
    <3>3. KeyOf(m) \in Keys
      BY <3>2 DEF Keys, KeyOf
    <3>4. MaxTime \in Nat
      BY CollectorConstants
    <3> HIDE DEF e
    <3> QED BY <1>2, <2>2, <3>1, <3>3, <3>4
  <2>4. e \in Known(HydrationTypes)
    BY <1>2, <2>3 DEF Known, Event, HydrationTypes
  <2>5. keys \in SUBSET Keys
    BY <2>3
  <2> HIDE DEF keys, opens, e
  <2>6. ASSUME NEW l, NEW a, l = k, a = Time(e) PROVE InventoryAt(l, a, a)'
    <3>1. /\ m \in 1..Len(messages') /\ messages'[m].kind = messages[m].kind
          /\ messages'[m].time = messages[m].time /\ messages'[m].flow = messages[m].flow
          /\ messages'[m].generation = messages[m].generation
      BY <1>2 DEF MoreHistory
    <3>2. <<messages'[m].flow, messages'[m].generation>> = l
      BY <2>2, <2>6, <3>1 DEF KeyOf
    <3>3. messages'[m].time \in a..a
      BY <2>2, <2>3, <2>6, <3>1
    <3>4. messages'[m].kind = "inventory_snapshot"
      BY <2>1, <3>1
    <3> QED BY <3>1, <3>2, <3>3, <3>4 DEF InventoryAt, KeyOf
  <2>8. \A l \in Keys : \A a : a = anchor'[l] /\ a # None =>
            a = anchor[l] \/ InventoryAt(l, a, a)'
    <3> SUFFICES ASSUME NEW l \in Keys, NEW a, a = anchor'[l], a # anchor[l]
                 PROVE  InventoryAt(l, a, a)'
      OBVIOUS
    <3>1. anchor \in [Keys -> (0..MaxTime) \cup {None}]
      BY DEF Shapes, AnchorShape
    <3>2. l = k /\ a = Time(e)
      BY <2>1, <3>1
    <3> HIDE DEF k
    <3> QED BY <2>6, <3>2
  <2>9. /\ Append(Unconfirmed(keys), e) \in Seq(Known(HydrationTypes))
        /\ \A x \in ToSet(Append(Unconfirmed(keys), e)) : x.type # "storage_snapshot"
    BY <2>2, <2>4, <2>5, AppendedTypes
  <2> HIDE DEF k
  <2> QED BY <1>1, <1>2, <2>1, <2>5, <2>8, <2>9, PassesProven
<1> QED BY <1>1, <1>3, <1>4

(* _after_origin: what reaches the hydration tracker leaves it proven.      *)
LEMMA AfterOriginProven ==
  ASSUME IInv, Shapes, Shapes', Traced, Proven, NEW t \in Threads, AfterOriginCall(t)
  PROVE  Proven'
<1> DEFINE e == Head(originHand[t])
<1>1. /\ e \in Known(StorageTypes) /\ e.type # "observation"
      /\ e.type = "storage_record" => e \in NeutralEvents
      /\ originHand[t] = <<e>>
  BY InHand, TypesAre DEF AfterOriginCall, IInv
<1>2. /\ UNCHANGED <<messages, hydrationHand, delivered>>
      /\ pc[t] = "originCall" /\ ObserveStorage(e)
  BY DEF AfterOriginCall, decoder
<1> HIDE DEF e
<1>3. MoreHistory /\ History
  BY <1>2, SameHistory DEF Shapes, DecoderShape
<1>4. CASE e.type = "storage_record"
  <2>1. StageNeutral(e) /\ e \in NeutralEvents
    BY <1>1, <1>2, <1>4 DEF ObserveStorage
  <2>2. Registered(e.message) > 0
    <3> DEFINE r == <<e.message, e.record>>
    <3>1. t \in Calling /\ e \in ToSet(originHand[t])
      BY <1>1, <1>2 DEF Calling, ToSet
    <3>2. e \in HandsOf(originHand, Calling)
      BY <3>1 DEF HandsOf
    <3>3. r \in InOriginHand
      BY <1>1, <3>2 DEF InOriginHand, RecordsIn
    <3>4. Spot[4] = InOriginHand /\ Spot[4] \subseteq Accepted
      BY PlacesApart, SpotIs DEF SpotFact
    <3>5. r \in Accepted
      BY <3>3, <3>4
    <3>6. PICK n \in 1..Len(messages) : \E i \in 1..Registered(n) : r = <<n, i>>
      BY <3>5, AcceptedIs
    <3>7. n = e.message /\ Registered(n) \in Nat
      BY <1>3, <3>6, MessageIs DEF Registered
    <3> QED BY <3>6, <3>7
  <2>3. PICK b, out : Staged(e, b, out)
    BY <2>1, <2>2, StagedProven
  <2> DEFINE k == Key(e)
             H == Known(HydrationTypes)
             f == Flushed(e)
  <2>4. /\ bursts' = [bursts EXCEPT ![k] = b] /\ UNCHANGED anchor
        /\ b # None => b \in Cohorts /\ BurstProven(b, k)
        /\ hydrationOutbox' = hydrationOutbox \o (f \o out) /\ out \in Seq(H)
        /\ \A x \in ToSet(out) : x.type = "storage_snapshot" => SnapshotProven(x)
    BY <2>3 DEF Staged
  <2>5. k \in Keys
    BY <2>1, KeyIn DEF Shapes, DecoderShape, NeutralEvents
  <2>6. f \in Seq(H) /\ \A x \in ToSet(f) : x.type # "storage_snapshot"
    <3>1. CASE Continues(bursts[k], e)
      <4>1. f = <<>> /\ ToSet(<<>>) = {} /\ <<>> \in Seq(H)
        BY <3>1 DEF Flushed, ToSet
      <4> HIDE DEF f
      <4> QED BY <4>1
    <3>2. CASE ~Continues(bursts[k], e)
      <4> DEFINE keys == {k}
      <4>1. f = Unconfirmed(keys) /\ keys \in SUBSET Keys
        BY <2>5, <3>2 DEF Flushed
      <4> HIDE DEF keys, f, k
      <4> QED BY <4>1, FlushedTypes
    <3> QED BY <3>1, <3>2
  <2> HIDE DEF H, f, k
  <2>7. f \o out \in Seq(H) /\ ToSet(f \o out) = ToSet(f) \cup ToSet(out)
    BY <2>4, <2>6, AppendedElements
  <2>8. \A x \in ToSet(out) : x \in H
    BY <2>4, InSeq
  <2>9. \A x \in Leavers' : x.type = "storage_snapshot" => x \in Leavers \/ SnapshotProven(x)'
    <3>1. \A x \in Leavers' : x \in Leavers \/ x \in ToSet(f \o out)
      BY <1>2, <2>4, <2>7, LeaversNext DEF H
    <3>2. \A x \in ToSet(out) : x.type = "storage_snapshot" => SnapshotProven(x)'
      <4> SUFFICES ASSUME NEW x \in ToSet(out), x.type = "storage_snapshot"
                   PROVE  SnapshotProven(x)'
        OBVIOUS
      <4>1. SnapshotProven(x) /\ x \in Known(HydrationTypes)
        BY <2>4, <2>8 DEF H
      <4> QED BY <1>3, <4>1, TypesAre, SnapshotStays DEF Shapes, DecoderShape
    <3> QED BY <2>6, <2>7, <3>1, <3>2
  <2>10. \A l \in Keys : \A c : c = bursts'[l] /\ c # None => c = bursts[l] \/ BurstProven(c, l)'
    <3> SUFFICES ASSUME NEW l \in Keys, NEW c, c = bursts'[l], c # None, c # bursts[l]
                 PROVE  BurstProven(c, l)'
      OBVIOUS
    <3>1. bursts = [n \in Keys |-> bursts[n]]
      BY DEF Shapes, BurstsShape
    <3>2. l = k /\ c = b
      BY <2>4, <2>5, <3>1
    <3>3. BurstProven(c, l) /\ c \in Cohorts
      BY <2>4, <3>2
    <3>4. BurstShape(c, l)
      <4>1. BurstShape(c, l)'
        BY DEF Shapes, BurstsShape
      <4>2. Known({"storage_record"})' = Known({"storage_record"}) /\ \A x : Key(x)' = Key(x)
        BY <1>2 DEF Known, Neutral, Key
      <4> QED BY <4>1, <4>2 DEF BurstShape
    <3> QED BY <1>3, <3>3, <3>4, BurstStays DEF Shapes, DecoderShape
  <2> QED BY <1>3, <2>4, <2>9, <2>10, ProvenThen
<1>5. CASE e.type # "storage_record"
  <2> DEFINE k == Key(e)
             keys == IF bursts[k] = None \/ Time(e) >= bursts[k].first THEN {k} ELSE {}
             retired == anchor[k] = None \/ Time(e) >= anchor[k]
  <2>1. /\ bursts' = Without(keys)
        /\ hydrationOutbox' = hydrationOutbox \o Append(Unconfirmed(keys), e)
        /\ anchor' = IF retired THEN [anchor EXCEPT ![k] = None] ELSE anchor
    BY <1>2, <1>5 DEF ObserveStorage, PassLive, HydrationQueue
  <2>2. k \in Keys
    BY <1>1, KeyIn DEF Shapes, DecoderShape
  <2>3. keys \in SUBSET Keys
    BY <2>2
  <2>4. e \in Known(HydrationTypes) /\ e.type # "storage_snapshot"
    BY <1>1, TypesAre DEF Known, HydrationTypes, StorageTypes
  <2> HIDE DEF keys, k, retired
  <2>5. \A l \in Keys : \A a : a = anchor'[l] /\ a # None => a = anchor[l]
    <3>1. anchor \in [Keys -> (0..MaxTime) \cup {None}]
      BY DEF Shapes, AnchorShape
    <3> QED BY <2>1, <3>1
  <2>6. /\ Append(Unconfirmed(keys), e) \in Seq(Known(HydrationTypes))
        /\ \A x \in ToSet(Append(Unconfirmed(keys), e)) : x.type # "storage_snapshot"
    BY <2>3, <2>4, AppendedTypes
  <2> QED BY <1>2, <1>3, <2>1, <2>3, <2>5, <2>6, PassesProven
<1> QED BY <1>4, <1>5

(* The hydration half of closing releases no snapshot.                      *)
LEMMA HalfProven ==
  ASSUME Shapes, Shapes', Proven, NEW t \in Threads, HydrationHalf(t)
  PROVE  Proven'
<1>1. UNCHANGED <<messages, hydrationHand, delivered>>
  BY DEF HydrationHalf, decoder
<1>2. MoreHistory
  BY <1>1, SameHistory DEF Shapes
<1>3. \E keys \in SUBSET Keys :
        /\ bursts' = Without(keys) /\ hydrationOutbox' = hydrationOutbox \o Unconfirmed(keys)
        /\ \A l \in Keys : \A a : a = anchor'[l] /\ a # None => a = anchor[l]
  <2>1. ASSUME NEW keys \in SUBSET Keys, CloseKeys(keys)
        PROVE  /\ bursts' = Without(keys) /\ hydrationOutbox' = hydrationOutbox \o Unconfirmed(keys)
               /\ \A l \in Keys : \A a : a = anchor'[l] /\ a # None => a = anchor[l]
    BY <2>1 DEF CloseKeys, HydrationQueue
  <2>2. CASE call[t] = "close" /\ CloseKeys({k \in Keys : k[1] = arg[t]})
    <3> DEFINE keys == {k \in Keys : k[1] = arg[t]}
    <3>1. keys \in SUBSET Keys /\ CloseKeys(keys)
      BY <2>2
    <3> HIDE DEF keys
    <3> QED BY <2>1, <3>1
  <2>3. CASE call[t] = "finalize" /\ CloseKeys(Keys)
    <3>1. Keys \in SUBSET Keys
      OBVIOUS
    <3> QED BY <2>1, <2>3, <3>1
  <2>4. CASE FlushBursts(arg[t])
    <3> DEFINE stale == {k \in Keys : bursts[k] # None /\ arg[t] - bursts[k].last > BurstGap}
    <3>1. /\ bursts' = Without(stale) /\ hydrationOutbox' = hydrationOutbox \o Unconfirmed(stale)
          /\ \A l \in Keys : \A a : a = anchor'[l] /\ a # None => a = anchor[l]
      BY <2>4 DEF FlushBursts, HydrationQueue
    <3>2. stale \in SUBSET Keys
      OBVIOUS
    <3> HIDE DEF stale
    <3> QED BY <3>1, <3>2
  <2> QED BY <2>2, <2>3, <2>4 DEF HydrationHalf
<1>4. PICK keys \in SUBSET Keys :
        /\ bursts' = Without(keys) /\ hydrationOutbox' = hydrationOutbox \o Unconfirmed(keys)
        /\ \A l \in Keys : \A a : a = anchor'[l] /\ a # None => a = anchor[l]
  BY <1>3
<1>5. /\ Unconfirmed(keys) \in Seq(Known(HydrationTypes))
      /\ \A x \in ToSet(Unconfirmed(keys)) : x.type # "storage_snapshot"
  BY FlushedTypes
<1> QED BY <1>1, <1>2, <1>4, <1>5, PassesProven

(* The dispatcher moves what has left already.                              *)
LEMMA HydrationDrainProven ==
  ASSUME IInv, Shapes, Shapes', Proven, NEW t \in Threads, HydrationDrain(t) \/ Deliver(t)
  PROVE  Proven'
<1>1. UNCHANGED <<messages, bursts, anchor>>
  BY DEF HydrationDrain, Deliver, decoder, hydration
<1>2. MoreHistory
  BY <1>1, SameHistory DEF Shapes
<1> DEFINE H == Known(HydrationTypes)
<1>3. hydrationOutbox \in Seq(H) /\ hydrationHand \in [Threads -> Seq(H)]
  BY DEF Shapes, HydrationShape
<1> HIDE DEF H
<1>4. \A x \in HandsOf(hydrationHand, Threads)' : \E u \in Threads : x \in ToSet(hydrationHand'[u])
  BY DEF HandsOf
<1>5. \A u \in Threads : \A x \in ToSet(hydrationHand[u]) : x \in Leavers
  BY DEF Leavers, HandsOf
<1>6. \A x \in ToSet(hydrationOutbox) : x \in Leavers
  BY DEF Leavers, Leaving
<1>7. \A x \in delivered : x \in Leavers
  BY DEF Leavers, Leaving
<1>8. \A x \in Leavers' : \/ x \in delivered' \/ x \in ToSet(hydrationOutbox')
                         \/ \E u \in Threads : x \in ToSet(hydrationHand'[u])
  BY <1>4 DEF Leavers, Leaving
<1>9. CASE HydrationDrain(t) /\ (HydrationYield(t) \/ HydrationDone(t))
  <2>1. UNCHANGED <<hydrationOutbox, hydrationHand, delivered>>
    BY <1>9 DEF HydrationDrain, HydrationYield, HydrationDone
  <2>2. \A x \in Leavers' : x \in Leavers
    BY <1>5, <1>6, <1>7, <1>8, <2>1
  <2> QED BY <1>1, <1>2, <2>2, NoBurstProven
<1>10. CASE HydrationDrain(t) /\ HydrationTake(t)
  <2> DEFINE h == <<Head(hydrationOutbox)>>
             rest == Tail(hydrationOutbox)
  <2>1. /\ hydrationOutbox # <<>> /\ hydrationOutbox' = rest /\ UNCHANGED delivered
        /\ hydrationHand' = [hydrationHand EXCEPT ![t] = h]
    BY <1>10 DEF HydrationDrain, HydrationTake
  <2>2. ToSet(hydrationOutbox) = {Head(hydrationOutbox)} \cup ToSet(rest)
    BY <1>3, <2>1, HeadTail
  <2>3. ToSet(h) = {Head(hydrationOutbox)}
    BY DEF ToSet
  <2> HIDE DEF h, rest
  <2>4. \A u \in Threads : hydrationHand'[u] = IF u = t THEN h ELSE hydrationHand[u]
    BY <1>3, <2>1
  <2>5. \A x \in Leavers' : x \in Leavers
    BY <1>5, <1>6, <1>7, <1>8, <2>1, <2>2, <2>3, <2>4
  <2> QED BY <1>1, <1>2, <2>5, NoBurstProven
<1>11. CASE Deliver(t)
  <2> DEFINE e == <<>>
  <2>1. /\ UNCHANGED hydrationOutbox /\ hydrationHand' = [hydrationHand EXCEPT ![t] = e]
        /\ delivered' = delivered \cup ToSet(hydrationHand[t]) /\ ToSet(e) = {}
    BY <1>11 DEF Deliver, ToSet
  <2> HIDE DEF e
  <2>2. \A u \in Threads : hydrationHand'[u] = IF u = t THEN e ELSE hydrationHand[u]
    BY <1>3, <2>1
  <2>3. \A x \in Leavers' : x \in Leavers
    BY <1>5, <1>6, <1>7, <1>8, <2>1, <2>2
  <2> QED BY <1>1, <1>2, <2>3, NoBurstProven
<1> QED BY <1>9, <1>10, <1>11 DEF HydrationDrain

(* Initially there is no burst, and nothing has left.                       *)
LEMMA InitProven == Init => Proven
<1> SUFFICES ASSUME Init PROVE Proven
  OBVIOUS
<1>1. /\ \A k \in Keys : bursts[k] = None /\ anchor[k] = None
      /\ delivered = {} /\ hydrationOutbox = <<>> /\ hydrationHand = [t \in Threads |-> <<>>]
  BY DEF Init
<1>2. ToSet(<<>>) = {}
  BY DEF ToSet
<1>3. Leaving = {} /\ HandsOf(hydrationHand, Threads) = {}
  BY <1>1, <1>2 DEF Leaving, HandsOf
<1> QED BY <1>1, <1>3 DEF Proven

(* Every action keeps the proofs of bursts and snapshots.                   *)
LEMMA StepProven == IInv /\ Shapes /\ Traced /\ Proven /\ [Next]_vars => Proven'
<1> SUFFICES ASSUME IInv, Shapes, Traced, Proven, [Next]_vars PROVE Proven'
  OBVIOUS
<1>0. Shapes'
  BY StepShapes
<1>1. ASSUME MoreHistory, UNCHANGED <<bursts, anchor, hydrationOutbox, hydrationHand, delivered>>
      PROVE  Proven'
  <2>1. Leavers' = Leavers
    BY <1>1 DEF Leavers, Leaving, HandsOf
  <2> QED BY <1>0, <1>1, <2>1, NoBurstProven
<1>2. ASSUME UNCHANGED <<messages, bursts, anchor, hydrationOutbox, hydrationHand, delivered>>
      PROVE  Proven'
  BY <1>1, <1>2, SameHistory DEF Shapes
<1>3. CASE UNCHANGED vars \/ FlushSkipped \/ Tick \/ WorkerEnds \/ Stopped \/ FlushStale \/ Finalize
  <2>1. UNCHANGED <<messages, bursts, anchor, hydrationOutbox, hydrationHand, delivered>>
    BY <1>3 DEF FlushSkipped, Tick, WorkerEnds, Stopped, FlushStale, Finalize, vars, decoder,
                hydration
  <2> QED BY <1>2, <2>1
<1>4. ASSUME NEW t \in Threads, CloseFlow(t) \/ Observe(t) \/ OriginDrain(t) \/ Observer(t)
      PROVE  Proven'
  <2>1. UNCHANGED <<messages, bursts, anchor, hydrationOutbox, hydrationHand, delivered>>
    BY <1>4 DEF CloseFlow, Observe, OriginDrain, Observer, decoder, hydration
  <2> QED BY <1>2, <2>1
<1>5. ASSUME NEW t \in Threads, Decode(t) PROVE Proven'
  <2>1. UNCHANGED <<bursts, anchor, hydrationOutbox, hydrationHand, delivered>>
    BY <1>5 DEF Decode, hydration
  <2> QED BY <1>1, <1>5, <2>1, DecodeHistory
<1>6. ASSUME NEW t \in Threads, Step(t) PROVE Proven'
  BY <1>0, <1>4, <1>6, RegisterProven, AfterOriginProven, HalfProven, HydrationDrainProven DEF Step
<1> QED BY <1>3, <1>4, <1>5, <1>6 DEF Next

(* The proofs of what has left are the property.                            *)
LEMMA ProvenSnapshots ==
  ASSUME Shapes, Proven
  PROVE  SnapshotsProven
<1> SUFFICES ASSUME NEW e \in Leaving, e.type = "storage_snapshot"
             PROVE  \/ /\ Spans(Cohort(e), MinAnchored)
                       /\ \E m \in 1..Len(messages) :
                            /\ messages[m].kind = "inventory_snapshot"
                            /\ <<messages[m].flow, messages[m].generation>> = Key(e)
                            /\ Time(e) - messages[m].time \in 0..Epoch
                    \/ /\ Spans(Cohort(e), MinUnanchored)
                       /\ \E m \in Cohort(e) : messages[m].count >= MinRecordCount
  BY DEF SnapshotsProven
<1>1. SnapshotProven(e)
  BY DEF Proven
<1>2. e \in Known(HydrationTypes) /\ History
  BY LeaversKnown DEF Leavers, Shapes, DecoderShape
<1>3. Time(e) \in Nat /\ Epoch \in Nat
  BY <1>2, TimeIs, TypesAre, CollectorConstants
<1>4. ASSUME InventoryAt(Key(e), Time(e) - Epoch, Time(e))
      PROVE  \E m \in 1..Len(messages) :
               /\ messages[m].kind = "inventory_snapshot"
               /\ <<messages[m].flow, messages[m].generation>> = Key(e)
               /\ Time(e) - messages[m].time \in 0..Epoch
  <2>1. PICK m \in 1..Len(messages) :
          /\ messages[m].kind = "inventory_snapshot" /\ KeyOf(m) = Key(e)
          /\ messages[m].time \in (Time(e) - Epoch)..Time(e)
    BY <1>4 DEF InventoryAt
  <2>2. Time(e) - messages[m].time \in 0..Epoch
    BY <1>3, <2>1
  <2> QED BY <2>1, <2>2 DEF KeyOf
<1> QED BY <1>1, <1>4 DEF SnapshotProven

(* A thread inside finalize is the stopper, which goes on until it has     *)
(* finalized; from the moment it entered, no record can be handed over.    *)
Finalizing == finalized \/ call["stopper"] = "finalize"
Ordered ==
  /\ DOMAIN call = Threads
  /\ \A t \in Threads : call[t] = "finalize" => t = "stopper"
  /\ stopped => finalized
  /\ call["stopper"] = "finalize" => pc["stopper"] \notin {"ready", "dead"} /\ ~finalized
  /\ failures = 0 /\ Finalizing => pc["worker"] = "dead" /\ todo = 0 /\ toClose = {}
  /\ failures = 0 /\ finalized => pc["stopper"] = "ready"

(* Initially nobody finalizes.                                              *)
LEMMA InitOrdered == Init => Ordered
  BY DEF Init, Ordered, Finalizing, Threads

(* Nobody decodes any more once finalize was entered.                       *)
LEMMA NoneDecodes ==
  ASSUME Ordered, failures = 0, Finalizing, NEW t \in Threads
  PROVE  ~Decodes(t)
  BY DEF Ordered, Decodes

(* Entering any other operation keeps the order of the stop.                *)
LEMMA EnterOrdered ==
  ASSUME Ordered, Positions, NEW t \in Threads, pc[t] = "ready", NEW operation, NEW argument,
         Enter(t, operation, argument), operation # "finalize",
         UNCHANGED <<finalized, stopped, failures>>,
         failures = 0 /\ Finalizing => t = "consumer" /\ UNCHANGED <<todo, toClose>>
  PROVE  Ordered'
  BY DEF Ordered, Finalizing, Enter, Positions, Threads

(* So does the dispatcher of the origin tracker,                            *)
LEMMA OriginDrainOrdered ==
  ASSUME Ordered, Positions, NEW t \in Threads, OriginDrain(t)
  PROVE  Ordered'
<1> USE DEF Ordered, Finalizing, Positions, Threads, Labels
<1>0. UNCHANGED <<todo, toClose, finalized, stopped, failures>>
  BY DEF OriginDrain, stop, decoder
<1>1. CASE OriginYield(t)
  BY <1>0, <1>1 DEF OriginYield, AfterOrigin, Leave
<1>2. CASE OriginTake(t)
  BY <1>0, <1>2 DEF OriginTake, MayDispatchOrigin
<1>3. CASE OriginDone(t)
  BY <1>0, <1>3 DEF OriginDone, MayDispatchOrigin, AfterOrigin, Leave
<1> QED BY <1>1, <1>2, <1>3 DEF OriginDrain

(* ... an observer that returns, or raises,                                 *)
LEMMA ObserverOrdered ==
  ASSUME Ordered, Positions, NEW t \in Threads, Observer(t)
  PROVE  Ordered'
<1> USE DEF Ordered, Finalizing, Positions, Threads, Labels
<1>0. pc[t] = "originCall" /\ UNCHANGED stopped
  BY DEF Observer, stop
<1>1. CASE /\ pc' = [pc EXCEPT ![t] = "originTake"]
           /\ UNCHANGED <<todo, toClose, finalized, failures, call>>
  BY <1>0, <1>1
<1>2. CASE /\ failures' = failures + 1
           /\ Leave(t, IF t = "worker" THEN "dead" ELSE "ready")
           /\ finalized' = (finalized \/ call[t] = "finalize")
  <2>1. failures' # 0
    BY <1>2
  <2> QED BY <1>0, <1>2, <2>1 DEF Leave
<1> QED BY <1>1, <1>2 DEF Observer, stop

(* ... the dispatcher of the hydration tracker, which ends finalize,        *)
LEMMA HydrationDrainOrdered ==
  ASSUME Ordered, Positions, NEW t \in Threads, HydrationDrain(t)
  PROVE  Ordered'
<1> USE DEF Ordered, Finalizing, Positions, Threads, Labels
<1>0. UNCHANGED <<todo, toClose, stopped, failures>>
  BY DEF HydrationDrain, decoder
<1>1. CASE HydrationYield(t)
  BY <1>0, <1>1 DEF HydrationYield, AfterHydration, Leave
<1>2. CASE HydrationTake(t)
  BY <1>0, <1>2 DEF HydrationTake, MayDispatchHydration
<1>3. CASE HydrationDone(t)
  BY <1>0, <1>3 DEF HydrationDone, MayDispatchHydration, AfterHydration, Leave
<1> QED BY <1>1, <1>2, <1>3 DEF HydrationDrain

(* ... and a record handed over.                                            *)
LEMMA RegisterOrdered ==
  ASSUME Ordered, Positions, NEW t \in Threads, Register(t)
  PROVE  Ordered'
<1>1. pc[t] = "ready" /\ Decodes(t) /\ UNCHANGED <<finalized, stopped, failures, toClose>>
  BY DEF Register, Decodes, stop
<1>2. ~(failures = 0 /\ Finalizing)
  BY <1>1, NoneDecodes
<1>3. CASE \E operation : operation # "finalize" /\ Enter(t, operation, None)
  BY <1>1, <1>2, <1>3, EnterOrdered
<1>4. CASE pc' = [pc EXCEPT ![t] = "hydration"] /\ UNCHANGED call
  BY <1>1, <1>2, <1>4 DEF Ordered, Finalizing, Positions, Threads
<1> QED BY <1>3, <1>4 DEF Register, RegisterStorage

(* Every action keeps the order of the stop.                                *)
LEMMA StepOrdered == IInv /\ Ordered /\ [Next]_vars => Ordered'
<1> SUFFICES ASSUME IInv, Ordered, [Next]_vars PROVE Ordered'
  OBVIOUS
<1>0. Positions
  BY DEF IInv
<1>1. CASE UNCHANGED vars \/ FlushSkipped \/ Tick
  <2>1. UNCHANGED <<pc, call, stopped, finalized, failures, todo, toClose>>
    BY <1>1 DEF FlushSkipped, Tick, vars, decoder, threads, stop
  <2> QED BY <2>1 DEF Ordered, Finalizing
<1>2. CASE WorkerEnds
  <2>1. UNCHANGED <<call, stopped, finalized, failures, todo, toClose>>
    BY <1>2 DEF WorkerEnds, decoder, stop
  <2> QED BY <1>0, <1>2, <2>1 DEF WorkerEnds, Ordered, Finalizing, Positions, Threads
<1>3. CASE Stopped
  BY <1>3 DEF Stopped, Ordered, Finalizing, threads, decoder
<1>4. CASE FlushStale
  <2>1. Enter("consumer", "flush", clock) /\ pc["consumer"] = "ready" /\ "consumer" \in Threads
    BY <1>4 DEF FlushStale, Threads
  <2>2. UNCHANGED <<stopped, finalized, failures, todo, toClose>>
    BY <1>4 DEF FlushStale, decoder, stop
  <2> QED BY <1>0, <2>1, <2>2, EnterOrdered
<1>5. CASE Finalize
  <2>1. /\ Enter("stopper", "finalize", None) /\ ~finalized /\ ~stopped
        /\ pc["worker"] = "dead" /\ todo = 0 /\ toClose = {}
    BY <1>5 DEF Finalize
  <2>2. UNCHANGED <<stopped, finalized, failures, todo, toClose>>
    BY <1>5 DEF Finalize, decoder, stop
  <2> QED BY <1>0, <2>1, <2>2 DEF Enter, Ordered, Finalizing, Positions, Threads
<1>6. ASSUME NEW t \in Threads, Decode(t) PROVE Ordered'
  <2>1. Decodes(t) /\ UNCHANGED <<pc, call, stopped, finalized, failures, toClose>>
    BY <1>6 DEF Decode, threads, stop
  <2> QED BY <2>1, NoneDecodes DEF Ordered, Finalizing
<1>7. ASSUME NEW t \in Threads, Observe(t) PROVE Ordered'
  <2>1. Decodes(t) /\ pc[t] = "ready" /\ Enter(t, "observe", None)
    BY <1>7 DEF Observe, Decodes
  <2>2. UNCHANGED <<stopped, finalized, failures, todo, toClose>>
    BY <1>7 DEF Observe, decoder, stop
  <2> QED BY <1>0, <2>1, <2>2, NoneDecodes, EnterOrdered
<1>8. ASSUME NEW t \in Threads, CloseFlow(t) PROVE Ordered'
  <2>1. PICK f \in Flows : Decodes(t) /\ pc[t] = "ready" /\ Enter(t, "close", f)
    BY <1>8 DEF CloseFlow, Decodes
  <2>2. UNCHANGED <<stopped, finalized, failures>>
    BY <1>8 DEF CloseFlow
  <2> QED BY <1>0, <2>1, <2>2, NoneDecodes, EnterOrdered
<1>9. ASSUME NEW t \in Threads, Step(t) PROVE Ordered'
  <2>1. CASE AfterOriginCall(t) \/ HydrationHalf(t) \/ Deliver(t)
    <3>1. /\ UNCHANGED <<call, stopped, finalized, failures, todo, toClose>>
          /\ \E l \in {"hydration", "hydrationTake"} : pc' = [pc EXCEPT ![t] = l]
          /\ pc[t] \notin {"ready", "dead"}
      BY <2>1 DEF AfterOriginCall, HydrationHalf, Deliver, decoder, stop
    <3> QED BY <1>0, <3>1 DEF Ordered, Finalizing, Positions, Threads
  <2> QED BY <1>0, <1>9, <2>1, RegisterOrdered, OriginDrainOrdered, ObserverOrdered,
             HydrationDrainOrdered DEF Step
<1> QED BY <1>1, <1>2, <1>3, <1>4, <1>5, <1>6, <1>7, <1>8, <1>9 DEF Next

(* What finalize has done by then: nothing is staged or pending once it is *)
(* entered; past its half of the origin tracker, no callback of it is left *)
(* if none was left to another dispatcher; past both halves, no burst is.  *)
OriginHalfOver ==
  \/ finalized
  \/ /\ call["stopper"] = "finalize" /\ originHand["stopper"] = <<>>
     /\ pc["stopper"] \in {"between", "hydration", "hydrationTake", "hydrationCall"}
BothHalvesOver ==
  \/ finalized
  \/ /\ call["stopper"] = "finalize" /\ originHand["stopper"] = <<>>
     /\ pc["stopper"] \in {"hydration", "hydrationTake", "hydrationCall"}
NothingWaits == pending = <<>> /\ \A m \in Messages : staged[m] = {}
NothingQueued == originOutbox = <<>> /\ \A t \in Threads : originHand[t] = <<>>
NothingHeld == \A k \in Keys : bursts[k] = None
Ended ==
  /\ failures = 0 /\ Finalizing => NothingWaits
  /\ failures = 0 /\ ~overtaken /\ OriginHalfOver => NothingQueued
  /\ failures = 0 /\ ~overtaken /\ BothHalvesOver => NothingHeld

(* A sequence without elements is empty.                                    *)
LEMMA EmptySequence ==
  ASSUME NEW S, NEW s \in Seq(S), ToSet(s) = {}
  PROVE  s = <<>>
<1>1. Len(s) \in Nat /\ DOMAIN s = 1..Len(s)
  OBVIOUS
<1>2. ~(1 \in DOMAIN s)
  BY DEF ToSet
<1> QED BY <1>1, <1>2

(* The halves of finalize follow each other.                                *)
LEMMA HalvesAre ==
  /\ BothHalvesOver => OriginHalfOver
  /\ OriginHalfOver => Finalizing
  BY DEF BothHalvesOver, OriginHalfOver, Finalizing

(* Before finalize is entered, and after a failure, nothing is promised.    *)
LEMMA NotFinalizing ==
  ASSUME ~(failures' = 0 /\ Finalizing')
  PROVE  Ended'
  BY DEF Ended, BothHalvesOver, OriginHalfOver, Finalizing

(* Steps that leave the trackers alone and do not advance finalize.         *)
LEMMA EndedStays ==
  ASSUME Ended, failures' = 0 => failures = 0, overtaken => overtaken',
         Finalizing' => Finalizing, OriginHalfOver' => OriginHalfOver,
         BothHalvesOver' => BothHalvesOver,
         UNCHANGED <<staged, pending, originOutbox, originHand, bursts>>
  PROVE  Ended'
  BY DEF Ended, NothingWaits, NothingQueued, NothingHeld

(* _close_pending with nothing staged or pending queues nothing.            *)
LEMMA CloseNothing ==
  ASSUME Shapes, NothingWaits, NEW batches, NEW closing, ClosePending(batches, closing)
  PROVE  NothingWaits' /\ originOutbox' = originOutbox
<1>1. PICK worker \in SUBSET Candidates(pending) :
        /\ staged' = [m \in Messages |-> IF m \in batches THEN {} ELSE staged[m]]
        /\ pending' = Keep(pending, closing \cup worker)
        /\ originOutbox' = originOutbox \o Unstaged(batches)
                             \o Settled(pending, closing \cup worker, worker)
  BY DEF ClosePending
<1> DEFINE gone == closing \cup worker
           first == Unstaged(batches)
           then == Settled(pending, gone, worker)
<1>2. pending \in Seq(Deposits) /\ Inj(MessageOf, pending) /\ History /\ ToSet(pending) = {}
  BY DEF NothingWaits, ToSet, Shapes, PendingShape, DecoderShape
<1>3. Keep(pending, gone) \in Seq(Deposits) /\ ToSet(Keep(pending, gone)) = {}
  BY <1>2, KeepIs
<1>4. pending' = <<>>
  BY <1>1, <1>3, EmptySequence
<1>5. StagedBatches(batches) = {}
  BY DEF StagedBatches, NothingWaits, Shapes, DecoderShape, History
<1>6. first \in Seq(Known(StorageTypes)) /\ ToSet(first) = {}
  BY <1>2, <1>5, StagedIs, UnstagedIs
<1>7. then \in Seq(Known(StorageTypes)) /\ ToSet(then) = {}
  BY <1>2, SettledIs DEF SettledOf
<1>8. first = <<>> /\ then = <<>>
  BY <1>6, <1>7, EmptySequence
<1>9. originOutbox \in Seq(Known(OriginTypes))
  BY DEF Shapes, OriginShape
<1>10. originOutbox' = originOutbox \o first \o then
  BY <1>1
<1> HIDE DEF first, then
<1>11. originOutbox' = originOutbox
  BY <1>8, <1>9, <1>10
<1>12. \A m \in Messages : staged'[m] = {}
  BY <1>1 DEF NothingWaits
<1> QED BY <1>4, <1>11, <1>12 DEF NothingWaits

(* _close_pending of everything leaves nothing staged or pending.           *)
LEMMA CloseAll ==
  ASSUME Shapes, ClosePending(Messages, {p.message : p \in ToSet(pending)})
  PROVE  NothingWaits'
<1> DEFINE all == {p.message : p \in ToSet(pending)}
<1>1. PICK worker \in SUBSET Candidates(pending) :
        /\ staged' = [m \in Messages |-> IF m \in Messages THEN {} ELSE staged[m]]
        /\ pending' = Keep(pending, all \cup worker)
  BY DEF ClosePending
<1>2. pending \in Seq(Deposits)
  BY DEF Shapes, PendingShape
<1>3. Keep(pending, all \cup worker) \in Seq(Deposits) /\ ToSet(Keep(pending, all \cup worker)) = {}
  BY <1>2, KeepIs
<1>4. pending' = <<>>
  BY <1>1, <1>3, EmptySequence
<1> QED BY <1>1, <1>4 DEF NothingWaits

(* poll() flushes nothing after finalize was entered.                       *)
LEMMA FlushEnded ==
  ASSUME IInv, Shapes, Ordered, Ended, FlushStale
  PROVE  Ended'
<1>1. UNCHANGED <<bursts, originHand, failures, overtaken, finalized>>
  BY DEF FlushStale, hydration, stop
<1>2. /\ pc'["stopper"] = pc["stopper"] /\ call'["stopper"] = call["stopper"]
  BY DEF FlushStale, Enter, IInv, Positions, Ordered, Threads
<1>3. /\ Finalizing' => Finalizing
      /\ (OriginHalfOver' => OriginHalfOver) /\ (BothHalvesOver' => BothHalvesOver)
  BY <1>1, <1>2 DEF Finalizing, OriginHalfOver, BothHalvesOver
<1>4. PICK stale : ClosePending(stale, stale \cap {p.message : p \in ToSet(pending)})
  BY DEF FlushStale
<1>5. NothingWaits => NothingWaits' /\ originOutbox' = originOutbox
  BY <1>4, CloseNothing
<1> QED BY <1>1, <1>3, <1>5, HalvesAre DEF Ended, NothingQueued, NothingHeld

(* finalize empties what waits.                                             *)
LEMMA FinalizeEnded ==
  ASSUME IInv, Shapes, Ordered, Finalize
  PROVE  Ended'
<1>1. NothingWaits'
  BY CloseAll DEF Finalize
<1>2. finalized' = FALSE /\ pc'["stopper"] = "origin"
  BY DEF Finalize, Enter, stop, IInv, Positions, Threads
<1>3. ~OriginHalfOver' /\ ~BothHalvesOver'
  BY <1>2 DEF OriginHalfOver, BothHalvesOver
<1> QED BY <1>1, <1>3 DEF Ended

(* The stopper leaves the outbox of the origin tracker empty, or is         *)
(* overtaken.                                                               *)
LEMMA OriginDrainEnded ==
  ASSUME IInv, Ordered, Ended, NEW t \in Threads, OriginDrain(t)
  PROVE  Ended'
<1>0. UNCHANGED <<finalized, failures, staged, pending, bursts>>
  BY DEF OriginDrain, stop, origin, hydration
<1>1. pc \in [Threads -> Labels] /\ DOMAIN call = Threads /\ "stopper" \in Threads
  BY DEF IInv, Positions, Ordered, Threads
<1>2. /\ call'["stopper"] = "finalize" => call["stopper"] = "finalize"
      /\ Finalizing' => Finalizing
  BY <1>0, <1>1 DEF OriginDrain, OriginYield, OriginTake, OriginDone, AfterOrigin, Leave, Finalizing
<1>3. pc[t] \in {"origin", "originTake"} /\ originHand[t] = <<>>
  BY DEF OriginDrain, OriginYield, OriginTake, OriginDone, MayDispatchOrigin, IInv, Positions
<1>4. failures = 0 /\ finalized => t # "stopper"
  BY <1>3 DEF Ordered
<1>5. failures = 0 /\ Finalizing => NothingWaits'
  BY <1>0 DEF Ended, NothingWaits
<1>6. CASE OriginYield(t)
  <2>1. overtaken' = (overtaken \/ t = "stopper") /\ UNCHANGED <<originOutbox, originHand>>
    BY <1>6 DEF OriginYield
  <2>2. CASE t = "stopper"
    BY <1>0, <1>2, <1>5, <2>1, <2>2 DEF Ended
  <2>3. CASE t # "stopper"
    <3>1. pc'["stopper"] = pc["stopper"]
      BY <1>1, <1>6, <2>3 DEF OriginYield, AfterOrigin, Leave
    <3>2. (OriginHalfOver' => OriginHalfOver) /\ (BothHalvesOver' => BothHalvesOver)
      BY <1>0, <1>2, <2>1, <3>1 DEF OriginHalfOver, BothHalvesOver
    <3> QED BY <1>0, <1>2, <2>1, <2>3, <3>2, EndedStays
  <2> QED BY <2>2, <2>3
<1>7. CASE OriginTake(t)
  <2>1. originOutbox # <<>> /\ pc' = [pc EXCEPT ![t] = "originCall"] /\ UNCHANGED overtaken
        /\ originHand' = [originHand EXCEPT ![t] = <<Head(originOutbox)>>]
    BY <1>7 DEF OriginTake
  <2>2. failures = 0 /\ ~overtaken => ~OriginHalfOver
    BY <2>1 DEF Ended, NothingQueued
  <2>3. failures = 0 /\ ~overtaken => ~finalized
    BY <2>2 DEF OriginHalfOver
  <2>4. CASE t = "stopper"
    <3>1. pc'["stopper"] = "originCall"
      BY <1>1, <2>1, <2>4
    <3>2. failures = 0 /\ ~overtaken => ~OriginHalfOver' /\ ~BothHalvesOver'
      BY <1>0, <2>3, <3>1 DEF OriginHalfOver, BothHalvesOver
    <3> QED BY <1>0, <1>2, <1>5, <2>1, <3>2 DEF Ended
  <2>5. CASE t # "stopper"
    <3>1. pc'["stopper"] = pc["stopper"] /\ originHand'["stopper"] = originHand["stopper"]
      BY <1>1, <2>1, <2>5 DEF IInv, Positions
    <3>2. (OriginHalfOver' => OriginHalfOver) /\ (BothHalvesOver' => OriginHalfOver)
      BY <1>0, <1>2, <3>1 DEF OriginHalfOver, BothHalvesOver
    <3> QED BY <1>0, <1>2, <1>5, <2>1, <2>2, <3>2 DEF Ended
  <2> QED BY <2>4, <2>5
<1>8. CASE OriginDone(t)
  <2>1. originOutbox = <<>> /\ UNCHANGED <<originOutbox, originHand, overtaken>>
    BY <1>8 DEF OriginDone
  <2>2. CASE t = "stopper"
    <3>1. \A u \in Threads : ~RunsOrigin(u) \/ u = t
      BY <1>8 DEF OriginDone, MayDispatchOrigin, IInv, Handover, OneDispatcher, RunsOrigin
    <3>2. \A u \in Threads : originHand[u] = <<>>
      BY <1>3, <3>1 DEF RunsOrigin
    <3>3. NothingQueued'
      BY <2>1, <3>2 DEF NothingQueued
    <3>4. pc'["stopper"] \in {"between", "ready"}
      BY <1>1, <1>8, <2>2 DEF OriginDone, AfterOrigin, Leave
    <3>5. failures = 0 => ~BothHalvesOver'
      BY <1>0, <1>4, <2>2, <3>4 DEF BothHalvesOver
    <3> QED BY <1>0, <1>2, <1>5, <3>3, <3>5 DEF Ended
  <2>3. CASE t # "stopper"
    <3>1. pc'["stopper"] = pc["stopper"]
      BY <1>1, <1>8, <2>3 DEF OriginDone, AfterOrigin, Leave
    <3>2. (OriginHalfOver' => OriginHalfOver) /\ (BothHalvesOver' => BothHalvesOver)
      BY <1>0, <1>2, <2>1, <3>1 DEF OriginHalfOver, BothHalvesOver
    <3> QED BY <1>0, <1>2, <2>1, <3>2, EndedStays
  <2> QED BY <2>2, <2>3
<1> QED BY <1>6, <1>7, <1>8 DEF OriginDrain

(* No observer runs past the origin half of finalize.                       *)
LEMMA ObserverEnded ==
  ASSUME IInv, Ordered, Ended, NEW t \in Threads, Observer(t)
  PROVE  Ended'
<1>1. CASE failures' = failures + 1
  <2>1. failures' # 0
    BY <1>1 DEF IInv, Positions
  <2> QED BY <2>1 DEF Ended
<1>2. CASE pc' = [pc EXCEPT ![t] = "originTake"] /\ UNCHANGED <<stop, call>>
  <2>1. /\ pc[t] = "originCall" /\ originHand' = [originHand EXCEPT ![t] = <<>>]
        /\ UNCHANGED <<staged, pending, originOutbox, bursts, overtaken>>
    BY DEF Observer, origin, hydration
  <2>2. UNCHANGED <<finalized, failures, call>> /\ (Finalizing' => Finalizing)
    BY <1>2 DEF stop, Finalizing
  <2>3. failures = 0 /\ ~overtaken => ~OriginHalfOver
    BY <2>1 DEF Ended, NothingQueued, IInv, Positions
  <2>4. OriginHalfOver' \/ BothHalvesOver' => OriginHalfOver
    <3>1. CASE t = "stopper"
      BY <1>2, <2>2, <3>1 DEF OriginHalfOver, BothHalvesOver, IInv, Positions
    <3>2. CASE t # "stopper"
      <4>1. pc'["stopper"] = pc["stopper"] /\ originHand'["stopper"] = originHand["stopper"]
        BY <1>2, <2>1, <3>2 DEF IInv, Positions, Threads
      <4> QED BY <2>2, <4>1 DEF OriginHalfOver, BothHalvesOver
    <3> QED BY <3>1, <3>2
  <2> QED BY <2>1, <2>2, <2>3, <2>4 DEF Ended, NothingWaits
<1> QED BY <1>1, <1>2 DEF Observer

(* The dispatcher of the hydration tracker ends finalize.                   *)
LEMMA HydrationDrainEnded ==
  ASSUME IInv, Ordered, Ended, NEW t \in Threads, HydrationDrain(t)
  PROVE  Ended'
<1>0. UNCHANGED <<failures, staged, pending, bursts, originOutbox, overtaken>>
  BY DEF HydrationDrain, origin, hydration
<1>1. /\ pc \in [Threads -> Labels] /\ DOMAIN call = Threads /\ "stopper" \in Threads
      /\ originHand = [u \in Threads |-> originHand[u]]
  BY DEF IInv, Positions, Ordered, Threads
<1>2. CASE HydrationTake(t)
  <2>1. /\ pc[t] \in {"hydration", "hydrationTake"} /\ pc' = [pc EXCEPT ![t] = "hydrationCall"]
        /\ UNCHANGED <<originHand, call, finalized>>
    BY <1>2 DEF HydrationTake, MayDispatchHydration
  <2>2. pc["stopper"] = pc'["stopper"] \/ pc["stopper"] \in {"hydration", "hydrationTake"}
    BY <1>1, <2>1
  <2>3. /\ Finalizing' => Finalizing
        /\ (OriginHalfOver' => OriginHalfOver) /\ (BothHalvesOver' => BothHalvesOver)
    BY <2>1, <2>2 DEF Finalizing, OriginHalfOver, BothHalvesOver
  <2> QED BY <1>0, <2>1, <2>3, EndedStays
<1>3. CASE AfterHydration(t)
  <2>1. /\ pc[t] \in {"hydration", "hydrationTake"}
        /\ originHand' = [originHand EXCEPT ![t] = <<>>]
        /\ finalized' = (finalized \/ (originHand[t] = <<>> /\ call[t] = "finalize"))
    BY <1>3 DEF AfterHydration, HydrationDrain, HydrationYield, HydrationTake, HydrationDone,
                MayDispatchHydration
  <2>2. NothingQueued => NothingQueued'
    BY <1>0, <1>1, <2>1 DEF NothingQueued
  <2>3. /\ Finalizing' => Finalizing
        /\ (OriginHalfOver' => OriginHalfOver) /\ (BothHalvesOver' => BothHalvesOver)
    <3>1. CASE t = "stopper" /\ originHand[t] # <<>>
      <4>1. pc'["stopper"] = "originTake" /\ UNCHANGED call /\ (finalized' => finalized)
        BY <1>1, <1>3, <2>1, <3>1 DEF AfterHydration
      <4> QED BY <4>1 DEF Finalizing, OriginHalfOver, BothHalvesOver
    <3>2. CASE t = "stopper" /\ originHand[t] = <<>>
      <4>1. call'["stopper"] = "none"
        BY <1>1, <1>3, <3>2 DEF AfterHydration, Leave
      <4> QED BY <2>1, <3>2, <4>1 DEF Finalizing, OriginHalfOver, BothHalvesOver
    <3>3. CASE t # "stopper"
      <4>1. /\ pc'["stopper"] = pc["stopper"] /\ originHand'["stopper"] = originHand["stopper"]
            /\ call'["stopper"] = call["stopper"]
        BY <1>1, <1>3, <2>1, <3>3 DEF AfterHydration, Leave
      <4>2. finalized' => finalized
        BY <2>1, <3>3 DEF Ordered
      <4> QED BY <4>1, <4>2 DEF Finalizing, OriginHalfOver, BothHalvesOver
    <3> QED BY <3>1, <3>2, <3>3
  <2> QED BY <1>0, <2>2, <2>3 DEF Ended, NothingWaits, NothingHeld
<1> QED BY <1>2, <1>3 DEF HydrationDrain, HydrationYield, HydrationDone

(* The hydration half of finalize ends every burst.                         *)
LEMMA HydrationHalfEnded ==
  ASSUME IInv, Ordered, Ended, NEW t \in Threads, HydrationHalf(t)
  PROVE  Ended'
<1>0. UNCHANGED <<failures, staged, pending, originOutbox, originHand, overtaken, call, finalized>>
  BY DEF HydrationHalf, origin, stop
<1>1. /\ pc \in [Threads -> Labels] /\ "stopper" \in Threads
      /\ pc[t] = "between" /\ pc' = [pc EXCEPT ![t] = "hydration"]
  BY DEF HydrationHalf, IInv, Positions, Threads
<1>2. NothingHeld => NothingHeld'
  BY DEF HydrationHalf, CloseKeys, FlushBursts, Without, NothingHeld
<1>3. Finalizing' => Finalizing
  BY <1>0 DEF Finalizing
<1>4. OriginHalfOver' => OriginHalfOver
  BY <1>0, <1>1 DEF OriginHalfOver
<1>5. BothHalvesOver' => BothHalvesOver \/ NothingHeld'
  <2>1. CASE t = "stopper" /\ call["stopper"] = "finalize"
    BY <2>1 DEF HydrationHalf, CloseKeys, Without, NothingHeld
  <2>2. CASE t = "stopper" /\ call["stopper"] # "finalize"
    BY <1>0, <2>2 DEF BothHalvesOver
  <2>3. CASE t # "stopper"
    BY <1>0, <1>1, <2>3 DEF BothHalvesOver
  <2> QED BY <2>1, <2>2, <2>3
<1> QED BY <1>0, <1>2, <1>3, <1>4, <1>5 DEF Ended, NothingWaits, NothingQueued

(* Nothing reaches the hydration tracker past the origin half of finalize.  *)
LEMMA AfterOriginEnded ==
  ASSUME IInv, Ended, NEW t \in Threads, AfterOriginCall(t)
  PROVE  Ended'
<1>0. UNCHANGED <<failures, staged, pending, originOutbox, originHand, overtaken, call, finalized>>
  BY DEF AfterOriginCall, origin, stop
<1>1. /\ pc \in [Threads -> Labels] /\ "stopper" \in Threads
      /\ pc[t] = "originCall" /\ pc' = [pc EXCEPT ![t] = "hydration"] /\ originHand[t] # <<>>
  BY DEF AfterOriginCall, IInv, Positions, Threads
<1>2. failures = 0 /\ ~overtaken => ~OriginHalfOver
  BY <1>1 DEF Ended, NothingQueued
<1>3. OriginHalfOver' \/ BothHalvesOver' => OriginHalfOver
  BY <1>0, <1>1 DEF OriginHalfOver, BothHalvesOver
<1>4. Finalizing' => Finalizing
  BY <1>0 DEF Finalizing
<1> QED BY <1>0, <1>2, <1>3, <1>4 DEF Ended, NothingWaits

(* A delivery changes none of it.                                           *)
LEMMA DeliverEnded ==
  ASSUME IInv, Ended, NEW t \in Threads, Deliver(t)
  PROVE  Ended'
<1>0. UNCHANGED <<failures, staged, pending, originOutbox, originHand, bursts, overtaken, call,
                  finalized>>
  BY DEF Deliver, origin, hydration, stop
<1>1. /\ pc \in [Threads -> Labels] /\ "stopper" \in Threads
      /\ pc[t] = "hydrationCall" /\ pc' = [pc EXCEPT ![t] = "hydrationTake"]
  BY DEF Deliver, IInv, Positions, Threads
<1>2. pc'["stopper"] = pc["stopper"] \/ pc["stopper"] = "hydrationCall"
  BY <1>1
<1>3. /\ Finalizing' => Finalizing
      /\ (OriginHalfOver' => OriginHalfOver) /\ (BothHalvesOver' => BothHalvesOver)
  BY <1>0, <1>2 DEF Finalizing, OriginHalfOver, BothHalvesOver
<1> QED BY <1>0, <1>3, EndedStays

(* Initially nobody finalizes.                                              *)
LEMMA InitEnded == Init => Ended
  BY DEF Init, Ended, Finalizing, OriginHalfOver, BothHalvesOver, Threads

(* Every action keeps what finalize has done.                               *)
LEMMA StepEnded == IInv /\ Shapes /\ Ordered /\ Ended /\ [Next]_vars => Ended'
<1> SUFFICES ASSUME IInv, Shapes, Ordered, Ended, [Next]_vars PROVE Ended'
  OBVIOUS
<1>1. CASE UNCHANGED vars \/ FlushSkipped \/ Tick \/ WorkerEnds \/ Stopped
  <2>1. UNCHANGED <<failures, staged, pending, originOutbox, originHand, bursts, overtaken, call,
                    finalized>>
    BY <1>1 DEF FlushSkipped, Tick, WorkerEnds, Stopped, vars, origin, hydration, threads, stop
  <2>2. pc'["stopper"] = pc["stopper"]
    BY <1>1 DEF FlushSkipped, Tick, WorkerEnds, Stopped, vars, threads, IInv, Positions, Threads
  <2>3. /\ Finalizing' => Finalizing
        /\ (OriginHalfOver' => OriginHalfOver) /\ (BothHalvesOver' => BothHalvesOver)
    BY <2>1, <2>2 DEF Finalizing, OriginHalfOver, BothHalvesOver
  <2> QED BY <2>1, <2>3, EndedStays
<1>2. ASSUME NEW t \in Threads, Decode(t) \/ Observe(t) \/ CloseFlow(t) \/ Register(t)
      PROVE  Ended'
  <2>1. Decodes(t) /\ UNCHANGED <<failures, finalized>>
    BY <1>2 DEF Decode, Observe, CloseFlow, Register, stop
  <2>2. ~(failures = 0 /\ Finalizing)
    BY <2>1, NoneDecodes
  <2>3. call' = call \/ \E operation : /\ operation # "finalize"
                                       /\ call' = [call EXCEPT ![t] = operation]
    BY <1>2 DEF Decode, Observe, CloseFlow, Register, RegisterStorage, Enter, threads
  <2>4. Finalizing' => Finalizing
    BY <2>1, <2>3 DEF Finalizing, Ordered, Threads
  <2> QED BY <2>1, <2>2, <2>4, NotFinalizing
<1>3. ASSUME NEW t \in Threads, Step(t) PROVE Ended'
  BY <1>2, <1>3, OriginDrainEnded, ObserverEnded, AfterOriginEnded, HydrationHalfEnded,
     HydrationDrainEnded, DeliverEnded DEF Step
<1> QED BY <1>1, <1>2, <1>3, FlushEnded, FinalizeEnded DEF Next

(* Every place but that of the delivered records is empty then.             *)
LEMMA EndedDelivers ==
  ASSUME IInv, Shapes, Traced, Ordered, Ended
  PROVE  FinalizeCompleteAlone
<1> SUFFICES ASSUME stopped, failures = 0, pc["consumer"] = "ready", ~overtaken, NEW r \in Accepted
             PROVE  Delivered(r[1], r[2])
  BY DEF FinalizeCompleteAlone, Settles, AllDelivered
<1>1. /\ finalized /\ pc["worker"] = "dead" /\ pc["stopper"] = "ready"
  BY DEF Ordered, Finalizing
<1>2. NothingWaits /\ NothingQueued /\ NothingHeld
  BY <1>1 DEF Ended, Finalizing, OriginHalfOver, BothHalvesOver
<1>3. \A t \in Threads : pc[t] \in {"ready", "dead"}
  BY <1>1 DEF Threads
<1>4. hydrationOutbox = <<>>
  BY <1>3 DEF IInv, Handover, NothingStuck, RunsHydration
<1>5. \A t \in Threads : ToSet(hydrationHand[t]) = {}
  <2> SUFFICES ASSUME NEW t \in Threads PROVE ToSet(hydrationHand[t]) = {}
    OBVIOUS
  <2>1. hydrationHand[t] \in Seq(Known(HydrationTypes)) /\ Len(hydrationHand[t]) = 0
    BY <1>3 DEF Shapes, HydrationShape
  <2> DEFINE h == hydrationHand[t]
  <2>2. h = <<>>
    BY <2>1
  <2> QED BY <2>2 DEF ToSet
<1>6. ToSet(<<>>) = {} /\ RecordsIn({}) = {}
  BY DEF ToSet, RecordsIn
<1>7. /\ HandsOf(hydrationHand, Threads) = {} /\ HandsOf(originHand, Calling) = {}
  BY <1>2, <1>5, <1>6 DEF HandsOf, NothingQueued, Calling
<1>8. /\ InStaged = {} /\ InPending = {} /\ InOriginQueue = {} /\ InOriginHand = {}
      /\ InHydrationQueue = {} /\ InHydrationHand = {}
  BY <1>2, <1>4, <1>6, <1>7 DEF InStaged, InPending, InOriginQueue, InOriginHand,
     InHydrationQueue, InHydrationHand, NothingWaits, NothingQueued
<1>9. InBursts = {}
  BY <1>2, <1>6 DEF InBursts, InBurst, BurstEvents, NothingHeld
<1>10. \E i \in 1..8 : r \in Spot[i]
  BY SpotIs DEF Traced, Parted, SpotFact
<1>11. r \in InDelivered
  BY <1>8, <1>9, <1>10, SpotIs DEF SpotFact
<1>12. PICK e \in delivered : r = <<e.message, e.record>>
  BY <1>11 DEF InDelivered, RecordsIn
<1> QED BY <1>12 DEF Delivered

(* Whatever threads mutate and drain them, the callbacks of each tracker   *)
(* run in the order of its mutations, one at a time and once each: the     *)
(* collector implements OrderedDispatch twice (_drain_outbox of both       *)
(* trackers, "dispatch callbacks in mutation order").                      *)
THEOREM CollectorOrder == Spec => MutationOrder
<1>1. Init => IInv /\ Shapes
  BY InitIInv, InitShapes
<1>2. IInv /\ Shapes /\ [Next]_vars => (IInv /\ Shapes)'
  BY StepKeeps, StepShapes
<1>3. IInv /\ Shapes /\ [Next]_vars =>
        /\ [OriginDispatch!Next]_(OriginDispatch!vars)
        /\ [HydrationDispatch!Next]_(HydrationDispatch!vars)
  BY StepOrder DEF InOrderSteps
<1>4. Init => OriginDispatch!Init /\ HydrationDispatch!Init
  BY InitOrder
<1> QED BY <1>1, <1>2, <1>3, <1>4, PTL
        DEF Spec, MutationOrder, OriginDispatch!Spec, HydrationDispatch!Spec

(* Every record the decoder hands over is in one place at every moment:    *)
(* staged, pending, queued or in hand in either tracker, in a burst, or    *)
(* delivered.  No eviction, stale or closed flow, raising observer or pair *)
(* of draining threads loses or doubles one (_register_group,              *)
(* _close_pending, _drain_outbox, observe_storage), and no flow has more   *)
(* deposits pending than MAX_PENDING_OPERATIONS_PER_FLOW.                   *)
THEOREM CollectorRecords == Spec => []RecordsKept
<1>1. Init => IInv /\ Shapes /\ Traced /\ Limited
  BY InitIInv, InitShapes, InitTraced, InitLimited
<1>2. IInv /\ Shapes /\ Traced /\ Limited /\ [Next]_vars => (IInv /\ Shapes /\ Traced /\ Limited)'
  BY StepKeeps, StepShapes, StepTraced, StepLimited
<1>3. IInv /\ Shapes /\ Traced /\ Limited => RecordsKept
  BY TracedConserved, ShapesTyped DEF RecordsKept
<1> QED BY <1>1, <1>2, <1>3, PTL DEF Spec

(* A record leaves as part of a snapshot only after neutral wrappers of    *)
(* its own connection and moment that span enough destinations: as many as *)
(* MinAnchored within Epoch of an inventory hydration of that connection,  *)
(* or MinUnanchored with a wrapper of enough records.  So it is in every   *)
(* interleaving of the threads that stage records, drain the outboxes and  *)
(* close (StageNeutral, HydrationDrain, HydrationHalf).                    *)
THEOREM CollectorSnapshots == Spec => []SnapshotsProven
<1>1. Init => IInv /\ Shapes /\ Traced /\ Proven
  BY InitIInv, InitShapes, InitTraced, InitProven
<1>2. IInv /\ Shapes /\ Traced /\ Proven /\ [Next]_vars => (IInv /\ Shapes /\ Traced /\ Proven)'
  BY StepKeeps, StepShapes, StepTraced, StepProven
<1>3. IInv /\ Shapes /\ Traced /\ Proven => SnapshotsProven
  BY ProvenSnapshots
<1> QED BY <1>1, <1>2, <1>3, PTL DEF Spec

(* Once the session is stopped and poll() has returned, every record the   *)
(* decoder handed over was delivered, if no callback raised and the stop,  *)
(* closing flows and finalizing, met no other dispatcher of the origin     *)
(* tracker (_finish_stop, finalize, _drain_outbox).                        *)
THEOREM CollectorFinalizes == Spec => []FinalizeCompleteAlone
<1>1. Init => IInv /\ Shapes /\ Traced /\ Ordered /\ Ended
  BY InitIInv, InitShapes, InitTraced, InitOrdered, InitEnded
<1>2. IInv /\ Shapes /\ Traced /\ Ordered /\ Ended /\ [Next]_vars =>
        (IInv /\ Shapes /\ Traced /\ Ordered /\ Ended)'
  BY StepKeeps, StepShapes, StepTraced, StepOrdered, StepEnded
<1>3. IInv /\ Shapes /\ Traced /\ Ordered /\ Ended => FinalizeCompleteAlone
  BY EndedDelivers
<1> QED BY <1>1, <1>2, <1>3, PTL DEF Spec
=============================================================================
