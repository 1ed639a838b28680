--------------------------- MODULE FlowTableProofs ---------------------------
(***************************************************************************)
(* What FlowTable guarantees for every set of flows, every limit and any   *)
(* number of packets and raising callbacks: TypeOK, WithinMaxFlows,        *)
(* OrderedByActivity, ClosedOnce, GoneIsTold and the contract FlowEpochs.  *)
(* The inductive invariant IInv follows the entries that are still owed a  *)
(* close (Owed): an operation may take one out of the table long before it *)
(* notifies the tracker.                                                   *)
(***************************************************************************)
EXTENDS FlowTable, FiniteSetTheorems, TLAPS

InHand == {"evict", "finish", "notify"}
Loops == {"completed", "expired", "drain"}

(* The limit has room for the flow that is about to be opened.              *)
Room ==
    /\ IsFiniteSet(table) /\ Cardinality(table) <= MaxFlows
    /\ \/ pc = "open" /\ ~Known(packet.flow)
       \/ resume = "open"
       => Cardinality(table) < MaxFlows

(* Where the entry in hand is, and where the operation returns to.          *)
Place ==
    /\ pc \in InHand => current \in Entry /\ current \notin table \cup leaving
    /\ pc \in {"segment", "closeOwn"} => current \in table
    /\ pc \in {"open", "segment", "closeOwn"} \/ resume = "open" => packet \in Packet
    /\ pc = "evict" => resume = "open"
    /\ pc \notin InHand => resume = "idle"
    /\ failed => pc \in {"idle", "drain"} \/ resume = "drain"
    /\ pc \in Loops => packet = None /\ current = None

(* What the loops still have to close.                                      *)
Leavers ==
    /\ "drain" \in {pc, resume} => table = {}
    /\ {pc, resume} \cap {"completed", "expired"} # {} => leaving \subseteq table
    /\ {pc, resume} \cap Loops = {} => leaving = {}

Recency ==
    /\ OrderedByActivity
    /\ \A e \in table : e.rank <= moves /\ e.last <= clock

Unique(S) == \A d, e \in S : d.flow = e.flow => d = e

(* A tracker knows an owed entry as its flow's open epoch, or has seen no   *)
(* frame of it and knows the flow as shut.                                  *)
Told(e) ==
    \/ epoch[e.flow] = e.gen /\ ~shut[e.flow]
    \/ epoch[e.flow] < e.gen /\ shut[e.flow]

Has(S, f) == \E e \in S : e.flow = f

(* The ledger of the owed entries: one for each flow, of a generation that  *)
(* was given, known to the tracker, and balancing opened against closed.    *)
Ledger ==
    /\ Unique(Owed)
    /\ \A e \in Owed : e.gen <= generation /\ Told(e)
    /\ \A f \in Flows :
          /\ epoch[f] <= generation
          /\ ~failed => shut[f] \/ Has(Owed, f)
          /\ closed[f] + (IF Has(Owed, f) THEN 1 ELSE 0) <= opened[f]
          /\ ~failed => closed[f] + (IF Has(Owed, f) THEN 1 ELSE 0) = opened[f]

IInv == TypeOK /\ Room /\ Place /\ Leavers /\ Recency /\ Ledger

-----------------------------------------------------------------------------
(* One entry fewer, or another one in its place.                            *)
LEMMA OneOut ==
  ASSUME NEW S, IsFiniteSet(S), NEW x \in S, NEW n \in Nat, Cardinality(S) <= n
  PROVE  /\ IsFiniteSet(S \ {x}) /\ Cardinality(S \ {x}) < n
         /\ \A y : /\ IsFiniteSet((S \ {x}) \cup {y})
                  /\ Cardinality((S \ {x}) \cup {y}) <= n
<1>1. Cardinality(S) \in Nat
  BY FS_CardinalityType
<1>2. IsFiniteSet(S \ {x}) /\ Cardinality(S \ {x}) = Cardinality(S) - 1
  BY FS_RemoveElement
<1>3. Cardinality(S \ {x}) \in Nat
  BY <1>2, FS_CardinalityType
<1>4. Cardinality(S \ {x}) < n
  BY <1>1, <1>2
<1>5. ASSUME NEW y
      PROVE  /\ IsFiniteSet((S \ {x}) \cup {y})
             /\ Cardinality((S \ {x}) \cup {y}) <= n
  <2>1. /\ IsFiniteSet((S \ {x}) \cup {y})
        /\ \/ Cardinality((S \ {x}) \cup {y}) = Cardinality(S \ {x})
           \/ Cardinality((S \ {x}) \cup {y}) = Cardinality(S \ {x}) + 1
    BY <1>2, FS_AddElement
  <2>2. QED BY <2>1, <1>3, <1>4
<1>6. QED BY <1>2, <1>4, <1>5

(* Every owed entry is an entry, and those of the table are owed.           *)
LEMMA OwedEntries ==
  ASSUME TypeOK, Place
  PROVE  Owed \subseteq Entry /\ table \subseteq Owed
BY DEF TypeOK, Place, Owed, InHand

(* Frames of owed entries, or none, keep the ledger as long as the same     *)
(* generations stay owed or a callback raises; to a tracker they are frames *)
(* of open or of new epochs.                                                *)
LEMMA ShownLedger ==
  ASSUME TypeOK, Ledger, Owed \subseteq Entry,
         NEW S \in SUBSET Owed, ShowSome(S) \/ UNCHANGED told,
         Unique(Owed)',
         \A e \in Owed' : \E d \in Owed : d.flow = e.flow /\ d.gen = e.gen,
         \/ failed' = TRUE
         \/ failed' = failed /\ \A f \in Flows : Has(Owed, f) <=> Has(Owed', f),
         UNCHANGED <<opened, generation>>
  PROVE  /\ Ledger'
         /\ epoch' \in [Flows -> Nat] /\ shut' \in [Flows -> BOOLEAN]
         /\ closed' \in [Flows -> Nat]
         /\ Epochs!Frames
<1>1. /\ epoch \in [Flows -> Nat] /\ shut \in [Flows -> BOOLEAN]
      /\ closed \in [Flows -> Nat] /\ opened \in [Flows -> Nat] /\ generation \in Nat
  BY DEF TypeOK
<1>2. closed' = closed
  BY DEF ShowSome, Show, told
<1>3. /\ epoch' \in [Flows -> Nat] /\ shut' \in [Flows -> BOOLEAN]
      /\ \A f \in Flows :
            \/ epoch'[f] = epoch[f] /\ shut'[f] = shut[f]
            \/ \E e \in Owed : /\ e.flow = f
                              /\ epoch'[f] = e.gen /\ ~shut'[f]
  <2>1. CASE UNCHANGED told
    BY <2>1, <1>1 DEF told
  <2>2. CASE ShowSome(S)
    <3>1. PICK T \in SUBSET S : Show(T)
      BY <2>2 DEF ShowSome
    <3>2. ASSUME NEW f \in Flows, Has(T, f)
          PROVE  \E e \in T : /\ e.flow = f /\ e \in Owed /\ e.gen \in Nat
                             /\ (CHOOSE d \in T : d.flow = f) = e
      BY <3>2 DEF Has, Entry
    <3>3. epoch' = [f \in Flows |-> IF Has(T, f) THEN (CHOOSE e \in T : e.flow = f).gen
                                   ELSE epoch[f]]
      BY <3>1 DEF Show, Has
    <3>4. shut' = [f \in Flows |-> shut[f] /\ ~Has(T, f)]
      BY <3>1 DEF Show, Has
    <3>5. epoch' \in [Flows -> Nat]
      BY <1>1, <3>2, <3>3
    <3>6. shut' \in [Flows -> BOOLEAN]
      BY <3>4
    <3>7. ASSUME NEW f \in Flows
          PROVE  \/ epoch'[f] = epoch[f] /\ shut'[f] = shut[f]
                 \/ \E e \in Owed : e.flow = f /\ epoch'[f] = e.gen /\ ~shut'[f]
      <4>1. CASE ~Has(T, f)
        BY <4>1, <1>1, <3>3, <3>4
      <4>2. CASE Has(T, f)
        BY <4>2, <3>2, <3>3, <3>4
      <4>3. QED BY <4>1, <4>2
    <3>8. QED BY <3>5, <3>6, <3>7
  <2>3. QED BY <2>1, <2>2
<1>4. ASSUME NEW e \in Owed
      PROVE  e.flow \in Flows /\ e.gen \in Nat /\ e.gen <= generation /\ Told(e)
  BY DEF Ledger, Entry
<1>5. ASSUME NEW e \in Owed
      PROVE  Told(e)'
  <2>1. \/ epoch'[e.flow] = epoch[e.flow] /\ shut'[e.flow] = shut[e.flow]
        \/ epoch'[e.flow] = e.gen /\ ~shut'[e.flow]
    BY <1>3, <1>4 DEF Ledger, Unique
  <2>2. QED BY <2>1, <1>4 DEF Told
<1>6. \A e \in Owed' : e.gen <= generation' /\ Told(e)'
  BY <1>4, <1>5 DEF Told
<1>7. ASSUME NEW f \in Flows
      PROVE  epoch'[f] <= generation'
  BY <1>1, <1>3, <1>4 DEF Ledger
<1>8. ASSUME NEW f \in Flows, ~failed'
      PROVE  shut'[f] \/ Has(Owed, f)'
  BY <1>3, <1>8 DEF Ledger, Has
<1>9. ASSUME NEW f \in Flows
      PROVE  /\ closed'[f] + (IF Has(Owed, f)' THEN 1 ELSE 0) <= opened'[f]
             /\ ~failed' => closed'[f] + (IF Has(Owed, f)' THEN 1 ELSE 0) = opened'[f]
  <2>1. Has(Owed, f)' => Has(Owed, f)
    BY DEF Has
  <2>2. ~failed' => (Has(Owed, f)' <=> Has(Owed, f)) /\ ~failed
    BY DEF Has
  <2>3. closed[f] \in Nat /\ opened[f] \in Nat
    BY <1>1
  <2>4. /\ closed[f] + (IF Has(Owed, f) THEN 1 ELSE 0) <= opened[f]
        /\ ~failed => closed[f] + (IF Has(Owed, f) THEN 1 ELSE 0) = opened[f]
    BY DEF Ledger
  <2>5. QED BY <1>2, <2>1, <2>2, <2>3, <2>4
<1>10. Ledger'
  BY <1>6, <1>7, <1>8, <1>9 DEF Ledger
<1>11. Epochs!Frames
  <2>1. ASSUME NEW f \in Flows
        PROVE  \/ epoch'[f] = epoch[f] /\ shut'[f] = shut[f]
               \/ epoch'[f] > epoch[f] /\ shut[f] /\ ~shut'[f]
    <3>1. CASE epoch'[f] = epoch[f] /\ shut'[f] = shut[f]
      BY <3>1
    <3>2. ASSUME NEW e \in Owed, e.flow = f, epoch'[f] = e.gen, ~shut'[f]
          PROVE  \/ epoch'[f] = epoch[f] /\ shut'[f] = shut[f]
                 \/ epoch'[f] > epoch[f] /\ shut[f] /\ ~shut'[f]
      BY <1>1, <1>3, <1>4, <3>2 DEF Told
    <3>3. QED BY <1>3, <3>1, <3>2
  <2>2. QED BY <1>3, <2>1 DEF Epochs!Frames
<1>12. QED BY <1>1, <1>2, <1>3, <1>10, <1>11

(* What a tracker sees of one step.                                         *)
EpochStep == Epochs!Frames \/ \E f \in Flows : Epochs!Close(f)

LEMMA NothingShown ==
  ASSUME TypeOK, UNCHANGED told
  PROVE  EpochStep
BY DEF EpochStep, Epochs!Frames, TypeOK, told

(* An operation broken off by a callback leaves the invariant true, for     *)
(* the finish that its owner still makes.                                   *)
LEMMA BrokenOff ==
  ASSUME IInv, Raises, UNCHANGED <<table, generation, moves, opened>>,
         NEW S \in SUBSET Owed, ShowSome(S) \/ UNCHANGED told
  PROVE  IInv' /\ EpochStep
<1> USE DEF IInv
<1>1. Owed \subseteq Entry /\ table \subseteq Owed
  BY OwedEntries
<1>2. Owed' = table
  BY DEF Owed, Raises
<1>3. /\ Ledger'
      /\ epoch' \in [Flows -> Nat] /\ shut' \in [Flows -> BOOLEAN]
      /\ closed' \in [Flows -> Nat]
      /\ Epochs!Frames
  <2>1. Unique(Owed)'
    BY <1>1, <1>2 DEF Ledger, Unique
  <2>2. \A e \in Owed' : \E d \in Owed : d.flow = e.flow /\ d.gen = e.gen
    BY <1>1, <1>2
  <2>3. failed' = TRUE /\ UNCHANGED <<opened, generation>>
    BY DEF Raises
  <2>4. QED BY <1>1, <2>1, <2>2, <2>3, ShownLedger
<1>4. TypeOK'
  BY <1>3, TableConstants DEF TypeOK, Raises, Labels
<1>5. Room' /\ Place' /\ Leavers'
  BY DEF Room, Place, Leavers, InHand, Loops, Raises, Known
<1>6. Recency'
  BY DEF Recency, OrderedByActivity, Raises
<1>7. QED BY <1>3, <1>4, <1>5, <1>6 DEF EpochStep

(* Steps that keep the owed entries, the tracker and the counts.            *)
LEMMA SameLedger ==
  ASSUME IInv, Owed' = Owed, UNCHANGED <<generation, opened, told, failed>>
  PROVE  Ledger' /\ EpochStep
<1>1. Owed \subseteq Entry
  BY OwedEntries DEF IInv
<1>2. UNCHANGED told /\ UNCHANGED <<opened, generation>>
  OBVIOUS
<1>3. Unique(Owed)' /\ \A f \in Flows : Has(Owed, f) <=> Has(Owed', f)
  BY DEF IInv, Ledger, Unique, Has
<1>4. QED BY <1>1, <1>2, <1>3, ShownLedger, NothingShown DEF IInv

-----------------------------------------------------------------------------
LEMMA InitOK == Init => IInv
<1> SUFFICES ASSUME Init PROVE IInv
  OBVIOUS
<1>1. TypeOK
  BY DEF Init, TypeOK, Labels
<1>2. Owed = {}
  BY DEF Init, Owed
<1>3. Room
  BY FS_EmptySet, TableConstants DEF Init, Room
<1>4. Place /\ Leavers /\ Recency
  BY DEF Init, Place, Leavers, Recency, InHand, Loops, OrderedByActivity
<1>5. Ledger
  BY <1>2 DEF Init, Ledger, Unique, Told, Has
<1>6. QED BY <1>1, <1>3, <1>4, <1>5 DEF IInv

LEMMA ReceiveOK ==
  ASSUME IInv, NEW p \in Packet, Receive(p)
  PROVE  IInv' /\ EpochStep
<1> USE DEF IInv
<1>0. /\ pc = "idle" /\ ~failed /\ failed' = failed /\ packet' = p /\ leaving = {}
      /\ leaving' = {} /\ resume = "idle" /\ Owed = table /\ table \subseteq Entry
      /\ current = None
  BY DEF Receive, TypeOK, Place, Owed, InHand
<1>1. /\ Room' /\ Owed' = Owed /\ Place' /\ table' \subseteq table
      /\ current' \in Entry \cup {None}
      /\ pc' \in {"evict", "finish", "open"} /\ resume' \in {"idle", "open"}
  <2>1. CASE /\ ~Known(p.flow) /\ Full
             /\ \E e \in table :
                   /\ IsFirst(e, table)
                   /\ current' = e /\ table' = table \ {e}
             /\ pc' = "evict" /\ resume' = "open"
    <3>1. PICK e \in table : current' = e /\ table' = table \ {e}
      BY <2>1
    <3>2. IsFiniteSet(table') /\ Cardinality(table') < MaxFlows
      BY <3>1, OneOut, TableConstants DEF Room
    <3>3. Room'
      BY <2>1, <3>2, TableConstants, FS_CardinalityType DEF Room
    <3>4. QED BY <1>0, <2>1, <3>1, <3>3 DEF Owed, Place, InHand, Loops
  <2>2. CASE /\ Known(p.flow) /\ p.syn
             /\ current' = EntryOf(p.flow)
             /\ table' = table \ {EntryOf(p.flow)}
             /\ pc' = "finish" /\ resume' = "open"
    <3>1. EntryOf(p.flow) \in table
      BY <2>2 DEF Known, EntryOf
    <3>2. IsFiniteSet(table') /\ Cardinality(table') < MaxFlows
      BY <2>2, <3>1, OneOut, TableConstants DEF Room
    <3>3. Room'
      BY <2>2, <3>2, TableConstants, FS_CardinalityType DEF Room
    <3>4. QED BY <1>0, <2>2, <3>1, <3>3 DEF Owed, Place, InHand, Loops
  <2>3. CASE /\ IF Known(p.flow) THEN ~p.syn ELSE ~Full
             /\ pc' = "open"
             /\ UNCHANGED <<current, table, resume>>
    <3>1. ~Known(p.flow) => Cardinality(table) < MaxFlows
      BY <2>3, FS_CardinalityType, TableConstants DEF Full, Room
    <3>2. Room'
      BY <1>0, <2>3, <3>1 DEF Room, Known
    <3>3. QED BY <1>0, <2>3, <3>2 DEF Owed, Place, InHand, Loops
  <2>4. QED BY <2>1, <2>2, <2>3 DEF Receive
<1>2. TypeOK'
  BY <1>0, <1>1 DEF TypeOK, Receive, Labels, told
<1>3. Leavers'
  BY <1>0, <1>1 DEF Leavers, Loops
<1>4. Recency'
  BY <1>1 DEF Recency, OrderedByActivity, Receive
<1>5. Ledger' /\ EpochStep
  BY <1>0, <1>1, SameLedger DEF Receive
<1>6. QED BY <1>1, <1>2, <1>3, <1>4, <1>5

LEMMA EvictOK ==
  ASSUME IInv, Evict
  PROVE  IInv' /\ EpochStep
<1> USE DEF IInv
<1>1. CASE pc' = "finish" /\ UNCHANGED <<packet, current, leaving, resume, env>>
  <2>1. Owed' = Owed
    BY <1>1 DEF Evict, Owed
  <2>2. Ledger' /\ EpochStep
    BY <1>1, <2>1, SameLedger DEF Evict, env
  <2>3. TypeOK'
    BY <1>1 DEF TypeOK, Evict, Labels, env, told
  <2>4. Room' /\ Place' /\ Leavers'
    BY <1>1 DEF Room, Place, Leavers, InHand, Loops, Evict, env
  <2>5. Recency'
    BY <1>1 DEF Recency, OrderedByActivity, Evict, env
  <2>6. QED BY <2>2, <2>3, <2>4, <2>5
<1>2. CASE Raises
  BY <1>2, BrokenOff DEF Evict
<1>3. QED BY <1>1, <1>2 DEF Evict

LEMMA FinishFlowOK ==
  ASSUME IInv, FinishFlow
  PROVE  IInv' /\ EpochStep
<1> USE DEF IInv
<1>0. {current} \in SUBSET Owed
  BY DEF Owed, FinishFlow
<1>1. CASE pc' = "notify" /\ UNCHANGED <<packet, current, leaving, resume, env>>
  <2>1. Owed' = Owed
    BY <1>1 DEF FinishFlow, Owed
  <2>2. Owed \subseteq Entry
    BY OwedEntries
  <2>3. /\ Ledger'
        /\ epoch' \in [Flows -> Nat] /\ shut' \in [Flows -> BOOLEAN]
        /\ closed' \in [Flows -> Nat]
        /\ Epochs!Frames
    <3>1. Unique(Owed)' /\ \A f \in Flows : Has(Owed, f) <=> Has(Owed', f)
      BY <2>1 DEF Ledger, Unique, Has
    <3>2. ShowSome({current}) /\ UNCHANGED <<opened, generation>> /\ failed' = failed
      BY <1>1 DEF FinishFlow, env
    <3>3. QED BY <1>0, <2>1, <2>2, <3>1, <3>2, ShownLedger
  <2>4. TypeOK'
    BY <1>1, <2>3 DEF TypeOK, FinishFlow, Labels, env
  <2>5. Room' /\ Place' /\ Leavers'
    BY <1>1 DEF Room, Place, Leavers, InHand, Loops, FinishFlow, env
  <2>6. Recency'
    BY <1>1 DEF Recency, OrderedByActivity, FinishFlow, env
  <2>7. QED BY <2>3, <2>4, <2>5, <2>6 DEF EpochStep
<1>2. CASE Raises
  BY <1>0, <1>2, BrokenOff DEF FinishFlow
<1>3. QED BY <1>1, <1>2 DEF FinishFlow

LEMMA ClosedLedger ==
  ASSUME IInv, NotifyClose, Owed' \subseteq Owed \ {current},
         failed' = TRUE \/ (failed' = failed /\ Owed' = Owed \ {current})
  PROVE  /\ Ledger' /\ EpochStep
         /\ shut' \in [Flows -> BOOLEAN] /\ closed' \in [Flows -> Nat]
<1> USE DEF IInv
<1>1. /\ epoch \in [Flows -> Nat] /\ shut \in [Flows -> BOOLEAN]
      /\ closed \in [Flows -> Nat] /\ opened \in [Flows -> Nat] /\ generation \in Nat
  BY DEF TypeOK
<1>2. current \in Entry /\ current \in Owed /\ Owed \subseteq Entry
  BY OwedEntries DEF Place, InHand, NotifyClose, Owed
<1>3. current.flow \in Flows
  BY <1>2 DEF Entry
<1>4. /\ epoch' = epoch /\ opened' = opened /\ generation' = generation
      /\ shut' = [shut EXCEPT ![current.flow] = TRUE]
      /\ closed' = [closed EXCEPT ![current.flow] = @ + 1]
  BY DEF NotifyClose
<1>5. shut' \in [Flows -> BOOLEAN] /\ closed' \in [Flows -> Nat]
  BY <1>1, <1>3, <1>4
<1>6. ASSUME NEW e \in Owed'
      PROVE  e \in Owed /\ e.flow \in Flows /\ e.flow # current.flow
  BY <1>2, <1>6 DEF Ledger, Unique, Entry
<1>7. \A e \in Owed' : e.gen <= generation' /\ Told(e)'
  <2>1. ASSUME NEW e \in Owed'
        PROVE  e.gen <= generation /\ Told(e) /\ shut'[e.flow] = shut[e.flow]
    BY <1>1, <1>3, <1>4, <1>6 DEF Ledger
  <2>2. QED BY <2>1, <1>4 DEF Told
<1>8. Unique(Owed)'
  BY <1>6 DEF Ledger, Unique
<1>9. ASSUME NEW f \in Flows
      PROVE  /\ epoch'[f] <= generation'
             /\ ~failed' => shut'[f] \/ Has(Owed, f)'
             /\ closed'[f] + (IF Has(Owed, f)' THEN 1 ELSE 0) <= opened'[f]
             /\ ~failed' => closed'[f] + (IF Has(Owed, f)' THEN 1 ELSE 0) = opened'[f]
  <2>1. /\ epoch[f] <= generation
        /\ ~failed => shut[f] \/ Has(Owed, f)
        /\ closed[f] + (IF Has(Owed, f) THEN 1 ELSE 0) <= opened[f]
        /\ ~failed => closed[f] + (IF Has(Owed, f) THEN 1 ELSE 0) = opened[f]
        /\ closed[f] \in Nat /\ opened[f] \in Nat
    BY <1>1 DEF Ledger
  <2>2. CASE f = current.flow
    <3>1. Has(Owed, f) /\ ~Has(Owed, f)'
      BY <1>2, <1>6, <2>2 DEF Has
    <3>2. shut'[f] /\ closed'[f] = closed[f] + 1
      BY <1>1, <1>4, <2>2
    <3>3. ~failed' => ~failed
      OBVIOUS
    <3>4. QED BY <1>4, <2>1, <3>1, <3>2, <3>3
  <2>3. CASE f # current.flow
    <3>1. Has(Owed, f)' => Has(Owed, f)
      BY <1>6 DEF Has
    <3>2. ~failed' => ~failed /\ (Has(Owed, f)' <=> Has(Owed, f))
      BY <2>3 DEF Has
    <3>3. shut'[f] = shut[f] /\ closed'[f] = closed[f]
      BY <1>1, <1>3, <1>4, <2>3
    <3>4. QED BY <1>4, <2>1, <3>1, <3>2, <3>3
  <2>4. QED BY <2>2, <2>3
<1>10. Ledger'
  BY <1>7, <1>8, <1>9 DEF Ledger
<1>11. EpochStep
  BY <1>3, <1>4 DEF EpochStep, Epochs!Close
<1>12. QED BY <1>5, <1>10, <1>11

LEMMA NotifyCloseOK ==
  ASSUME IInv, NotifyClose
  PROVE  IInv' /\ EpochStep
<1> USE DEF IInv
<1>1. /\ pc = "notify" /\ current \notin table \cup leaving
      /\ Owed = table \cup {current} \cup (IF resume = "drain" THEN leaving ELSE {})
      /\ UNCHANGED <<table, generation, moves, opened, epoch>>
      /\ resume \in {"idle", "open", "completed", "expired", "drain"}
  BY DEF NotifyClose, Owed, Place, InHand, TypeOK
<1>2. CASE /\ pc' = resume
           /\ resume' = "idle"
           /\ current' = None
           /\ packet' = IF resume = "open" THEN packet ELSE None
           /\ UNCHANGED <<leaving, env>>
  <2>1. Owed' = table \cup (IF resume = "drain" THEN leaving ELSE {})
    BY <1>1, <1>2 DEF Owed
  <2>2. /\ Ledger' /\ EpochStep
        /\ shut' \in [Flows -> BOOLEAN] /\ closed' \in [Flows -> Nat]
    BY <1>1, <1>2, <2>1, ClosedLedger DEF env
  <2>3. pc' = "idle" => leaving = {}
    BY <1>1, <1>2 DEF Leavers, Loops
  <2>4. TypeOK'
    BY <1>1, <1>2, <2>2, <2>3 DEF TypeOK, Labels, env
  <2>5. Room'
    BY <1>1, <1>2 DEF Room, Known
  <2>6. Place'
    BY <1>1, <1>2 DEF Place, InHand, Loops, env
  <2>7. Leavers'
    BY <1>1, <1>2 DEF Leavers, Loops
  <2>8. Recency'
    BY <1>1, <1>2 DEF Recency, OrderedByActivity, env
  <2>9. QED BY <2>2, <2>4, <2>5, <2>6, <2>7, <2>8
<1>3. CASE Raises
  <2>1. Owed' = table
    BY <1>1, <1>3 DEF Owed, Raises
  <2>2. /\ Ledger' /\ EpochStep
        /\ shut' \in [Flows -> BOOLEAN] /\ closed' \in [Flows -> Nat]
    BY <1>1, <1>3, <2>1, ClosedLedger DEF Raises
  <2>3. TypeOK'
    BY <1>1, <1>3, <2>2 DEF TypeOK, Raises, Labels
  <2>4. Room' /\ Place' /\ Leavers'
    BY <1>1, <1>3 DEF Room, Place, Leavers, InHand, Loops, Raises, Known
  <2>5. Recency'
    BY <1>1, <1>3 DEF Recency, OrderedByActivity, Raises
  <2>6. QED BY <2>2, <2>3, <2>4, <2>5
<1>4. QED BY <1>2, <1>3 DEF NotifyClose

LEMMA OpenFlowOK ==
  ASSUME IInv, OpenFlow
  PROVE  IInv' /\ EpochStep
<1> USE DEF IInv
<1>1. /\ pc = "open" /\ pc' = "segment" /\ ~failed /\ resume = "idle" /\ leaving = {}
      /\ packet \in Packet /\ packet.flow \in Flows /\ moves' = moves + 1 /\ moves \in Nat
      /\ clock \in Nat /\ generation \in Nat /\ table \subseteq Entry
      /\ UNCHANGED <<packet, leaving, resume, env, told>>
      /\ Owed = table
  BY DEF OpenFlow, Place, Leavers, Loops, InHand, TypeOK, Packet, Owed
<1>2. Owed' = table'
  BY <1>1 DEF Owed
<1>3. CASE Known(packet.flow)
  <2> DEFINE e == EntryOf(packet.flow)
  <2>1. e \in table /\ e.flow = packet.flow
    BY <1>3 DEF Known, EntryOf
  <2>2. /\ current' = [e EXCEPT !.last = clock, !.rank = moves']
        /\ table' = (table \ {e}) \cup {current'}
        /\ UNCHANGED <<generation, opened>>
    BY <1>3 DEF OpenFlow, Touch
  <2> HIDE DEF e
  <2>3. e \in Entry
    BY <1>1, <2>1
  <2>4. /\ current' \in Entry /\ current'.flow = e.flow /\ current'.gen = e.gen
        /\ current'.rank = moves' /\ current'.last = clock
    <3>1. moves' \in Nat
      BY <1>1
    <3>2. [e EXCEPT !.last = clock, !.rank = moves'] \in Entry
      BY <1>1, <2>3, <3>1 DEF Entry
    <3>3. QED BY <1>1, <2>2, <2>3, <3>2 DEF Entry
  <2>5. Room'
    BY <1>1, <2>1, <2>2, OneOut, TableConstants DEF Room
  <2>6. Ledger' /\ EpochStep
    <3>1. Unique(Owed)'
      <4>1. \A d \in table : d.flow = e.flow => d = e
        BY <1>1, <2>1 DEF Ledger, Unique
      <4>2. \A d \in Owed' : d = current' \/ (d \in table /\ d.flow # e.flow)
        BY <1>2, <2>2, <4>1
      <4>3. QED BY <1>1, <2>4, <4>2 DEF Ledger, Unique
    <3>2. \A d \in Owed' : \E b \in Owed : b.flow = d.flow /\ b.gen = d.gen
      BY <1>1, <1>2, <2>1, <2>2, <2>4
    <3>3. \A f \in Flows : Has(Owed, f) <=> Has(Owed', f)
      BY <1>1, <1>2, <2>1, <2>2, <2>4 DEF Has
    <3>4. Owed \subseteq Entry /\ UNCHANGED told /\ failed' = failed
          /\ UNCHANGED <<opened, generation>>
      BY <1>1, <2>2 DEF env
    <3>5. QED BY <3>1, <3>2, <3>3, <3>4, ShownLedger, NothingShown
  <2>7. TypeOK'
    BY <1>1, <2>2, <2>4 DEF TypeOK, Labels, env, told
  <2>8. Place' /\ Leavers'
    BY <1>1, <2>2 DEF Place, Leavers, InHand, Loops, env
  <2>9. Recency'
    <3>1. \A d \in table : d.rank <= moves /\ d.last <= clock /\ d.rank \in Nat
      BY <1>1 DEF Recency, Entry
    <3>2. \A d \in table' : d \in table \/ d = current'
      BY <2>2
    <3>3. QED BY <1>1, <2>4, <3>1, <3>2 DEF Recency, OrderedByActivity, env
  <2>10. QED BY <2>5, <2>6, <2>7, <2>8, <2>9
<1>4. CASE ~Known(packet.flow)
  <2>1. /\ current' = [flow |-> packet.flow, gen |-> generation', rank |-> moves',
                       last |-> clock, fin |-> FALSE]
        /\ generation' = generation + 1
        /\ table' = table \cup {current'}
        /\ opened' = [opened EXCEPT ![packet.flow] = @ + 1]
    BY <1>4 DEF OpenFlow
  <2>2. /\ current' \in Entry /\ current'.flow = packet.flow
        /\ current'.gen = generation + 1
        /\ current'.rank = moves' /\ current'.last = clock
    BY <1>1, <2>1 DEF Entry
  <2>3. \A d \in table : d.flow # packet.flow
    BY <1>4 DEF Known
  <2>4. Room'
    <3>1. IsFiniteSet(table) /\ Cardinality(table) < MaxFlows /\ Cardinality(table) \in Nat
      BY <1>1, <1>4, FS_CardinalityType DEF Room
    <3>2. /\ IsFiniteSet(table')
          /\ \/ Cardinality(table') = Cardinality(table)
             \/ Cardinality(table') = Cardinality(table) + 1
      BY <2>1, <3>1, FS_AddElement
    <3>3. QED BY <1>1, <3>1, <3>2, TableConstants DEF Room
  <2>5. Ledger'
    <3>1. /\ epoch \in [Flows -> Nat] /\ shut \in [Flows -> BOOLEAN]
          /\ closed \in [Flows -> Nat] /\ opened \in [Flows -> Nat]
      BY DEF TypeOK
    <3>2. Unique(Owed)'
      <4>1. \A d \in Owed' : d = current' \/ (d \in table /\ d.flow # packet.flow)
        BY <1>2, <2>1, <2>3
      <4>2. QED BY <1>1, <2>2, <4>1 DEF Ledger, Unique
    <3>3. \A d \in table : d.gen <= generation /\ Told(d) /\ d.gen \in Nat
      BY <1>1 DEF Ledger, Entry
    <3>4. epoch[packet.flow] <= generation /\ shut[packet.flow]
      BY <1>1, <2>3 DEF Ledger, Has
    <3>5. \A d \in Owed' : d.gen <= generation' /\ Told(d)'
      <4>1. ASSUME NEW d \in table
            PROVE  d.gen <= generation' /\ Told(d)'
        BY <1>1, <2>1, <3>3 DEF Told, told
      <4>2. current'.gen <= generation'
        BY <1>1, <2>1, <2>2
      <4>3. /\ epoch'[packet.flow] < generation + 1 /\ shut'[packet.flow]
        BY <1>1, <3>1, <3>4 DEF told
      <4>4. QED BY <1>2, <2>1, <2>2, <4>1, <4>2, <4>3 DEF Told
    <3>6. ASSUME NEW f \in Flows
          PROVE  /\ epoch'[f] <= generation'
                 /\ ~failed' => shut'[f] \/ Has(Owed, f)'
                 /\ closed'[f] + (IF Has(Owed, f)' THEN 1 ELSE 0) <= opened'[f]
                 /\ ~failed' => closed'[f] + (IF Has(Owed, f)' THEN 1 ELSE 0) = opened'[f]
      <4>1. /\ epoch[f] <= generation /\ epoch[f] \in Nat
            /\ shut[f] \/ Has(Owed, f)
            /\ closed[f] + (IF Has(Owed, f) THEN 1 ELSE 0) = opened[f]
            /\ closed[f] \in Nat /\ opened[f] \in Nat
        BY <1>1, <3>1 DEF Ledger
      <4>2. epoch' = epoch /\ shut' = shut /\ closed' = closed
        BY <1>1 DEF told
      <4>3. CASE f = packet.flow
        <5>1. ~Has(Owed, f) /\ Has(Owed, f)' /\ opened'[f] = opened[f] + 1
          BY <1>1, <1>2, <2>1, <2>2, <2>3, <3>1, <4>3 DEF Has
        <5>2. QED BY <1>1, <2>1, <4>1, <4>2, <5>1
      <4>4. CASE f # packet.flow
        <5>1. (Has(Owed, f)' <=> Has(Owed, f)) /\ opened'[f] = opened[f]
          BY <1>1, <1>2, <2>1, <2>2, <3>1, <4>4 DEF Has
        <5>2. QED BY <1>1, <2>1, <4>1, <4>2, <5>1
      <4>5. QED BY <4>3, <4>4
    <3>7. QED BY <3>2, <3>5, <3>6 DEF Ledger
  <2>6. TypeOK'
    <3>1. opened' \in [Flows -> Nat] /\ generation' \in Nat
      BY <1>1, <2>1 DEF TypeOK
    <3>2. moves' \in Nat
      BY <1>1
    <3>3. table' \subseteq Entry
      BY <1>1, <2>1, <2>2
    <3>4. UNCHANGED <<leaving, resume, packet, clock, packets, raises, failed,
                      closed, epoch, shut>>
      BY <1>1 DEF env, told
    <3>5. QED BY <1>1, <2>2, <3>1, <3>2, <3>3, <3>4 DEF TypeOK, Labels
  <2>7. Place' /\ Leavers'
    BY <1>1, <2>1 DEF Place, Leavers, InHand, Loops, env
  <2>8. Recency'
    <3>1. \A d \in table : d.rank <= moves /\ d.last <= clock /\ d.rank \in Nat
      BY <1>1 DEF Recency, Entry
    <3>2. QED BY <1>1, <2>1, <2>2, <3>1 DEF Recency, OrderedByActivity, env
  <2>9. EpochStep
    BY <1>1, NothingShown
  <2>10. QED BY <2>4, <2>5, <2>6, <2>7, <2>8, <2>9
<1>5. QED BY <1>3, <1>4

LEMMA AddSegmentOK ==
  ASSUME IInv, AddSegment
  PROVE  IInv' /\ EpochStep
<1> USE DEF IInv
<1>1. /\ pc = "segment" /\ ~failed /\ resume = "idle" /\ leaving = {}
      /\ packet \in Packet /\ current \in table /\ current \in Entry
      /\ table \subseteq Entry /\ Owed = table
      /\ ShowSome({current}) \/ UNCHANGED told
      /\ UNCHANGED <<generation, moves, opened>>
  BY DEF AddSegment, Place, Leavers, Loops, InHand, TypeOK, Owed
<1>2. {current} \in SUBSET Owed
  BY <1>1
<1>3. CASE \E x \in Entry :
              /\ x.flow = current.flow /\ x.gen = current.gen
              /\ x.rank = current.rank /\ x.last = current.last
              /\ table' = (table \ {current}) \cup {x}
              /\ \/ pc' = "closeOwn" /\ current' = x /\ packet' = packet
                 \/ pc' = "idle" /\ current' = None /\ packet' = None
              /\ UNCHANGED <<leaving, resume, env>>
  <2>1. PICK x \in Entry :
              /\ x.flow = current.flow /\ x.gen = current.gen
              /\ x.rank = current.rank /\ x.last = current.last
              /\ table' = (table \ {current}) \cup {x}
              /\ \/ pc' = "closeOwn" /\ current' = x /\ packet' = packet
                 \/ pc' = "idle" /\ current' = None /\ packet' = None
              /\ UNCHANGED <<leaving, resume, env>>
    BY <1>3
  <2>2. Owed' = table'
    BY <1>1, <2>1 DEF Owed
  <2>3. /\ Ledger'
        /\ epoch' \in [Flows -> Nat] /\ shut' \in [Flows -> BOOLEAN]
        /\ closed' \in [Flows -> Nat]
        /\ Epochs!Frames
    <3>1. Unique(Owed)'
      BY <1>1, <2>1, <2>2 DEF Ledger, Unique
    <3>2. \A d \in Owed' : \E b \in Owed : b.flow = d.flow /\ b.gen = d.gen
      BY <1>1, <2>1, <2>2
    <3>3. \A f \in Flows : Has(Owed, f) <=> Has(Owed', f)
      BY <1>1, <2>1, <2>2 DEF Has
    <3>4. Owed \subseteq Entry /\ failed' = failed
          /\ UNCHANGED <<opened, generation>>
      BY <1>1, <2>1 DEF env
    <3>5. QED BY <1>1, <1>2, <3>1, <3>2, <3>3, <3>4, ShownLedger
  <2>4. TypeOK'
    BY <1>1, <2>1, <2>3 DEF TypeOK, Labels, env
  <2>5. Room'
    BY <1>1, <2>1, OneOut, TableConstants DEF Room
  <2>6. Place' /\ Leavers'
    BY <1>1, <2>1 DEF Place, Leavers, InHand, Loops, env
  <2>7. Recency'
    <3>1. \A d \in table' : \E b \in table : b.rank = d.rank /\ b.last = d.last
      BY <1>1, <2>1
    <3>2. QED BY <1>1, <2>1, <3>1 DEF Recency, OrderedByActivity, env
  <2>8. QED BY <2>3, <2>4, <2>5, <2>6, <2>7 DEF EpochStep
<1>4. CASE Raises /\ UNCHANGED table
  BY <1>1, <1>2, <1>4, BrokenOff
<1>5. CASE /\ pc' = "closeOwn"
           /\ UNCHANGED <<table, current, packet, leaving, resume, env>>
  <2>1. table' = (table \ {current}) \cup {current}
    BY <1>1, <1>5
  <2>2. QED BY <1>1, <1>3, <1>5, <2>1
<1>6. CASE /\ current' = [current EXCEPT !.fin = TRUE]
           /\ table' = (table \ {current}) \cup {current'}
           /\ pc' = "closeOwn"
           /\ UNCHANGED <<packet, leaving, resume, env>>
  <2>1. /\ current' \in Entry
        /\ current'.flow = current.flow /\ current'.gen = current.gen
        /\ current'.rank = current.rank /\ current'.last = current.last
    BY <1>1, <1>6 DEF Entry
  <2>2. QED BY <1>3, <1>6, <2>1
<1>7. CASE /\ table' = (table \ {current})
                          \cup {[current EXCEPT !.fin = @ \/ packet.fin]}
           /\ pc' = "idle" /\ packet' = None /\ current' = None
           /\ UNCHANGED <<leaving, resume, env>>
  <2> DEFINE x == [current EXCEPT !.fin = @ \/ packet.fin]
  <2>1. /\ x \in Entry /\ x.flow = current.flow /\ x.gen = current.gen
        /\ x.rank = current.rank /\ x.last = current.last
    BY <1>1 DEF Entry, Packet
  <2>2. table' = (table \ {current}) \cup {x}
    BY <1>7
  <2> HIDE DEF x
  <2>3. QED BY <1>3, <1>7, <2>1, <2>2
<1>8. QED BY <1>4, <1>5, <1>6, <1>7 DEF AddSegment

LEMMA CloseOwnOK ==
  ASSUME IInv, CloseOwn
  PROVE  IInv' /\ EpochStep
<1> USE DEF IInv
<1>1. /\ pc = "closeOwn" /\ ~failed /\ resume = "idle" /\ leaving = {}
      /\ packet \in Packet /\ current \in table /\ current \in Entry
      /\ table \subseteq Entry /\ Owed = table
      /\ UNCHANGED <<generation, moves, opened>>
  BY DEF CloseOwn, Place, Leavers, Loops, InHand, TypeOK, Owed
<1>2. {current} \in SUBSET Owed /\ ShowSome({current})
  BY <1>1 DEF CloseOwn
<1>3. CASE /\ table' = table \ {current}
           /\ pc' = "notify"
           /\ UNCHANGED <<packet, current, leaving, resume, env>>
  <2>1. Owed' = Owed
    BY <1>1, <1>3 DEF Owed
  <2>2. /\ Ledger'
        /\ epoch' \in [Flows -> Nat] /\ shut' \in [Flows -> BOOLEAN]
        /\ closed' \in [Flows -> Nat]
        /\ Epochs!Frames
    <3>1. Unique(Owed)' /\ \A f \in Flows : Has(Owed, f) <=> Has(Owed', f)
      BY <2>1 DEF Ledger, Unique, Has
    <3>2. Owed \subseteq Entry /\ UNCHANGED <<opened, generation>> /\ failed' = failed
      BY <1>1, <1>3 DEF env
    <3>3. QED BY <1>2, <2>1, <3>1, <3>2, ShownLedger
  <2>3. TypeOK'
    BY <1>1, <1>3, <2>2 DEF TypeOK, Labels, env
  <2>4. Room'
    <3>1. IsFiniteSet(table') /\ Cardinality(table') < MaxFlows
      BY <1>1, <1>3, OneOut, TableConstants DEF Room
    <3>2. Cardinality(table') \in Nat
      BY <3>1, FS_CardinalityType
    <3>3. QED BY <1>1, <1>3, <3>1, <3>2, TableConstants DEF Room
  <2>5. Place' /\ Leavers'
    BY <1>1, <1>3 DEF Place, Leavers, InHand, Loops, env
  <2>6. Recency'
    BY <1>1, <1>3 DEF Recency, OrderedByActivity, env
  <2>7. QED BY <2>2, <2>3, <2>4, <2>5, <2>6 DEF EpochStep
<1>4. CASE Raises /\ UNCHANGED table
  BY <1>1, <1>2, <1>4, BrokenOff
<1>5. QED BY <1>3, <1>4 DEF CloseOwn

LEMMA ServiceGapsOK ==
  ASSUME IInv, ServiceGaps
  PROVE  IInv' /\ EpochStep
<1> USE DEF IInv
<1>1. /\ pc = "idle" /\ ~failed /\ resume = "idle" /\ leaving = {} /\ Owed = table
      /\ table \subseteq Entry /\ packet = None /\ current = None
      /\ UNCHANGED <<table, generation, moves, opened>>
  BY DEF ServiceGaps, Place, TypeOK, InHand, Owed
<1>2. table \in SUBSET Owed /\ ShowSome(table)
  BY <1>1 DEF ServiceGaps
<1>3. CASE /\ pc' = "completed"
           /\ leaving' \in SUBSET {e \in table : e.fin}
           /\ UNCHANGED <<packet, current, resume, env>>
  <2>1. Owed' = Owed
    BY <1>1, <1>3 DEF Owed
  <2>2. /\ Ledger'
        /\ epoch' \in [Flows -> Nat] /\ shut' \in [Flows -> BOOLEAN]
        /\ closed' \in [Flows -> Nat]
        /\ Epochs!Frames
    <3>1. Unique(Owed)' /\ \A f \in Flows : Has(Owed, f) <=> Has(Owed', f)
      BY <2>1 DEF Ledger, Unique, Has
    <3>2. Owed \subseteq Entry /\ UNCHANGED <<opened, generation>> /\ failed' = failed
      BY <1>1, <1>3 DEF env
    <3>3. QED BY <1>2, <2>1, <3>1, <3>2, ShownLedger
  <2>3. TypeOK'
    BY <1>1, <1>3, <2>2 DEF TypeOK, Labels, env
  <2>4. Room' /\ Place' /\ Leavers'
    BY <1>1, <1>3 DEF Room, Place, Leavers, InHand, Loops, env
  <2>5. Recency'
    BY <1>1, <1>3 DEF Recency, OrderedByActivity, env
  <2>6. QED BY <2>2, <2>3, <2>4, <2>5 DEF EpochStep
<1>4. CASE Raises
  BY <1>1, <1>2, <1>4, BrokenOff
<1>5. QED BY <1>3, <1>4 DEF ServiceGaps

LEMMA CloseNextOK ==
  ASSUME IInv, CloseNext
  PROVE  IInv' /\ EpochStep
<1> USE DEF IInv
<1>1. PICK e \in leaving : current' = e /\ leaving' = leaving \ {e} /\ table' = table \ {e}
  BY DEF CloseNext
<1>2. /\ pc \in Loops /\ pc' = "finish" /\ resume' = pc /\ resume = "idle"
      /\ table \subseteq Entry /\ leaving \subseteq Entry
      /\ UNCHANGED <<generation, moves, packet, env, opened, told>>
      /\ packet = None /\ failed' = failed
  BY DEF CloseNext, Loops, Place, InHand, TypeOK, env
<1>3. Owed' = Owed
  <2>1. CASE pc = "drain"
    BY <1>1, <1>2, <2>1 DEF Owed, Leavers
  <2>2. CASE pc # "drain"
    BY <1>1, <1>2, <2>2 DEF Owed, Leavers, Loops
  <2>3. QED BY <2>1, <2>2
<1>4. Ledger' /\ EpochStep
  BY <1>2, <1>3, SameLedger DEF env
<1>5. TypeOK'
  BY <1>1, <1>2 DEF TypeOK, Labels, Loops, env, told
<1>6. Room'
  <2>1. CASE e \in table
    <3>1. IsFiniteSet(table') /\ Cardinality(table') < MaxFlows
      BY <1>1, <2>1, OneOut, TableConstants DEF Room
    <3>2. Cardinality(table') \in Nat
      BY <3>1, FS_CardinalityType
    <3>3. QED BY <3>1, <3>2, TableConstants DEF Room
  <2>2. CASE e \notin table
    BY <1>1, <1>2, <2>2 DEF Room, Loops
  <2>3. QED BY <2>1, <2>2
<1>7. Place'
  BY <1>1, <1>2 DEF Place, InHand, Loops
<1>8. Leavers'
  BY <1>1, <1>2 DEF Leavers, Loops
<1>9. Recency'
  BY <1>1, <1>2 DEF Recency, OrderedByActivity, env
<1>10. QED BY <1>4, <1>5, <1>6, <1>7, <1>8, <1>9

LEMMA CloseDoneOK ==
  ASSUME IInv, CloseDone
  PROVE  IInv' /\ EpochStep
<1> USE DEF IInv
<1>1. /\ pc \in Loops /\ leaving = {} /\ resume = "idle"
      /\ packet = None /\ current = None
      /\ UNCHANGED <<table, generation, moves, packet, current, resume, env, opened, told>>
      /\ \/ pc = "completed" /\ pc' = "expired" /\ leaving' = IdleExpired
         \/ pc # "completed" /\ pc' = "idle" /\ leaving' = leaving
      /\ IdleExpired \subseteq table
  BY DEF CloseDone, Place, InHand, Loops, IdleExpired
<1>2. Owed' = Owed
  BY <1>1 DEF Owed, Loops
<1>3. Ledger' /\ EpochStep
  BY <1>1, <1>2, SameLedger DEF env
<1>4. TypeOK'
  BY <1>1 DEF TypeOK, Labels, env, told
<1>5. Room' /\ Place' /\ Leavers'
  BY <1>1 DEF Room, Place, Leavers, InHand, Loops, env
<1>6. Recency'
  BY <1>1 DEF Recency, OrderedByActivity, env
<1>7. QED BY <1>3, <1>4, <1>5, <1>6

LEMMA FinishOK ==
  ASSUME IInv, Finish
  PROVE  IInv' /\ EpochStep
<1> USE DEF IInv
<1>1. /\ pc = "idle" /\ resume = "idle" /\ leaving = {} /\ packet = None /\ current = None
      /\ leaving' = table /\ table' = {} /\ pc' = "drain"
      /\ UNCHANGED <<generation, moves, packet, current, resume, env, opened, told>>
  BY DEF Finish, Place, InHand, TypeOK
<1>2. Owed' = Owed
  BY <1>1 DEF Owed
<1>3. Ledger' /\ EpochStep
  BY <1>1, <1>2, SameLedger DEF env
<1>4. TypeOK'
  BY <1>1 DEF TypeOK, Labels, env, told
<1>5. Room'
  BY <1>1, FS_EmptySet, TableConstants DEF Room
<1>6. Place' /\ Leavers'
  BY <1>1 DEF Place, Leavers, InHand, Loops, env
<1>7. Recency'
  BY <1>1 DEF Recency, OrderedByActivity, env
<1>8. QED BY <1>3, <1>4, <1>5, <1>6, <1>7

LEMMA TickOK ==
  ASSUME IInv, Tick
  PROVE  IInv' /\ EpochStep
<1> USE DEF IInv
<1>1. /\ pc = "idle" /\ clock' = clock + 1 /\ clock \in Nat /\ table \subseteq Entry
      /\ UNCHANGED <<table, generation, moves, control, packets, raises, failed, opened, told>>
  BY DEF Tick, TypeOK
<1>2. Owed' = Owed
  BY <1>1 DEF Owed, control
<1>3. Ledger' /\ EpochStep
  BY <1>1, <1>2, SameLedger
<1>4. TypeOK'
  BY <1>1 DEF TypeOK, Labels, control, told
<1>5. Room' /\ Place' /\ Leavers'
  BY <1>1 DEF Room, Place, Leavers, InHand, Loops, control, Known
<1>6. Recency'
  <2>1. \A e \in table : e.last \in Nat
    BY <1>1 DEF Entry
  <2>2. QED BY <1>1, <2>1 DEF Recency, OrderedByActivity
<1>7. QED BY <1>3, <1>4, <1>5, <1>6

LEMMA UnchangedOK ==
  ASSUME IInv, UNCHANGED vars
  PROVE  IInv'
BY DEF IInv, TypeOK, Labels, Room, Known, Place, InHand, Leavers, Loops, Recency,
       OrderedByActivity, Ledger, Owed, Unique, Told, Has, vars, control, env, told

-----------------------------------------------------------------------------
(* Every step keeps the invariant and is a step of the tracker's contract,  *)
(* or changes nothing.                                                      *)
LEMMA NextOK ==
  ASSUME IInv, [Next]_vars
  PROVE  IInv' /\ (EpochStep \/ UNCHANGED Epochs!vars)
<1>1. CASE \E p \in Packet : Receive(p)
  BY <1>1, ReceiveOK
<1>2. CASE Operation
  BY <1>2, EvictOK, FinishFlowOK, NotifyCloseOK, OpenFlowOK, AddSegmentOK,
     CloseOwnOK, CloseNextOK, CloseDoneOK DEF Operation
<1>3. CASE ServiceGaps
  BY <1>3, ServiceGapsOK
<1>4. CASE Finish
  BY <1>4, FinishOK
<1>5. CASE Tick
  BY <1>5, TickOK
<1>6. CASE UNCHANGED vars
  BY <1>6, UnchangedOK DEF vars, told, Epochs!vars
<1>7. QED BY <1>1, <1>2, <1>3, <1>4, <1>5, <1>6 DEF Next, Stopped

LEMMA Invariance == Spec => []IInv
<1>1. IInv /\ [Next]_vars => IInv'
  BY NextOK
<1>2. QED BY InitOK, <1>1, PTL DEF Spec

(* Types hold, and no operation of the table ends with something in hand,   *)
(* not even one that a callback of a scanner or tracker broke off.          *)
THEOREM TableTypeOK == Spec => []TypeOK
<1>1. IInv => TypeOK
  BY DEF IInv
<1>2. QED BY Invariance, <1>1, PTL

(* _get_or_create_state never lets the table outgrow max_flows, and keeps   *)
(* one state for each flow.                                                 *)
THEOREM TableWithinLimit == Spec => []WithinMaxFlows
<1>1. ASSUME IInv
      PROVE  WithinMaxFlows
  <2>1. table \subseteq Owed
    BY <1>1, OwedEntries DEF IInv
  <2>2. QED BY <1>1, <2>1 DEF IInv, Room, Ledger, Unique, WithinMaxFlows
<1>2. QED BY Invariance, <1>1, PTL

(* move_to_end keeps the table in the order of activity, so that popitem    *)
(* evicts a flow that was silent longest.                                   *)
THEOREM TableOrdered == Spec => []OrderedByActivity
<1>1. IInv => OrderedByActivity
  BY DEF IInv, Recency
<1>2. QED BY Invariance, <1>1, PTL

(* _notify_flow_close runs exactly once for each flow that was opened and   *)
(* ended, and never more often, even after a callback raised.               *)
THEOREM FlowsClosedOnce == Spec => []ClosedOnce
<1>1. ASSUME IInv
      PROVE  ClosedOnce
  <2>1. ASSUME NEW f \in Flows
        PROVE  /\ closed[f] <= opened[f]
               /\ ~failed => opened[f] - closed[f] = IF Has(Owed, f) THEN 1 ELSE 0
    <3>1. closed[f] \in Nat /\ opened[f] \in Nat
      BY <1>1 DEF IInv, TypeOK
    <3>2. /\ closed[f] + (IF Has(Owed, f) THEN 1 ELSE 0) <= opened[f]
          /\ ~failed => closed[f] + (IF Has(Owed, f) THEN 1 ELSE 0) = opened[f]
      BY <1>1 DEF IInv, Ledger
    <3>3. QED BY <3>1, <3>2
  <2>2. QED BY <2>1 DEF ClosedOnce, Has
<1>2. QED BY Invariance, <1>1, PTL

(* A tracker that is told nothing more of a flow knows it as closed.        *)
THEOREM GoneFlowsTold == Spec => []GoneIsTold
<1>1. ASSUME IInv
      PROVE  GoneIsTold
  <2>1. SUFFICES ASSUME pc = "idle", ~failed, NEW f \in Flows
                 PROVE  Known(f) \/ shut[f]
    BY DEF GoneIsTold
  <2>2. Owed = table
    BY <1>1, <2>1 DEF IInv, TypeOK, Owed
  <2>3. QED BY <1>1, <2>1, <2>2 DEF IInv, Ledger, Has, Known
<1>2. QED BY Invariance, <1>1, PTL

(* The table implements the contract of its trackers: on each flow, frames  *)
(* come in epochs that never interleave and never come back.                *)
THEOREM TableRefinesEpochs == Spec => TrackerContract
<1>1. Init => Epochs!Init
  BY DEF Init, Epochs!Init
<1>2. IInv /\ [Next]_vars
        => [Epochs!Frames \/ \E f \in Flows : Epochs!Close(f)]_Epochs!vars
  BY NextOK DEF EpochStep
<1>3. QED BY Invariance, <1>1, <1>2, PTL DEF Spec, TrackerContract, Epochs!Spec

=============================================================================
