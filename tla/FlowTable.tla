------------------------------ MODULE FlowTable ------------------------------
(***************************************************************************)
(* FlowManager of _reassembly.py: the table of the flows of one capture.   *)
(* Every public operation runs under one lock and calls out to scanners    *)
(* and trackers, any of which may raise and end the operation where it is; *)
(* so an operation is a sequence of steps here, one for each call out.     *)
(* What a flow does with its bytes is in TcpFlow; here a flow is known by  *)
(* its FIN, and may have frames to show whenever it is given bytes, its    *)
(* gaps are serviced or it is finished.                                    *)
(***************************************************************************)
EXTENDS Integers, FiniteSets

CONSTANTS
    Flows,         \* the keys of flows that use a server port
    MaxFlows,      \* max_flows
    IdleTimeout,   \* idle_timeout, in ticks, or None
    MaxPackets,    \* bound: packets
    MaxRaises,     \* bound: callbacks that raise
    MaxClock,      \* bound: packets arrive up to this time
    Horizon,       \* bound: the clock stops here
    None

ASSUME TableConstants ==
    /\ IsFiniteSet(Flows)
    /\ MaxFlows \in Nat \ {0}
    /\ IdleTimeout \in (Nat \ {0}) \cup {None}
    /\ MaxPackets \in Nat /\ MaxRaises \in Nat /\ MaxClock \in Nat /\ Horizon \in Nat
    /\ None \notin Nat

VARIABLES
    table,         \* _flows: its entries; the map's order is that of `rank`
    generation,    \* _next_flow_generation
    moves,         \* calls of move_to_end
    pc,            \* where the running operation is
    packet,        \* the packet in hand
    current,       \* the entry in hand
    leaving,       \* the entries the operation has still to close
    resume,        \* where it goes on after a close notification
    clock, packets, raises,
    failed,        \* history: a callback raised; owners then only finish
    opened, closed,\* history: generations opened and closed, by flow
    epoch, shut    \* history: what a tracker has been told (FlowEpochs)

control == <<pc, packet, current, leaving, resume>>
env == <<clock, packets, raises, failed>>
told == <<closed, epoch, shut>>
vars == <<table, generation, moves, control, env, opened, told>>

Entry == [flow : Flows, gen : Nat, rank : Nat, last : Nat, fin : BOOLEAN]
Packet == [flow : Flows, payload : BOOLEAN, syn : BOOLEAN, rst : BOOLEAN, fin : BOOLEAN]

Known(f) == \E e \in table : e.flow = f
EntryOf(f) == CHOOSE e \in table : e.flow = f
IsFirst(e, S) == \A d \in S : e.rank <= d.rank

(***************************************************************************)
(* Beside a definition stands a plausible bug of it, named for its fault   *)
(* and used by no action.                                                  *)
(***************************************************************************)
FullOneLate == Cardinality(table) > MaxFlows
Full == Cardinality(table) >= MaxFlows

-----------------------------------------------------------------------------
Init ==
    /\ table = {} /\ generation = 0 /\ moves = 0
    /\ pc = "idle" /\ packet = None /\ current = None
    /\ leaving = {} /\ resume = "idle"
    /\ clock = 0 /\ packets = 0 /\ raises = 0 /\ failed = FALSE
    /\ opened = [f \in Flows |-> 0] /\ closed = [f \in Flows |-> 0]
    /\ epoch = [f \in Flows |-> 0] /\ shut = [f \in Flows |-> TRUE]

(* A callback raises: the operation ends with what it has done so far.      *)
Raises ==
    /\ raises < MaxRaises /\ raises' = raises + 1
    /\ failed' = TRUE
    /\ pc' = "idle" /\ packet' = None /\ current' = None
    /\ leaving' = {} /\ resume' = "idle"
    /\ UNCHANGED <<clock, packets>>

(* The flows of the entries S show frames, with their generations.          *)
Show(S) ==
    /\ epoch' = [f \in Flows |-> IF \E e \in S : e.flow = f
                                 THEN (CHOOSE e \in S : e.flow = f).gen ELSE epoch[f]]
    /\ shut' = [f \in Flows |-> shut[f] /\ ~\E e \in S : e.flow = f]
    /\ UNCHANGED closed

ShowSome(S) == \E shown \in SUBSET S : Show(shown)

-----------------------------------------------------------------------------
(* process_tcp_segment, up to its first call out.  A packet that cannot     *)
(* contribute bytes to an unknown flow changes nothing.                     *)
Receive(p) ==
    /\ pc = "idle" /\ ~failed
    /\ packets < MaxPackets /\ clock <= MaxClock
    /\ Known(p.flow) \/ p.payload \/ p.syn
    /\ packets' = packets + 1
    /\ packet' = p
    /\ \/ /\ ~Known(p.flow) /\ Full
          /\ \E e \in table :
                /\ IsFirst(e, table)
                /\ current' = e /\ table' = table \ {e}
          /\ pc' = "evict" /\ resume' = "open"
       \/ /\ Known(p.flow) /\ p.syn
          /\ current' = EntryOf(p.flow)
          /\ table' = table \ {EntryOf(p.flow)}
          /\ pc' = "finish" /\ resume' = "open"
       \/ /\ IF Known(p.flow) THEN ~p.syn ELSE ~Full
          /\ pc' = "open"
          /\ UNCHANGED <<current, table, resume>>
    /\ UNCHANGED <<generation, moves, leaving, clock, raises, failed, opened, told>>

(* on_flow_eviction: a count, or an owner that refuses the loss.            *)
Evict ==
    /\ pc = "evict"
    /\ \/ pc' = "finish" /\ UNCHANGED <<packet, current, leaving, resume, env>>
       \/ Raises
    /\ UNCHANGED <<table, generation, moves, opened, told>>

(* finish() of an entry that is out of the table.                           *)
FinishFlow ==
    /\ pc = "finish"
    /\ ShowSome({current})
    /\ \/ pc' = "notify" /\ UNCHANGED <<packet, current, leaving, resume, env>>
       \/ Raises
    /\ UNCHANGED <<table, generation, moves, opened>>

(* _notify_flow_close.                                                      *)
NotifyClose ==
    /\ pc = "notify"
    /\ shut' = [shut EXCEPT ![current.flow] = TRUE]
    /\ closed' = [closed EXCEPT ![current.flow] = @ + 1]
    /\ \/ /\ pc' = resume
          /\ resume' = "idle"
          /\ current' = None
          /\ packet' = IF resume = "open" THEN packet ELSE None
          /\ UNCHANGED <<leaving, env>>
       \/ Raises
    /\ UNCHANGED <<table, generation, moves, opened, epoch>>

(* last_activity_at and move_to_end                                         *)
Touch(e) == [e EXCEPT !.last = clock, !.rank = moves']

OpenWithOldGeneration ==
    /\ pc = "open" /\ pc' = "segment"
    /\ moves' = moves + 1
    /\ current' = IF Known(packet.flow) THEN Touch(EntryOf(packet.flow))
                  ELSE [flow |-> packet.flow, gen |-> 1, rank |-> moves',
                        last |-> clock, fin |-> FALSE]
    /\ table' = {e \in table : e.flow # packet.flow} \cup {current'}
    /\ opened' = IF Known(packet.flow) THEN opened
                 ELSE [opened EXCEPT ![packet.flow] = @ + 1]
    /\ UNCHANGED <<generation, packet, leaving, resume, env, told>>

(* The state of the packet's flow, which is new or becomes the most recent. *)
OpenFlow ==
    /\ pc = "open"
    /\ moves' = moves + 1
    /\ IF Known(packet.flow)
       THEN /\ current' = Touch(EntryOf(packet.flow))
            /\ table' = (table \ {EntryOf(packet.flow)}) \cup {current'}
            /\ UNCHANGED <<generation, opened>>
       ELSE /\ generation' = generation + 1
            /\ current' = [flow |-> packet.flow, gen |-> generation', rank |-> moves',
                           last |-> clock, fin |-> FALSE]
            /\ table' = table \cup {current'}
            /\ opened' = [opened EXCEPT ![packet.flow] = @ + 1]
    /\ pc' = "segment"
    /\ UNCHANGED <<packet, leaving, resume, env, told>>

(* add_segment, then the end of the flow: its FIN is reassembled, it is     *)
(* aborted, or its FIN is here.  Whether all bytes before a FIN are there   *)
(* is for TcpFlow to say.                                                   *)
AddSegment ==
    /\ pc = "segment"
    /\ IF packet.payload THEN ShowSome({current}) ELSE UNCHANGED told
    /\ \/ /\ packet.rst \/ current.fin
          /\ pc' = "closeOwn"
          /\ UNCHANGED <<table, current, packet, leaving, resume, env>>
       \/ /\ ~packet.rst /\ packet.fin
          /\ current' = [current EXCEPT !.fin = TRUE]
          /\ table' = (table \ {current}) \cup {current'}
          /\ pc' = "closeOwn"
          /\ UNCHANGED <<packet, leaving, resume, env>>
       \/ /\ ~packet.rst
          /\ table' = (table \ {current})
                          \cup {[current EXCEPT !.fin = @ \/ packet.fin]}
          /\ pc' = "idle" /\ packet' = None /\ current' = None
          /\ UNCHANGED <<leaving, resume, env>>
       \/ packet.payload /\ Raises /\ UNCHANGED table
    /\ UNCHANGED <<generation, moves, opened>>

(* The flow of the packet is finished while it is still in the table.       *)
CloseOwn ==
    /\ pc = "closeOwn"
    /\ ShowSome({current})
    /\ \/ /\ table' = table \ {current}
          /\ pc' = "notify"
          /\ UNCHANGED <<packet, current, leaving, resume, env>>
       \/ Raises /\ UNCHANGED table
    /\ UNCHANGED <<generation, moves, opened>>

-----------------------------------------------------------------------------
NoneExpired == {}
IdleExpired == {e \in table : IdleTimeout # None /\ clock - e.last >= IdleTimeout}

(* service_gaps: every flow's timers, then the flows whose FIN that         *)
(* completes, then the idle ones.                                           *)
ServiceGaps ==
    /\ pc = "idle" /\ ~failed /\ table # {}
    /\ ShowSome(table)
    /\ \/ /\ pc' = "completed"
          /\ leaving' \in SUBSET {e \in table : e.fin}
          /\ UNCHANGED <<packet, current, resume, env>>
       \/ Raises
    /\ UNCHANGED <<table, generation, moves, opened>>

CloseNextWithoutPop ==
    /\ pc \in {"completed", "expired", "drain"}
    /\ \E e \in leaving :
          /\ IsFirst(e, leaving)
          /\ current' = e /\ leaving' = leaving \ {e}
    /\ pc' = "finish" /\ resume' = pc
    /\ UNCHANGED <<table, generation, moves, packet, env, opened, told>>

(* The loops over completed_fin_flows, over expired, and over the snapshot  *)
(* of finish: pop and finish the next flow.                                 *)
CloseNext ==
    /\ pc \in {"completed", "expired", "drain"}
    /\ \E e \in leaving :
          /\ IsFirst(e, leaving)
          /\ current' = e /\ leaving' = leaving \ {e} /\ table' = table \ {e}
    /\ pc' = "finish" /\ resume' = pc
    /\ UNCHANGED <<generation, moves, packet, env, opened, told>>

CloseDone ==
    /\ pc \in {"completed", "expired", "drain"} /\ leaving = {}
    /\ IF pc = "completed"
       THEN pc' = "expired" /\ leaving' = IdleExpired
       ELSE pc' = "idle" /\ UNCHANGED leaving
    /\ UNCHANGED <<table, generation, moves, packet, current, resume, env, opened, told>>

(* finish, by the owner at the end of its capture, after a failure too.     *)
Finish ==
    /\ pc = "idle" /\ table # {}
    /\ leaving' = table /\ table' = {}
    /\ pc' = "drain"
    /\ UNCHANGED <<generation, moves, packet, current, resume, env, opened, told>>

Tick ==
    /\ pc = "idle" /\ clock < Horizon
    /\ clock' = clock + 1
    /\ UNCHANGED <<table, generation, moves, control, packets, raises, failed, opened, told>>

(* The capture is over.                                                     *)
Stopped == pc = "idle" /\ table = {} /\ clock = Horizon /\ UNCHANGED vars

Operation == Evict \/ FinishFlow \/ NotifyClose \/ OpenFlow \/ AddSegment
             \/ CloseOwn \/ CloseNext \/ CloseDone

Next ==
    \/ \E p \in Packet : Receive(p)
    \/ Operation
    \/ ServiceGaps
    \/ Finish
    \/ Tick
    \/ Stopped

Spec == Init /\ [][Next]_vars

(* An operation goes on; a live capture's owner services the clock, and time *)
(* passes however often it does (the model lets it pass between operations). *)
LiveSpec == Spec /\ WF_vars(Operation) /\ WF_vars(ServiceGaps) /\ SF_vars(Tick)

-----------------------------------------------------------------------------
(***************************************************************************)
(* Properties.                                                             *)
(***************************************************************************)
Labels == {"idle", "evict", "finish", "notify", "open", "segment", "closeOwn",
           "completed", "expired", "drain"}

(* The state has its types, and between operations nothing is in hand, even *)
(* after one that a callback broke off.                                     *)
TypeOK ==
    /\ table \subseteq Entry /\ leaving \subseteq Entry
    /\ generation \in Nat /\ moves \in Nat
    /\ pc \in Labels
    /\ resume \in {"idle", "open", "completed", "expired", "drain"}
    /\ packet \in Packet \cup {None} /\ current \in Entry \cup {None}
    /\ clock \in Nat /\ packets \in Nat /\ raises \in Nat /\ failed \in BOOLEAN
    /\ opened \in [Flows -> Nat] /\ closed \in [Flows -> Nat]
    /\ epoch \in [Flows -> Nat] /\ shut \in [Flows -> BOOLEAN]
    /\ pc = "idle" => packet = None /\ current = None /\ leaving = {}

(* The table never holds more than max_flows flows, not even while a new    *)
(* one takes the place of an evicted one, and one state for each flow.      *)
WithinMaxFlows ==
    /\ Cardinality(table) <= MaxFlows
    /\ \A d, e \in table : d.flow = e.flow => d = e

(* The order of the table is the order of activity, so that eviction takes  *)
(* the flow that has been silent longest (move_to_end, popitem).            *)
OrderedByActivity ==
    \A d, e \in table : d.rank < e.rank => d.last <= e.last

(* The entries whose close has still to be notified.                        *)
Owed ==
    table \cup (IF pc \in {"evict", "finish", "notify"} THEN {current} ELSE {})
          \cup (IF "drain" \in {pc, resume} THEN leaving ELSE {})

(* Whatever ends a flow (its FIN, a RST, a new SYN, eviction, idleness, the *)
(* end of the capture, several at once), its close is notified exactly once *)
(* for each time it was opened; never more, even after a callback raised.   *)
ClosedOnce ==
    \A f \in Flows :
        /\ closed[f] <= opened[f]
        /\ ~failed => opened[f] - closed[f] = IF \E e \in Owed : e.flow = f THEN 1 ELSE 0

(* Between operations no tracker still believes in a flow that has left.    *)
GoneIsTold ==
    pc = "idle" /\ ~failed => \A f \in Flows : Known(f) \/ shut[f]

(* Trackers see the flow's epochs one after the other (FlowEpochs).         *)
Epochs == INSTANCE FlowEpochs
TrackerContract == Epochs!Spec

(* A silent flow leaves the table without another packet, as long as no     *)
(* callback raises.                                                         *)
SilentFlowsLeave == \A f \in Flows : Known(f) ~> ~Known(f) \/ failed
=============================================================================
