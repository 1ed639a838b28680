--------------------------- MODULE OrderedDispatch ---------------------------
(***************************************************************************)
(* What _drain_outbox promises, of the origin tracker and of the hydration *)
(* tracker alike: "dispatch callbacks in mutation order", one at a time,   *)
(* each exactly once, whichever threads queued and dispatch them.          *)
(***************************************************************************)
EXTENDS Naturals, Sequences, SequencesExt

VARIABLES
    outbox,     \* callbacks queued, in the order of the mutations
    running     \* the callbacks that have started and not returned

vars == <<outbox, running>>

Init == outbox = <<>> /\ running = {}

(* A mutation queues callbacks behind those already queued.                *)
Mutate == IsStrictPrefix(outbox, outbox') /\ UNCHANGED running

Dispatch ==
    /\ running = {} /\ outbox # <<>>
    /\ running' = {Head(outbox)} /\ outbox' = Tail(outbox)

Return == running # {} /\ running' = {} /\ UNCHANGED outbox

Next == Mutate \/ Dispatch \/ Return
Spec == Init /\ [][Next]_vars
=============================================================================
