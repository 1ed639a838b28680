------------------------------ MODULE FlowEpochs ------------------------------
(***************************************************************************)
(* What the flow table promises a tracker (on_flow_close and the frames    *)
(* with their flow_generation in _reassembly.py): on each flow the frames  *)
(* come in epochs.  An epoch's frames all come before it is closed, a      *)
(* later epoch starts only after the close of the one before, and an epoch *)
(* never comes back.  on_flow_close names the flow and not the generation, *)
(* so a tracker may drop all it holds of the flow only because of this.    *)
(***************************************************************************)
EXTENDS Naturals

CONSTANT Flows

VARIABLES
    epoch,    \* the generation of the last frame of each flow, 0 before any
    shut      \* the flow was closed since, or has shown no frame

vars == <<epoch, shut>>

Init == epoch = [f \in Flows |-> 0] /\ shut = [f \in Flows |-> TRUE]

(* Some flows show frames, of the epoch they are in or of a new one.        *)
Frames ==
    /\ epoch' \in [Flows -> Nat] /\ shut' \in [Flows -> BOOLEAN]
    /\ \A f \in Flows :
          \/ epoch'[f] = epoch[f] /\ shut'[f] = shut[f]
          \/ epoch'[f] > epoch[f] /\ shut[f] /\ ~shut'[f]

Close(f) == shut' = [shut EXCEPT ![f] = TRUE] /\ UNCHANGED epoch

Spec == Init /\ [][Frames \/ \E f \in Flows : Close(f)]_vars
===============================================================================
