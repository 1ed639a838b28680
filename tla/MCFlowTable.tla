----------------------------- MODULE MCFlowTable -----------------------------
(* An instance of FlowTable for TLC. *)
EXTENDS FlowTable
=============================================================================
