--------------------------- MODULE StreamDelivery ---------------------------
(***************************************************************************)
(* What reassembly promises the scanner of a flow (the StreamScanner       *)
(* protocol of _reassembly.py): the bytes fed are captured bytes, each at  *)
(* most once, in stream order, and never retracted; by the time the flow   *)
(* is done, every captured byte was fed, offered to scan_standalone or     *)
(* reported as part of a gap.                                              *)
(***************************************************************************)
EXTENDS Integers, Sequences, SequencesExt

VARIABLES
    received,    \* positions captured
    fed,         \* positions fed to the scanner, in order
    rescanned,   \* positions offered out of line
    reported,    \* positions reported as lost
    done

vars == <<received, fed, rescanned, reported, done>>

Increasing(s) == \A i, j \in 1..Len(s) : i < j => s[i] < s[j]

Init == received = {} /\ fed = <<>> /\ rescanned = {} /\ reported = {} /\ done = FALSE

(* Capture some bytes, and feed or offer some of the bytes captured.       *)
Step ==
    /\ ~done
    /\ received \subseteq received'
    /\ IsPrefix(fed, fed')
    /\ Increasing(fed')
    /\ ToSet(fed') \subseteq received'
    /\ rescanned \subseteq rescanned' /\ rescanned' \subseteq received'
    /\ reported \subseteq reported' /\ reported' \cap ToSet(fed') = {}
    /\ done' \in BOOLEAN
    /\ done' => received' \subseteq ToSet(fed') \cup rescanned' \cup reported'

Spec == Init /\ [][Step]_vars
=============================================================================
