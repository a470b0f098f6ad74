--------------------------- MODULE MCOwnerControls ---------------------------
(* Small instances of OwnerControls: one channel and at most two messages.   *)
EXTENDS OwnerControls

CONSTANTS c1, k1, k2

MCChanOf == [k \in Key |-> c1]
MCEventAt == [k \in Key |-> 1]
=============================================================================
