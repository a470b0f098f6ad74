------------------------------ MODULE PolicyLog ------------------------------
(***************************************************************************)
(* What the cluster's control plane promises: the owner appends states to  *)
(* a log, each mirror shows one entry of it and only moves forward, and a  *)
(* change that was acknowledged is one every mirror has reached.           *)
(***************************************************************************)
EXTENDS Naturals, Sequences

CONSTANTS Mirror, First

VARIABLES
    log,    \* the states the owner has had after the first
    at,     \* [Mirror -> how far along the log it is]
    view,   \* [Mirror -> the state it shows]
    acked   \* how much of the log has been acknowledged

logVars == <<log, at, view, acked>>

Entry(k) == IF k = 0 THEN First ELSE log[k]

Init ==
    /\ log = <<>> /\ acked = 0
    /\ at = [r \in Mirror |-> 0] /\ view = [r \in Mirror |-> First]

Extend ==
    /\ Len(log') = Len(log) + 1 /\ SubSeq(log', 1, Len(log)) = log
    /\ UNCHANGED <<at, view, acked>>

Follow(r) ==
    /\ \E k \in at[r] .. Len(log) :
          /\ at' = [at EXCEPT ![r] = k]
          /\ view' = [view EXCEPT ![r] = Entry(k)]
    /\ UNCHANGED <<log, acked>>

Acknowledge ==
    /\ acked' \in acked .. Len(log)
    /\ \A r \in Mirror : at[r] >= acked'
    /\ UNCHANGED <<log, at, view>>

Next == Extend \/ Acknowledge \/ \E r \in Mirror : Follow(r)

Spec == Init /\ [][Next]_logVars
=============================================================================
