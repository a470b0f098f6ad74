--------------------------- MODULE MCDurableIngest ---------------------------
(* Small instances of DurableIngest: at most three messages, two of them of  *)
(* one channel.                                                              *)
EXTENDS DurableIngest

CONSTANTS c1, c2, k1, k2, k3

MCChanOf == [k \in Key |-> IF k = k3 THEN c2 ELSE c1]
MCEventAt == [k \in Key |-> IF k = k2 THEN 2 ELSE 1]
=============================================================================
