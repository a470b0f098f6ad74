-------------------------- MODULE MCIngestInstances --------------------------
(* Three instances of DurableIngest in one run: the initial state picks one, *)
(* and every step stays within its bounds.                                   *)
EXTENDS MCDurableIngest, TLC

CONSTANTS s1

VARIABLE instance

\* crashes: two channels of which one may be open, and a crash at any point.
\* controls: one channel; two purges or blocks, a peer fill and a crash.
\* duplicates: the same event from two streams at two fidelities, and a crash.
Instances ==
  ("crashes" :> [keys |-> Key, streams |-> {s1}, fids |-> {1},
                 queue |-> 1, seq |-> 3, time |-> 1, purge |-> 0, fill |-> 0])
  @@ ("controls" :> [keys |-> {k1, k2}, streams |-> {s1}, fids |-> {1},
                     queue |-> 2, seq |-> 2, time |-> 2, purge |-> 2, fill |-> 1])
  @@ ("duplicates" :> [keys |-> {k1}, streams |-> Stream, fids |-> Delivered,
                       queue |-> 1, seq |-> 2, time |-> 1, purge |-> 0, fill |-> 0])

Within(bound) ==
  /\ now' <= bound.time
  /\ Cardinality(inbox') <= bound.queue
  /\ \A s \in Stream :
       nextSeq'[s] <= IF s \in bound.streams THEN bound.seq + 1 ELSE 1
  /\ \A row \in inbox' \ inbox : \A r \in row.recs : r.key \in bound.keys /\ r.fid \in bound.fids
  /\ \A r \in (sealed' \cup released') \ (sealed \cup released) : r.key \in bound.keys /\ r.fid \in bound.fids
  /\ \A c \in Channel \ {c1} : cutoff'[c] = 0 /\ c \notin blocked'
  /\ count'.purge <= bound.purge
  /\ count'.fill <= bound.fill

MCSpec ==
  /\ Init /\ instance \in DOMAIN Instances
  /\ [][Next /\ Within(Instances[instance]) /\ UNCHANGED instance]_<<vars, instance>>
=============================================================================
