----------------------------- MODULE RecordStore -----------------------------
(***************************************************************************)
(* What the sealed block store promises of the records it is given, with   *)
(* no blocks in it: of every event the best copy is held, once; an append  *)
(* adds a batch and may drop records of its channel only while enough of   *)
(* them stay; what retention, purges and the budget take goes as it is; an *)
(* excluded channel holds nothing.                                         *)
(***************************************************************************)
EXTENDS Naturals, FiniteSets

CONSTANTS Deliveries,   \* the batches, each a set of records of one channel
          Enough        \* records of a channel that appends to it leave

VARIABLES held,         \* records: a channel, an event's time, its copy's fidelity
          closed        \* channels excluded

SameEvent(q, r) == q.channel = r.channel /\ q.at = r.at
Merged(batch) ==
  {r \in held \cup batch : \A q \in held \cup batch : SameEvent(q, r) => q.fidelity <= r.fidelity}

RecordInit == held = {} /\ closed = {}

Append(batch) ==
  /\ \A r \in batch : r.channel \notin closed
  /\ held' \subseteq Merged(batch)
  /\ \A r \in Merged(batch) \ held' :
       /\ \E q \in batch : q.channel = r.channel
       /\ Cardinality({q \in held' : q.channel = r.channel}) >= Enough
  /\ UNCHANGED closed

\* Expiry, a purge, an eviction.
Forget == held' \subseteq held /\ UNCHANGED closed

\* An opt-out, an opt-in, or the list of the control database at a start.
Exclude == held' = {r \in held : r.channel \notin closed'}

RecordNext == (\E batch \in Deliveries : Append(batch)) \/ Forget \/ Exclude

RecordSpec == RecordInit /\ [][RecordNext]_<<held, closed>>
=============================================================================
