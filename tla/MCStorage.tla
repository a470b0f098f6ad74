----------------------------- MODULE MCStorage ------------------------------
(***************************************************************************)
(* The sealed store, the open blocks and the journal's offsets, side by    *)
(* side: each behaviour runs one of them, chosen at the start, while the   *)
(* other two stay at their initial state.  How they work together is the   *)
(* subject of DurableIngest.                                               *)
(***************************************************************************)
EXTENDS BlockStore, OpenTail, JournalOffsets

CONSTANTS c1, c2

VARIABLE part

\* target, high water and emergency of the budget, in blocks of one message.
MCCeilings == {[target |-> 1, high |-> 2, emergency |-> 4]}

\* Batches that insert, overlap, upgrade a copy, split and trim.
MCBatches ==
  LET At(t, f) == [at |-> t, fidelity |-> f]
      Batch(c, rs) == [channel |-> c, records |-> rs]
  IN {Batch(c1, {At(1, 0)}), Batch(c1, {At(1, 1), At(2, 0)}), Batch(c1, {At(3, 0)}),
      Batch(c2, {At(2, 0)})}

\* Bound: the events of c1 are not ahead of the clock, those of c2 may be.
OnTime == \A b \in blocks' : b.channel = c1 => Latest(b) <= wall'

StorageInit ==
  /\ part \in {"store", "tail", "offsets"}
  /\ StoreInit /\ TailInit /\ OffsetInit

StorageNext ==
  /\ \/ part = "store" /\ StoreNext /\ OnTime /\ UNCHANGED <<tailVars, offsetVars>>
     \/ part = "tail" /\ TailNext /\ UNCHANGED <<storeVars, offsetVars>>
     \/ part = "offsets" /\ OffsetNext /\ UNCHANGED <<storeVars, tailVars>>
  /\ UNCHANGED part

StorageSpec ==
  StorageInit /\ [][StorageNext]_<<storeVars, tailVars, offsetVars, part>>
=============================================================================
