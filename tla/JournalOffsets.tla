--------------------------- MODULE JournalOffsets ---------------------------
(* The ingest journal of one stream and the offset up to which it is         *)
(* committed: accept_journal_batch and retire_journal_through of             *)
(* storage/sqlite.rs, for whatever batches a source delivers: replayed,      *)
(* overlapping, out of order, or with another payload under a known first    *)
(* sequence.  The runtime's own sources number their batches without gaps;   *)
(* the store does not rely on it.                                            *)
EXTENDS Integers, FiniteSets

CONSTANTS LastSequence,   \* highest sequence number delivered
          Payloads        \* payload checksums

ASSUME OffsetAssumption == LastSequence \in Nat /\ Payloads # {}

VARIABLES journal,     \* rows of ingest_journal
          committed,   \* committed_through of the stream, NoOffset before its first batch
          began,       \* history: the offset the stream started from
          received     \* history: sequences some accepted batch carried
offsetVars == <<journal, committed, began, received>>

NoOffset == -2
JournalRows == {b \in [first : 0 .. LastSequence, last : 0 .. LastSequence, checksum : Payloads] :
                  b.first <= b.last}

OffsetInit == journal = {} /\ committed = NoOffset /\ began = NoOffset /\ received = {}

\* MUTANT of Advance: the offset is the highest sequence the journal holds.
AdvanceToHighest(rows, from) ==
  LET ends == {from} \cup {b.last : b \in rows} IN CHOOSE e \in ends : \A o \in ends : o <= e

(* From one row to the row that starts right after it, as long as there is.  *)
Advance(rows, from) ==
  LET through[o \in from .. LastSequence] ==
        IF \E b \in rows : b.first = o + 1
        THEN through[(CHOOSE b \in rows : b.first = o + 1).last]
        ELSE o
  IN through[from]

\* MUTANT of AcceptJournal: a stream starts again from whatever batch arrives.
AcceptJournalAfresh(b) ==
  /\ \A r \in journal : r.first = b.first => r = b
  /\ journal' = journal \cup {b}
  /\ committed' = Advance(journal', b.first - 1)
  /\ began' = IF committed = NoOffset THEN b.first - 1 ELSE began
  /\ received' = received \cup (b.first .. b.last)

(* Another batch under the same first sequence is refused, and with it the   *)
(* whole transaction.                                                        *)
AcceptJournal(b) ==
  LET from == IF committed = NoOffset THEN b.first - 1 ELSE committed
  IN /\ \A r \in journal : r.first = b.first => r = b
     /\ journal' = journal \cup {b}
     /\ committed' = Advance(journal', from)
     /\ began' = IF committed = NoOffset THEN from ELSE began
     /\ received' = received \cup (b.first .. b.last)

RetireJournal(processed) ==
  /\ journal' = {r \in journal : r.last > processed}
  /\ UNCHANGED <<committed, began, received>>

OffsetNext ==
  \/ \E b \in JournalRows : AcceptJournal(b)
  \/ \E r \in journal : RetireJournal(r.last)

OffsetSpec == OffsetInit /\ [][OffsetNext]_offsetVars
-----------------------------------------------------------------------------
(* Whatever order batches come in, and however often the journal is retired, *)
(* everything from where the stream began to its committed offset was        *)
(* accepted: a source that trusts the offset never skips a batch.            *)
OffsetCoversNoGap ==
  /\ committed = NoOffset <=> received = {}
  /\ began + 1 .. committed \subseteq received
=============================================================================
