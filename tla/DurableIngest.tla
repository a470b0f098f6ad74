---------------------------- MODULE DurableIngest ----------------------------
(***************************************************************************)
(* The message data path: src/src/storage/ingest.rs (the coordinator's     *)
(* operations), ingest_runtime.rs (its loop), open_blocks.rs (the tail in  *)
(* memory) and the write transactions of sqlite.rs it is built from.       *)
(*                                                                         *)
(* A batch is journaled in one transaction, then its records are put one   *)
(* by one into the open blocks; full blocks are collected and appended to  *)
(* the sealed store; a checkpoint seals every open block, appends them and *)
(* only then retires the journal.  A restart replays the journal.  HTTP    *)
(* handlers purge or block a channel, and peers' records are filled in, at *)
(* any point between two steps of the coordinator.                         *)
(*                                                                         *)
(* Abstractions.  A record is the key of its event, the time it was        *)
(* received and the fidelity of its source; channel and event time are     *)
(* functions of the key (both are hashed or carried with it).  The sealed  *)
(* store is a flat set of records: its blocks and counters are the subject *)
(* of SealedStore.  The block timers are nondeterministic, and of the two  *)
(* limits on open blocks only the number of channels is modelled.          *)
(***************************************************************************)
EXTENDS Naturals, FiniteSets

CONSTANTS
    Key,            \* event keys
    Channel,        \* channel keys
    Stream,         \* (source_id, stream_id) pairs, one per connection
    Delivered,      \* the fidelities the sources deliver
    ChanOf,         \* [Key -> Channel]
    EventAt,        \* [Key -> Nat]: event_at_ms
    BlockMessages,  \* block_messages
    AllowedMessages,\* target + block_messages - 1, per channel
    MaxOpenChannels,\* max_open_channels
    AppendBatches,  \* RECOVERY_APPEND_BATCHES
    QueueBatches,   \* queue_batches
    MessageTtl,     \* message_ttl
    MaxBatch,       \* BOUND: records in a batch
    MaxSeq,         \* BOUND: last sequence number of a stream
    MaxTime,        \* BOUND: the clock
    MaxCrash,       \* BOUND: crashes of the process
    MaxPurge,       \* BOUND: requests of owners that reach the store
    MaxFill         \* BOUND: peer fills

ASSUME KeyAssumption ==
    /\ ChanOf \in [Key -> Channel]
    /\ EventAt \in [Key -> Nat]
    /\ Delivered \subseteq 0 .. 2

ASSUME StreamAssumption == Stream # {}

ASSUME LimitAssumption ==
    /\ BlockMessages \in Nat \ {0}
    /\ AllowedMessages \in Nat /\ AllowedMessages >= BlockMessages
    /\ MaxOpenChannels \in Nat \ {0}
    /\ AppendBatches \in Nat \ {0}
    /\ QueueBatches \in Nat \ {0}
    /\ MessageTtl \in Nat

ASSUME BoundAssumption ==
    /\ MaxBatch \in Nat \ {0}
    /\ {MaxSeq, MaxTime, MaxCrash, MaxPurge, MaxFill} \subseteq Nat

VARIABLES
    now,        \* wall clock
    nextSeq,    \* next sequence number of each stream (the batchers')
    inbox,      \* batches in the bounded channels to the coordinator
    journal,    \* ingest_journal, durable
    sealed,     \* message_blocks, durable
    cutoff,     \* channel_purge_cutoffs, durable, 0 when absent
    blocked,    \* blocked_channels, durable
    open,       \* OpenBlockManager.blocks, {} when a channel has none
    pc,         \* where the coordinator is
    cur,        \* the batch it is putting into open blocks
    todo,       \* journal rows recovery has not replayed
    hand,       \* blocks taken from open and not yet appended
    through,    \* materialized_through, 0 when absent
    stopping,   \* the CancellationToken
    count,      \* BOUND: crashes, owners' requests and fills so far
    released    \* HISTORY: records a purge, a block or retention discarded

durableVars == <<journal, sealed, cutoff, blocked>>
coordVars   == <<open, pc, cur, todo, hand, through>>
inputVars   == <<now, nextSeq, inbox, stopping, count>>
vars == <<durableVars, coordVars, inputVars, released>>

-----------------------------------------------------------------------------
\* SourceFidelity in its order: Unknown, Reconstructed, DirectIrc
Fidelity == 0 .. 2

Record == [key : Key, recv : Nat, fid : Fidelity]

\* A journal row: batch first..last of a stream, and its decoded records.
Row == [stream : Stream, first : Nat, last : Nat, recs : SUBSET Record]

KeysOf(rs) == {r.key : r \in rs}
ChannelOf(r) == ChanOf[r.key]
OfChannel(rs, c) == {r \in rs : ChannelOf(r) = c}

JournalRecords == UNION {row.recs : row \in journal}
OpenRecords == UNION {open[c] : c \in Channel}
HandRecords == UNION hand
OpenChannels == {c \in Channel : open[c] # {}}

\* No batch is being put into the open blocks.
NoRow == [stream |-> CHOOSE s \in Stream : TRUE, first |-> 0, last |-> 0,
          recs |-> {}]

\* MUTANT of ShouldReplace: any source that differs counts as better.
ReplaceIfDifferent(r, old) == r.key = old.key /\ r.fid # old.fid

\* CanonicalRecord::should_replace: the same event from a better source.
ShouldReplace(r, old) == r.key = old.key /\ r.fid > old.fid

\* q keeps all there is to keep of r: the same event, from a source as good.
Covers(q, r) == q.key = r.key /\ q.fid >= r.fid

\* MUTANT of Merge: the last writer wins, whatever its fidelity.
MergeLastWins(old, new) == {o \in old : o.key \notin KeysOf(new)} \cup new

\* Deduplication of the records new against the retained ones old: a better
\* copy replaces, any other copy of a retained event is dropped, and of
\* several new copies the best, and of those the first received, is taken.
Merge(old, new) ==
    {o \in old : \A n \in new : ~ShouldReplace(n, o)}
    \cup {n \in new :
            /\ \A o \in old : o.key = n.key => ShouldReplace(n, o)
            /\ \A m \in new : m.key = n.key =>
                  \/ n.fid > m.fid
                  \/ n.fid = m.fid /\ n.recv <= m.recv}

\* MUTANT of Admitted: a record received exactly at the cutoff is kept.
AdmittedAtCutoff(rs) ==
    {r \in rs : ChannelOf(r) \notin blocked /\ r.recv >= cutoff[ChannelOf(r)]}

\* What append_transaction keeps of a batch: nothing of a blocked channel,
\* nothing received at or before the channel's purge cutoff.
Admitted(rs) ==
    {r \in rs : ChannelOf(r) \notin blocked /\ r.recv > cutoff[ChannelOf(r)]}

\* Whole blocks leave a channel, oldest first, until it holds no more than it
\* may: gone is what leaves when the store has become next.
Trims(next, gone) ==
    \A c \in Channel :
        LET size == Cardinality(OfChannel(next, c))
            kept == Cardinality(OfChannel(next \ gone, c))
        IN IF size <= AllowedMessages
           THEN kept = size
           ELSE kept <= AllowedMessages /\ kept + BlockMessages > AllowedMessages

\* The append transaction over the records rs.
AppendToStore(rs) ==
    LET next == Merge(sealed, Admitted(rs))
    IN \E gone \in SUBSET next :
        /\ Trims(next, gone)
        /\ sealed' = next \ gone
        /\ released' = released \cup gone \cup (rs \ Admitted(rs))

\* OpenBlockManager::append of one record, with the blocks it seals: the
\* channel's own when it is full, then the least recently used ones while
\* too many channels are open.
OpenAppend(r) ==
    LET c     == ChannelOf(r)
        dup   == r.key \in KeysOf(open[c])
        after == [open EXCEPT ![c] = Merge(@, {r})]
        full  == IF ~dup /\ Cardinality(after[c]) >= BlockMessages
                 THEN {c} ELSE {}
        rest  == {d \in Channel : after[d] # {}} \ full
    IN IF dup
       THEN open' = after /\ UNCHANGED hand
       ELSE \E lru \in SUBSET rest :
            /\ Cardinality(lru) = IF Cardinality(rest) > MaxOpenChannels
                                  THEN Cardinality(rest) - MaxOpenChannels
                                  ELSE 0
            /\ open' = [d \in Channel |-> IF d \in full \cup lru
                                          THEN {} ELSE after[d]]
            /\ hand' = hand \cup {after[d] : d \in full \cup lru}

-----------------------------------------------------------------------------
Init ==
    /\ now = 1
    /\ nextSeq = [s \in Stream |-> 1]
    /\ inbox = {}
    /\ journal = {} /\ sealed = {} /\ blocked = {}
    /\ cutoff = [c \in Channel |-> 0]
    /\ open = [c \in Channel |-> {}]
    /\ pc = "recover" /\ cur = NoRow /\ todo = {} /\ hand = {}
    /\ through = [s \in Stream |-> 0]
    /\ stopping = FALSE
    /\ count = [crash |-> 0, purge |-> 0, fill |-> 0]
    /\ released = {}

Tick ==
    /\ now < MaxTime
    /\ now' = now + 1
    /\ UNCHANGED <<durableVars, coordVars, nextSeq, inbox, stopping, count,
                   released>>

\* A source flushes a batch of records it received in one interval to the
\* coordinator's bounded queue.  Its sequence numbers are consecutive.  A
\* cancelled source may still flush one while the coordinator drains.
Receive(s, rs) ==
    /\ pc \notin {"final", "stopped"}
    /\ Cardinality(inbox) < QueueBatches
    /\ IsFiniteSet(rs) /\ rs # {} /\ Cardinality(rs) <= MaxBatch
    /\ \A r, q \in rs : r.key = q.key => r = q
    /\ nextSeq[s] + Cardinality(rs) - 1 <= MaxSeq
    /\ inbox' = inbox \cup {[stream |-> s, first |-> nextSeq[s],
                             last |-> nextSeq[s] + Cardinality(rs) - 1,
                             recs |-> rs]}
    /\ nextSeq' = [nextSeq EXCEPT ![s] = @ + Cardinality(rs)]
    /\ UNCHANGED <<durableVars, coordVars, now, stopping, count, released>>

-----------------------------------------------------------------------------
\* MUTANT of Accept: the batch is put into open blocks without the journal.
AcceptUnjournaled(row) ==
    /\ pc = "idle"
    /\ inbox' = inbox \ {row}
    /\ pc' = "materialize" /\ cur' = row
    /\ UNCHANGED <<durableVars, open, todo, hand, through, now, nextSeq,
                   stopping, count, released>>

\* The coordinator.  accept_batch: the oldest queued batch of a stream is
\* journaled in one transaction, before anything else is done with it.
Accept(row) ==
    /\ pc = "idle"
    /\ \A other \in inbox : other.stream = row.stream => row.first <= other.first
    /\ inbox' = inbox \ {row}
    /\ journal' = journal \cup {row}
    /\ pc' = "materialize" /\ cur' = row
    /\ UNCHANGED <<sealed, cutoff, blocked, open, todo, hand, through, now,
                   nextSeq, stopping, count, released>>

\* materialize, and the inner loop of recover_pending: one record of the
\* batch goes into the open blocks, under the blocks' lock.
Materialize(r) ==
    /\ pc \in {"materialize", "replay"}
    /\ pc = "replay" => Cardinality(hand) < AppendBatches
    /\ OpenAppend(r)
    /\ cur' = [cur EXCEPT !.recs = @ \ {r}]
    /\ pc' = pc
    /\ UNCHANGED <<durableVars, todo, through, inputVars, released>>

\* recover_pending appends what it has sealed each time a chunk is full.
ReplayFlush ==
    /\ pc = "replay" /\ Cardinality(hand) >= AppendBatches
    /\ AppendToStore(HandRecords)
    /\ hand' = {}
    /\ UNCHANGED <<journal, cutoff, blocked, open, pc, cur, todo, through,
                   inputVars>>

\* materialize ends: the blocks it sealed are appended in one transaction,
\* and the batch then counts as processed.
Processed(row) ==
    through' = [through EXCEPT ![row.stream] = IF row.last > @ THEN row.last ELSE @]

MaterializeDone ==
    /\ pc = "materialize" /\ cur.recs = {}
    /\ AppendToStore(HandRecords)
    /\ hand' = {}
    /\ Processed(cur)
    /\ pc' = "idle" /\ cur' = NoRow
    /\ UNCHANGED <<journal, cutoff, blocked, open, todo, inputVars>>

\* recover_pending at the start of the runtime: the rows of the journal, each
\* stream's in order; the blocks still in hand are appended after the last.
RecoverStart ==
    /\ pc = "recover"
    /\ todo' = journal
    /\ pc' = "replay" /\ cur' = NoRow
    /\ UNCHANGED <<durableVars, open, hand, through, inputVars, released>>

RecoverRow(row) ==
    /\ pc = "replay" /\ cur = NoRow
    /\ \A other \in todo : other.stream = row.stream => row.first <= other.first
    /\ cur' = row
    /\ todo' = todo \ {row}
    /\ UNCHANGED <<durableVars, open, pc, hand, through, inputVars, released>>

RowReplayed ==
    /\ pc = "replay" /\ cur # NoRow /\ cur.recs = {}
    /\ Cardinality(hand) < AppendBatches
    /\ Processed(cur)
    /\ cur' = NoRow
    /\ UNCHANGED <<durableVars, open, pc, todo, hand, inputVars, released>>

RecoverDone ==
    /\ pc = "replay" /\ cur = NoRow /\ todo = {}
    /\ AppendToStore(HandRecords)
    /\ hand' = {} /\ pc' = "idle"
    /\ UNCHANGED <<journal, cutoff, blocked, open, cur, todo, through,
                   inputVars>>

\* seal_due: the blocks that are idle or old are taken and appended.
SealDue(due) ==
    /\ pc = "idle" /\ ~stopping
    /\ due # {} /\ due \subseteq OpenChannels
    /\ open' = [c \in Channel |-> IF c \in due THEN {} ELSE open[c]]
    /\ hand' = {open[c] : c \in due}
    /\ pc' = "seal"
    /\ UNCHANGED <<durableVars, cur, todo, through, inputVars, released>>

\* MUTANT of SealAppend: the coordinator does not come back to its loop.
SealAppendStuck ==
    /\ pc = "seal"
    /\ AppendToStore(HandRecords)
    /\ hand' = {} /\ pc' = "sealed"
    /\ UNCHANGED <<journal, cutoff, blocked, open, cur, todo, through, inputVars>>

SealAppend ==
    /\ pc = "seal"
    /\ AppendToStore(HandRecords)
    /\ hand' = {} /\ pc' = "idle"
    /\ UNCHANGED <<journal, cutoff, blocked, open, cur, todo, through, inputVars>>

\* MUTANT of CheckpointStart: a shutdown does not drain the queues first.
CheckpointUndrained ==
    /\ pc = "idle"
    /\ hand' = {open[c] : c \in OpenChannels}
    /\ open' = [c \in Channel |-> {}]
    /\ pc' = IF stopping THEN "final" ELSE "checkpoint"
    /\ UNCHANGED <<durableVars, cur, todo, through, inputVars, released>>

\* MUTANT of CheckpointStart: the blocks are copied and stay open.
CheckpointCopies ==
    /\ pc = "idle"
    /\ stopping => inbox = {}
    /\ hand' = {open[c] : c \in OpenChannels}
    /\ pc' = IF stopping THEN "final" ELSE "checkpoint"
    /\ UNCHANGED <<durableVars, open, cur, todo, through, inputVars, released>>

\* checkpoint: every open block is taken at once; the chunks are appended one
\* transaction each; only then is the journal retired, stream by stream.  It
\* runs when the poll finds it due, and last of all at shutdown.
CheckpointStart ==
    /\ pc = "idle"
    /\ stopping => inbox = {}
    /\ hand' = {open[c] : c \in OpenChannels}
    /\ open' = [c \in Channel |-> {}]
    /\ pc' = IF stopping THEN "final" ELSE "checkpoint"
    /\ UNCHANGED <<durableVars, cur, todo, through, inputVars, released>>

CheckpointAppend(chunk) ==
    /\ pc \in {"checkpoint", "final"}
    /\ chunk # {} /\ chunk \subseteq hand
    /\ Cardinality(chunk) = AppendBatches \/ chunk = hand
    /\ Cardinality(chunk) <= AppendBatches
    /\ AppendToStore(UNION chunk)
    /\ hand' = hand \ chunk
    /\ UNCHANGED <<journal, cutoff, blocked, open, pc, cur, todo, through,
                   inputVars>>

\* MUTANT of Retire: the journal is retired while blocks are still in hand.
RetireEarly(s) ==
    /\ pc \in {"checkpoint", "final"}
    /\ through[s] > 0
    /\ journal' = {row \in journal : ~(row.stream = s /\ row.last <= through[s])}
    /\ through' = [through EXCEPT ![s] = 0]
    /\ UNCHANGED <<sealed, cutoff, blocked, open, pc, cur, todo, hand,
                   inputVars, released>>

\* MUTANT of Retire: an off-by-one keeps the last row of the stream.
RetireExclusive(s) ==
    /\ pc \in {"checkpoint", "final"} /\ hand = {}
    /\ through[s] > 0
    /\ journal' = {row \in journal : ~(row.stream = s /\ row.last < through[s])}
    /\ through' = [through EXCEPT ![s] = 0]
    /\ UNCHANGED <<sealed, cutoff, blocked, open, pc, cur, todo, hand,
                   inputVars, released>>

Retire(s) ==
    /\ pc \in {"checkpoint", "final"} /\ hand = {}
    /\ through[s] > 0
    /\ journal' = {row \in journal : ~(row.stream = s /\ row.last <= through[s])}
    /\ through' = [through EXCEPT ![s] = 0]
    /\ UNCHANGED <<sealed, cutoff, blocked, open, pc, cur, todo, hand,
                   inputVars, released>>

CheckpointDone ==
    /\ pc \in {"checkpoint", "final"} /\ hand = {}
    /\ \A s \in Stream : through[s] = 0
    /\ pc' = IF pc = "final" THEN "stopped" ELSE "expire"
    /\ UNCHANGED <<durableVars, open, cur, todo, hand, through, inputVars,
                   released>>

\* expire_retention deletes blocks whose newest event is past the TTL, then
\* enforce_budget deletes whole blocks: both delete records of the store only.
Expire(gone) ==
    /\ pc = "expire"
    /\ gone \subseteq {r \in sealed : EventAt[r.key] + MessageTtl < now}
    /\ sealed' = sealed \ gone
    /\ released' = released \cup gone
    /\ pc' = "budget"
    /\ UNCHANGED <<journal, cutoff, blocked, open, cur, todo, hand, through,
                   inputVars>>

EnforceBudget(gone) ==
    /\ pc = "budget"
    /\ gone \subseteq sealed
    /\ sealed' = sealed \ gone
    /\ released' = released \cup gone
    /\ pc' = "idle"
    /\ UNCHANGED <<journal, cutoff, blocked, open, cur, todo, hand, through,
                   inputVars>>

-----------------------------------------------------------------------------
\* Operations of the other tasks on the store and on the open blocks.

\* SqliteBlockStore::purge_channel, at a cutoff read before it was queued.
PurgeStore(c, t) ==
    /\ count.purge < MaxPurge
    /\ cutoff' = [cutoff EXCEPT ![c] = IF t > @ THEN t ELSE @]
    /\ sealed' = {r \in sealed : ChannelOf(r) # c}
    /\ released' = released \cup OfChannel(sealed, c)
    /\ count' = [count EXCEPT !.purge = @ + 1]
    /\ UNCHANGED <<journal, blocked, coordVars, now, nextSeq, inbox, stopping>>

\* SharedOpenBlocks::purge_channel drops the channel's block.
PurgeOpen(c) ==
    /\ open[c] # {}
    /\ open' = [open EXCEPT ![c] = {}]
    /\ released' = released \cup open[c]
    /\ UNCHANGED <<durableVars, pc, cur, todo, hand, through, inputVars>>

\* SqliteBlockStore::set_channel_blocked
Block(c) ==
    /\ count.purge < MaxPurge
    /\ blocked' = blocked \cup {c}
    /\ sealed' = {r \in sealed : ChannelOf(r) # c}
    /\ released' = released \cup OfChannel(sealed, c)
    /\ count' = [count EXCEPT !.purge = @ + 1]
    /\ UNCHANGED <<journal, cutoff, coordVars, now, nextSeq, inbox, stopping>>

Unblock(c) ==
    /\ c \in blocked
    /\ blocked' = blocked \ {c}
    /\ UNCHANGED <<journal, sealed, cutoff, coordVars, inputVars, released>>

\* append_batch of records another node returned, whenever they arrive.
PeerFill(rs) ==
    /\ count.fill < MaxFill
    /\ rs # {}
    /\ AppendToStore(rs)
    /\ count' = [count EXCEPT !.fill = @ + 1]
    /\ UNCHANGED <<journal, cutoff, blocked, coordVars, now, nextSeq, inbox,
                   stopping>>

\* Shutdown cancels the sources; the coordinator drains its queues.
Shutdown ==
    /\ ~stopping /\ pc \notin {"recover", "replay"}
    /\ stopping' = TRUE
    /\ UNCHANGED <<durableVars, coordVars, now, nextSeq, inbox, count, released>>

\* The process dies, or an error of the coordinator takes it down, and a new
\* one starts on the same files; a clean stop is followed by a start as well.
\* A new connection gets a stream id of its own: its numbers go on.
Restart ==
    /\ open' = [c \in Channel |-> {}]
    /\ pc' = "recover" /\ cur' = NoRow /\ todo' = {} /\ hand' = {}
    /\ through' = [s \in Stream |-> 0]
    /\ inbox' = {} /\ stopping' = FALSE
    /\ UNCHANGED <<durableVars, now, nextSeq, released>>

StartAgain ==
    /\ pc = "stopped"
    /\ Restart
    /\ UNCHANGED count

Crash ==
    /\ count.crash < MaxCrash
    /\ count' = [count EXCEPT !.crash = @ + 1]
    /\ Restart

-----------------------------------------------------------------------------
\* Records a source delivers now.
Arriving == [key : Key, recv : {now}, fid : Delivered]

Coordinate ==
    \/ \E row \in inbox : Accept(row)
    \/ \E r \in cur.recs : Materialize(r)
    \/ MaterializeDone
    \/ RecoverStart
    \/ \E row \in todo : RecoverRow(row)
    \/ ReplayFlush
    \/ RowReplayed
    \/ RecoverDone
    \/ \E due \in SUBSET OpenChannels : SealDue(due)
    \/ SealAppend
    \/ CheckpointStart
    \/ \E chunk \in SUBSET hand : CheckpointAppend(chunk)
    \/ \E s \in Stream : Retire(s)
    \/ CheckpointDone
    \/ \E gone \in SUBSET sealed : Expire(gone) \/ EnforceBudget(gone)

Environment ==
    \/ Tick
    \/ \E s \in Stream, rs \in SUBSET Arriving : Receive(s, rs)
    \/ \E c \in Channel : \E t \in 1 .. now : PurgeStore(c, t)
    \/ \E c \in Channel : PurgeOpen(c) \/ Block(c) \/ Unblock(c)
    \/ \E r \in [key : Key, recv : 1 .. now, fid : Delivered] : PeerFill({r})
    \/ Shutdown
    \/ StartAgain
    \/ Crash

Next == Coordinate \/ Environment

Spec == Init /\ [][Next]_vars

(***************************************************************************)
(* Fairness.  The coordinator is one task that the runtime polls as long   *)
(* as it can run, so the steps inside an operation are weakly fair.        *)
(* Between operations it selects among the ready branches of its loop, at  *)
(* random (tokio::select!), so a branch that is ready again and again is   *)
(* taken: queued batches and checkpoints are strongly fair.  Nothing is    *)
(* assumed of the clock, the sources, the handlers, seals or a shutdown.   *)
(***************************************************************************)
Fairness ==
    /\ WF_vars(RecoverStart) /\ WF_vars(\E row \in todo : RecoverRow(row))
    /\ WF_vars(RowReplayed \/ ReplayFlush \/ RecoverDone)
    /\ WF_vars(\E r \in cur.recs : Materialize(r))
    /\ WF_vars(MaterializeDone) /\ WF_vars(SealAppend)
    /\ SF_vars(\E row \in inbox : Accept(row))
    /\ SF_vars(CheckpointStart)
    /\ WF_vars(\E chunk \in SUBSET hand : CheckpointAppend(chunk))
    /\ WF_vars(\E s \in Stream : Retire(s))
    /\ WF_vars(CheckpointDone)
    /\ WF_vars(\E gone \in SUBSET sealed : Expire(gone) \/ EnforceBudget(gone))

FairSpec == Spec /\ Fairness

-----------------------------------------------------------------------------
\* Type correctness of the whole data path.
TypeOK ==
    /\ now \in Nat
    /\ nextSeq \in [Stream -> Nat]
    /\ inbox \subseteq Row
    /\ journal \subseteq Row
    /\ sealed \subseteq Record
    /\ cutoff \in [Channel -> Nat]
    /\ blocked \subseteq Channel
    /\ open \in [Channel -> SUBSET Record]
    /\ pc \in {"recover", "replay", "idle", "materialize", "seal",
               "checkpoint", "final", "expire", "budget", "stopped"}
    /\ cur \in Row
    /\ todo \subseteq Row
    /\ hand \subseteq SUBSET Record
    /\ through \in [Stream -> Nat]
    /\ stopping \in BOOLEAN
    /\ count \in [crash : Nat, purge : Nat, fill : Nat]
    /\ released \subseteq Record

\* Whatever order appends, purges, blocks, unblocks, fills and crashes come
\* in, the sealed store (append_transaction, purge_channel,
\* set_channel_blocked) never holds a record of a blocked channel or one
\* received at or before its channel's cutoff.
StoreRespectsControls ==
    \A r \in sealed : ChannelOf(r) \notin blocked /\ r.recv > cutoff[ChannelOf(r)]

\* A crash loses no acknowledged message: whatever the coordinator holds in
\* memory only (batch in progress, open blocks, blocks in hand) is in a
\* journal row that a restart replays (recover_pending).
MemoryIsJournaled ==
    KeysOf(cur.recs \cup OpenRecords \cup HandRecords) \subseteq KeysOf(JournalRecords)

\* Every journal row that recovery is done with has each of its records, or a
\* better copy, in the pipeline or the store, unless a purge, a block or
\* retention took it: what makes retire_journal_through safe.
Pipeline == cur.recs \cup OpenRecords \cup HandRecords \cup sealed

JournalIsPlaced ==
    pc # "recover" =>
        \A row \in journal \ todo : \A r \in row.recs :
            \E q \in Pipeline \cup released : Covers(q, r)

\* A graceful shutdown leaves nothing behind: no queued batch, no open block,
\* no journal row (the cancellation branch of run).
ShutdownDrains ==
    pc = "stopped" => inbox = {} /\ journal = {} /\ OpenRecords = {}

\* The journal is always emptied again: every accepted row is processed and
\* retired by a later checkpoint, crashes and shutdowns notwithstanding.
JournalDrains == []<>(journal = {})

\* The data path implements a durable cache: a message its files hold, in the
\* journal or in the store, stays there in that copy or a better one through
\* replacement in open blocks, appends, retirement and crashes, until a purge,
\* a block or retention discards it.
Cache == INSTANCE DurableCache WITH durable <- JournalRecords \cup sealed
ImplementsDurableCache == Cache!Spec
=============================================================================
