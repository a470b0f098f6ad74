# A TLA+ model of recent-messages

recent-messages keeps the last few hundred chat messages of many Twitch
channels and serves them over HTTP.  It is a Rust server: a durable ingest
path, a compressed block store in SQLite, a control database, an IRC client, a
web server, and optional replication between nodes.  This directory holds TLA+
models of the parts whose correctness depends on order: of steps of concurrent
tasks, of transactions and crashes, of messages between nodes.

Paths below are relative to the repository root.

## 1. Inventory

| component | source | state | operations | hard because |
| --- | --- | --- | --- | --- |
| ingest coordinator | `src/storage/ingest.rs`, `ingest_runtime.rs` | `materialized_through`, position in its loop | accept, materialize, recover, seal, checkpoint, retire, expire, drain | crash between any two transactions, duplicates, concurrent purges |
| open blocks | `src/storage/open_blocks.rs` | per-channel tail in memory, byte and message estimates | append, seal due, seal all, purge, query | shared with HTTP handlers, three limits |
| sealed store | `src/storage/sqlite.rs`, `block.rs` | blocks, channels, journal, offsets, cutoffs, blocked list, totals | append, journal, retire, evict, expire, purge, block, query | deduplication across blocks, counters kept in several transactions |
| store actor | `src/storage/sqlite_async.rs` | bounded command queue, reader pool | one writer thread runs the transactions in order | a reply that is no longer awaited |
| owner controls | `src/web/ignored.rs`, `purge.rs` | none of their own | opt out, opt in, purge | two databases and memory, written one after the other |
| read path | `src/web/get_recent_messages.rs`, `coverage.rs` | none | merge store and tail, assess coverage, start repair | reads several stores without a common snapshot |
| control plane | `src/cluster.rs`, `src/web/cluster_policy.rs`, `web/mod.rs` | snapshot with revision, applied policies | mutate, push, pull, receive, apply, gate, synchronize | lost and late messages, crashes, stale policies |
| repair | `src/web/repair.rs` | circuit breakers, permits, jobs in flight, checkpoints | fetch, start or attach, wait | cancellation, timeouts, half-open probes |
| control database | `src/db.rs` | channels, coverage, join state, sessions, checkpoints | one transaction each | attempts and confirmations out of order |
| IRC listener | `src/irc_listener.rs`, `storage/direct_irc.rs` | wanted channels, batcher | join, part, forward, reconcile | backoff, live coverage across reconnects |
| firehose sources | `src/storage/raw_firehose.rs`, `raw_irc.rs` | sequence numbers, batch | receive, flush, reconnect | back pressure, cancellation |
| budget, eviction | `src/storage/budget.rs`, `eviction.rs` | none | plan, evict until below target | floors, tiers, overhead estimates |
| peers, placement | `src/web/peer.rs`, `storage/placement.rs` | permits | local read, delegate, merge | hop limits, deadlines |
| response cache | `src/web/response_cache.rs` | entries, order, bytes, pressure | get, insert, expire, evict | two bounds, keys that must not cross a purge |
| sessions | `src/web/auth.rs`, `auth_endpoints.rs`, `auth_middleware.rs` | authorizations | create, validate, refresh, extend, revoke | refresh racing a revocation |
| supervision | `src/main.rs`, `shutdown.rs` | cancellation token, workers | start order, shutdown | one worker ending takes the rest down |

The components meet in three places.  Handlers and the coordinator share the
open blocks (a lock) and the store actor (a queue).  Nodes exchange snapshots
and mutations over HTTP.  Everything durable is in two SQLite files per node,
the block store and the control store, and no transaction spans both.

What would make each component correct, and where the models stand:

| component | what must hold | module |
| --- | --- | --- |
| ingest coordinator, open blocks, sealed store | nothing acknowledged is lost by a crash; the better copy of an event stays; a purge or a block is never undone; the journal and a shutdown drain | `DurableIngest`, `DurableCache` |
| open blocks in detail | counters are exact, limits are enforced, a read beside a seal misses nothing | `OpenTail` |
| sealed store in detail, budget and eviction | counters agree with the blocks, an event is stored once and in its best copy, an append costs its channel only what it can spare, retention takes only what expired, a plan keeps to tiers and floors | `BlockStore`, `RecordStore` |
| journal | a committed offset never passes a gap | `JournalOffsets` |
| owner controls | between requests both databases agree; what is purged stays away | `OwnerControls` |
| control plane | a success means every mirror has applied the change; a mirror never goes back; what a node counts as applied it enforces | `ControlPlane`, `PolicyLog` (without consensus) |
| repair | one job per channel, one probe per open circuit; a final outcome is recorded before it is announced; a job ends | `Repair` |
| coverage | assessment agrees with its definition, millisecond by millisecond | `Coverage` |
| peers | a read does not cascade, does not wait for ever, and does not call a short answer complete | `Peers` |
| IRC listener | demanded channels are joined again, others left; coverage is claimed only for what was received | `JoinHealth`, `LiveCoverage` |
| response cache | both bounds hold; an answer is never older than the configured age | `ResponseCache` |
| sessions | a lost grant ends access in bounded time; a dead session stays dead | `Sessions` |
| supervision | one worker that ends takes the rest down, in order | not modelled beyond `Shutdown` and `Restart` of `DurableIngest` |

## 2. Plan

Most important first; each step is usable without the next.

1. `DurableCache` (what the files promise), `DurableIngest` (the pipeline that
   implements it), `DurableIngest_proofs`.  Done.
2. `OwnerControls`: extends `DurableIngest` with the handlers that change what
   may be stored, and the start that reconciles both databases;
   `OwnerControls_proofs`.  Done.
3. `PolicyLog` (what replication promises), `ControlPlane` (the protocol that
   implements it), `ControlPlane_proofs`.  Done.
4. The read path: `Repair`, `Coverage`, `ResponseCache`, `Sessions`, `Peers`.  Done,
   with `Repair_proofs`, `Peers_proofs` and `Serving_proofs`.
5. Storage in detail: `RecordStore` (what the store promises), `BlockStore` (which
   implements it), `OpenTail`, `JournalOffsets`, `Storage_proofs`.  Done.
6. The IRC side: `JoinHealth`, `LiveCoverage`.  Done, with `Irc_proofs`.
7. Left: the start of a clustered node with channels to pin (it waits for its
   mirrors, and they for it), the supervision of tasks in `main`, and the read
   transactions of the store.

## 3. Modules

Each component module can be read alone.  `OwnerControls` composes the data path
with the owner's requests; `DurableIngest` composes coordinator, open blocks,
sealed store and journal; `ControlPlane` composes nodes.  The other modules go
into the detail of one component and take its neighbours as nondeterministic
inputs.

### DurableIngest, DurableCache

One node's data path.  A record is the key of its event, the time it was received
and the fidelity of its source.

| variable | code |
| --- | --- |
| `inbox`, `nextSeq` | the bounded channel of `RawIngestRuntime`, sequence numbers of the sources |
| `journal`, `sealed`, `cutoff`, `blocked` | the tables of the block store: durable, each write transaction one action |
| `open` | `OpenBlockManager` behind its lock |
| `pc`, `cur`, `todo`, `hand`, `through` | where the coordinator is, the batch and the replay in progress, blocks taken from memory, `materialized_through` |
| `stopping` | the cancellation token |
| `released` | history: the copies discarded on purpose |

Actions are the coordinator's steps between two awaits (`Accept` is the journal
transaction, `Materialize` one record into its open block with the blocks that
become full, `SealAppend` and `CheckpointAppend` one append transaction,
`Retire` one `retire_journal_through`, and so on), the HTTP handlers' writes
(`PurgeStore`, `PurgeOpen`, `Block`, `Unblock`, `PeerFill`), the sources
(`Receive`), the clock, `Shutdown`, `StartAgain` and `Crash`.  A crash empties
everything but the four tables; a restart replays the journal.

`DurableCache` has one set, the copies the files hold, and says they only go
when replaced by a copy as good or released.

### OwnerControls

Extends `DurableIngest` with `ignored` of the control store and up to `Handler`
requests.  `set_ignored` and `purge_messages` are one action per database they
touch, and the timeout may drop them between two.  `SyncBlocked` is the part of
`main` that copies the opt-outs to the block store before anything runs.

### ControlPlane, PolicyLog

An owner and its mirrors.  Per node: `state` (the tables `rm_metadata`,
`rm_channel`, `rm_auth`, that is revision, readiness and content), `applied`
(`cluster_applied_policy`), `mem` (`AppliedPolicies`), `lock` (its mutex), and of
the block store `blocked` and `cutoff`.  `mut` is the holder of the owner's
`mutation_lock` with the pushes it waits for; `net` holds the snapshots on their
way.  A `task` is the sync loop, a start or an accepted snapshot of a node (the
mirror's `receive_lock` lets one accept run at a time), or a client's request.

A change is `ChangeFor` (opt out, opt in, purge), `Pin`, `PinRefused`,
`ReplacePins`, `SaveAuth` or `Revoke`: it commits with the next revision and
pushes.  Pushes are lost, refused, accepted, timed out at the owner (`PushFails`)
and answered late.  A request that came from a mirror is carried out at the owner
(`mutation_post`), which synchronizes itself before the mirror's handler goes on.
`apply` is `ApplyNothing` (its early returns), `ApplyRefused`, or `ApplyStart`
(block), `ApplyPurge`, `ApplyPersist`, `ApplyInsert` under the mutex, and may be
dropped between any two of them.

`PolicyLog` is the promise: the owner appends to a log, a mirror shows an entry
and moves forward, and what is acknowledged every mirror has reached.

### BlockStore, RecordStore

The tables of `storage/sqlite.rs` with what `DurableIngest` leaves out: blocks as
rows with a rowid and a sequence number, the counters of channels and totals that
triggers and transactions maintain (`channels`, `totals`), and the budget.

| variable | code |
| --- | --- |
| `blocks`, `channels`, `totals`, `excluded`, `always` | the tables `message_blocks`, `channels`, `store_totals`, `blocked_channels`, and the pins |
| `expiring` | the cutoff of the expiry command that holds the writer between two of its transactions |
| `plan` | the rowids an enforcement pass chose on a reader's snapshot and has not yet deleted |
| `physical`, `stopped`, `wall` | size of the database file, failure of enforcement, unix time |

A batch is merged as `append_transaction` does: overlapping blocks are found,
better copies replace worse ones in place, what is new is cut into blocks, and the
channel is trimmed to its allowance.  Batches may hold events ahead of the store's
clock: an append compares them with the purge cutoff only.  Expiry is one action per
transaction, and no other command runs between them.
Enforcement is measure, plan (`Choose`: by tier of demand, age and floor, with the
overhead share estimated as in `eviction.rs`), delete, and again until the target
is met or the passes are used up.  The two loops of the plan are folds: `Consider`
is a turn of the first, `Cross` of the second, `Final` the order they go in.

`RecordStore` has no blocks, only the set of records held and the channels excluded.
`Append` merges a batch, of every event the best copy, and may drop records of the
batch's channel while `Enough` stay; `Forget` is what expiry, purges and evictions do;
`Exclude` leaves an excluded channel nothing.  `ImplementsRecordStore` of `BlockStore`
maps a block to its records, and `AppendsMerge` says which abstract step an append is.

### OpenTail

`storage/open_blocks.rs` with its bounds: `open` (the tails), `estimated` (bytes and
messages), `sealing` (blocks taken from memory), `stored` (what reached the store),
and one read (`reads`, `shown`) that asks the store first and memory second while
blocks move.  An append that overflows seals the largest or oldest tail; an append
whose time lies before the channel's last one fails, and the ingest with it.

### JournalOffsets

`accept_journal_batch` and `retire_journal_through` for any batches: `journal` and
`committed` are the tables, `began` and `received` are history.

### Repair

`web/repair.rs`: `circuit` (failures, opening time, probe flag of a provider),
`inFlight` (the map that makes a job single flight), `job` (each spawned task, with
one attempt per provider: waiting for a permit, calling, done), `checkpoint` (the
table), `reader` (requests that read checkpoints, start or attach, and read the
checkpoints again).  Publishing, recording and leaving the map are separate steps,
in the code's order.  What a provider answers is a choice.

### Coverage

`coverage.rs` and the checkpoint rules of `web/repair.rs` as operators: merging
intervals, the uncovered rest of a window, bridging of small gaps, whether a repair
is worth trying, which coverage label an answer gets.  There is no step: the run
compares them with their meaning, millisecond by millisecond, over all inputs in
the bounds.

### ResponseCache

`web/response_cache.rs` around the read it saves: `cache`, `order`, `bytes` (entries,
insertion order, running count), `pressed` (until when pressure lasts), `visitor`
(requests between arrival, read and response).  `hitAge` is history.  `SizeOf` counts
the bytes as pairs of an entry and a position in its body, and `Retained` is the
`retain` of `remove_entry` as a recursive function: sums over sets and `SelectSeq`
are out of the prover's reach, and TLC computes the same with either.

### Sessions

`web/auth_endpoints.rs`, `auth_middleware.rs` and the session table: `row`, two
concurrent clients with copies of it between authentication and the end of their
handler, and `twitch`, external, which may withdraw the grant or rotate tokens.

### Peers

`web/peer.rs` and the part of the read that asks peers: `handlers` maps each client
read to the handlers it caused, addressed by the path of nodes that led to them; a
handler holds a slot (`AdmitSlots`) and, while it waits for peers, a permit
(`PeerPermits`).  `kept` and `claimed` are a node's records and recorded coverage.
A call can be given up at any moment, and a handler dropped where it waits.

### JoinHealth, LiveCoverage

`JoinHealth` is which channels the IRC client is in: the channel table (`access`,
`pinned`, `ignored`, `joinState`), the reconciliation loop, `join_if_needed` of a
request, the opt-out of an owner and the pin of an operator, and, external, the
client (`wanted`, `joined`) with Twitch's answers (`outstanding`, `inbox`).
Deadlines are abstracted to whether they have passed.  Under the gate a request has a
step for each of its awaits (`Touch`, `Check`, `Begin`, `JoinNow`); what the client
said of the channel may be out of date when the store is told.  `TouchSkipped` is a
touch that finds the row written less than half an hour ago, which matters where
channels expire sooner than that.  `OwnerDropped` is an opt-out or opt-in that reaches
the control store and never the client: the timeout dropped its handler or a call in
between failed, and the next reconciliation has to make up for it.

`LiveCoverage` is what the forwarder claims to have received: `live` (open claims),
`closed` (intervals), `batch` (records not yet handed to the coordinator), `lost`
(history), and whether the coordinator still takes batches.  That a failed discard
of claims is only logged in the code is left out: discards are taken to be written.

## 4. Model checking

The runs of the data path, the owner controls and the control plane check for
deadlock.  `ServingParts`, `StorageParts` and `IrcParts` do not: their requests, jobs,
clocks and calls are used up by the bounds.  A mutant of each property's code, marked
`MUTANT of` in the modules, is found by the run that checks it.

| configuration | question | result |
| --- | --- | --- |
| `IngestSafety` | is anything acknowledged only in memory, can a purge, a block, a fill or a replay make the store hold what is excluded, can a copy of lower fidelity win? | no; the files implement `DurableCache` |
| `IngestDrains` | do a shutdown and the checkpoints empty queue and journal, with a purge, a block and a fill meanwhile? | yes, under `Fairness` |
| `OwnerOneAtATime` | one request at a time, dropped anywhere, and a crash: do the databases agree afterwards, and does what was purged stay away and leave memory? | yes |
| `OwnerPurge` | is a purge final once it is answered? | no, see below |
| `OwnerOptOut` | does an opt-out delete what is stored? | no, see below |
| `ControlRequests` | one client at a time at any of three nodes, drops, late pushes, a crash: does a read see every success, does a node enforce what it counts as applied, does a success mean both mirrors have applied it? | yes |
| `ControlLoops` | do pulls, pushes, pins, sessions and clocks that go back keep each node able to start and each mirror a follower of the log? | yes |
| `ControlSettles` | does every node come to enforce the owner's state when every push may fail? | yes, under `Fairness` |
| `ControlRace` | does an opt-out keep a channel from being recorded with two requests at once? | no, see below |
| `ServingParts` | repair, coverage, cache, sessions and peers: are probes single and outcomes recorded, are assessments exact, is staleness bounded, does a lost grant end access, do reads end without cascading? | yes |
| `StorageParts` | store, open blocks and journal: are the counters exact, events unique, plans fair, is only expired data taken, is a committed offset without a gap? | yes |
| `IrcParts` | are demanded channels joined and others left, and is claimed coverage received? | yes, the first under `JoinFairness` |

`IngestSafety` and `ControlRequests` hold several instances, `ServingParts`,
`StorageParts` and `IrcParts` several components that share no state.  The initial
state chooses one, every step keeps the choice, and what was not chosen stays at an
initial state: the state graph is the disjoint union of the parts' graphs, so a
property of one part is checked over that part's behaviours and holds trivially in
the others.  Peers is there twice: a crowd of two reads on two linked, full nodes,
and a lone read over three linked nodes.

**What the counterexamples show.**

- `PurgeIsFinal`: a purge empties the store and the tail; a record the coordinator
  has journaled and not yet put into its open block, or that a restart replays, is
  put there afterwards and served until the block is sealed, when the cutoff drops
  it.  The settings page calls a purge final.  `PurgesSettle` (which holds) is the
  weaker truth: it goes in the end.
- `OptOutDeletes`: opting out on a standalone node does not empty the open block,
  so opting in again serves messages from before.
- `OptOutRecordsNothing`: `set_ignored` writes the block store outside the mutex of
  `AppliedPolicies`.  The older of two requests may write last; `apply` then finds
  the newer policy already applied and returns early, now and at each later
  synchronization, and the opted-out channel is stored again until a restart.  With
  a second `Handler`, `IgnoredIsBlocked` of `OwnerControls` fails in the same way.

The next seven come from invariants and action properties that are stated in the
modules and listed with no run.  Each fails when it is added to the configuration
named:

- `ReadsIncludeTail` (`StorageParts`): a read asks the store first and the open
  blocks second, and what is sealed between the two, or is on its way during both,
  is in neither answer.
- `FloorsHold` (`StorageParts`): an eviction deletes by rowid what was planned
  earlier.  Rowids are used again, so after a purge or a trim the plan may name
  another channel's new block and take a requested channel below its floor.
- `ProbeFlagIsTruthful` (`ServingParts` with two providers): an attempt that does not
  get its permit in time returns without `finish_attempt`.  If it was the half-open
  probe, its flag stays set and the provider is refused until the process restarts.
- `LoggedOutStaysOut` (`ServingParts`): a validated session is written back with an
  upsert, which brings back a row that a logout deleted meanwhile.
- `ClaimsAreKept` (`ServingParts`): a read with a lower bound copies a peer's records
  from there on and its coverage from the beginning.
- `AnswersAreComplete` (`ServingParts` with `AdmitSlots = 2`): records are read before
  coverage; another read may store a copy of both in between.  Alone
  (`LoneAnswersAreComplete`) a read is right.
- `PartedClaimIsReceived` (`IrcParts`): a PART closes a claim while records under it
  wait in a batch, and a batch that is then refused withdraws open claims only.

**Bounds.**  All are constants (or, for `crashes`, a counter) marked `BOUND` or
`bound`.  One or two keys are enough for the
data path because records of different events meet only in a channel's limits
(three keys over two channels where one channel may be open).  Two sequence
numbers per stream give a journal with a row before and a row after the one in
question, one crash meets every step, and each replay is itself interrupted in no
new way (recovery only repeats steps that are idempotent, `JournalIsPlaced`).
`ControlPlane` has two revisions: an older and a newer state is what every hazard
of ordering needs.  Its sync loops run only where a run asks about them
(`Loops`), and one snapshot that no push waits for is on its way to a mirror at a
time: with the current push that makes an old and a new one in either order.
Where `Skew` is `FALSE` a clock is past the last cutoff it reads; `ControlLoops`
drops that assumption.  The two mirrors of `ControlRequests` are symmetric: no
action or property names one of them.

In `ServingParts` two jobs on two channels share one permit and one provider whose
circuit opens at the first failure, so that a probe, another job's answer and a lost
permit meet (there a fetch is quicker than a tick; the theorem of `Repair` covers every
timeout); a coverage input has up to three intervals (times 0 to 4), the
first two possibly inverted, which is every way in which two neighbours and the window
can touch, nest, overlap or miss, and a chain of three; the cache holds
two entries and fewer bytes than two large ones need; a session has two clients and
one token to rotate; each node has one slot and one permit, so that a crowd of two
reads fills both nodes and each waits on the other.  In `StorageParts` blocks have two
records, channels keep as many as two blocks, and three rowids suffice for one to be
freed and given again; events of one channel may be ahead of the clock (`OnTime` keeps
the other's behind it, which the theorems do not need); the open blocks overflow in channels and in bytes; three
sequence numbers and two payloads give gaps, overlaps and contradicting replays.  In
`IrcParts` the forwarder has two channels and four events over batches of up to three;
join health has one channel, since no action of one channel reads another's state but
through the shared loop, which walks a list.

**Fairness.**  The coordinator is one task of a loop over `tokio::select!`, which
picks at random among the ready branches: its steps are weakly fair and the
branches strongly fair.  In `ControlPlane` processes are restarted (systemd), the
sync intervals and timeouts fire, tokio's mutexes are first come first served,
and of the answers to a mirror that keeps asking one arrives.  Pushes, clients,
clocks, crashes and drops get none.

`RepairFairness`: the runtime polls each spawned job and its timers, and every HTTP
call has a deadline; the requests that attach get no fairness, a client may hang up.
`PeersFairness` is that of the node the client asked only: its handlers run and its
calls end by their timeouts, the peers may stay silent.  `JoinFairness`: the
reconciliation interval and the poll tick, time passes for deadlines and backoff, the
forwarder reads its queue.  The tick and the database query are strongly fair because
the loop may be busy, or the query fail, now and again.  `Touch` is too: a row that is
touched over and over is refreshed when it is half an hour old.  Twitch gets no
fairness but that it answers: whether it accepts a JOIN is free until `calm`, after which it does,
and `MembershipFollowsDemand` only speaks of behaviours that become calm.  What is
assumed of the twitch-irc client is that it sends a JOIN for a wanted channel that is
not confirmed, a PART for one no longer wanted, and joins the wanted channels again
after a lost connection.

## 5. Proofs

Eight modules have proofs.  Every theorem holds for all values of the constants that
satisfy the named assumptions of the modules it is about; what a theorem assumes
beyond them is in its statement and explained below.

| module | theorem | statement |
| --- | --- | --- |
| `DurableIngest_proofs` | `TypeCorrect`, `ControlsRespected`, `CrashLosesNothing`, `JournaledIsPlaced` | `Spec => []TypeOK`, `[]StoreRespectsControls`, `[]MemoryIsJournaled`, `[]JournalIsPlaced` |
| | `StopIsDrained` | `Spec => []ShutdownDrains` |
| | `Refinement` | `Spec => ImplementsDurableCache` |
| `OwnerControls_proofs` | `PurgedStaysOut` | `OwnerSpec => []PurgedNeverStored` |
| | `ListsStayEqual` | with one handler, `OwnerSpec => []IgnoredIsBlocked` |
| `ControlPlane_proofs` | `ControlTypes`, `AppliedFollowsState`, `AckedReads` | `Spec => []TypeOK`, `[]NeverAhead`, `[]ReadsHonorAcks` |
| | `AckedIsPurged` | `Spec => []` every mirror's cutoffs reach those of the last acknowledged entry |
| | `AppliedPolicies`, `AckedChanges` | `Orderly /\ Spec => []AppliedIsEnforced`, `[]AckedIsEnforced` |
| | `ControlImplementsLog` | `Spec => ImplementsLog` |
| `Storage_proofs` | `StoreIsTyped`, `CountersFollowBlocks`, `EventsAppearOnce` | `StoreSpec => []StoreTypeOK`, `[]CountersAreExact`, `[]EventsAreUnique` |
| | `RetentionTakesExpired`, `PlansAreFair` | `StoreSpec => ExpiryTakesOnlyExpired`, `PlanIsFair` |
| | `StoreImplementsRecords`, `AppendsAreMerges` | `StoreSpec => ImplementsRecordStore`, `AppendsMerge` |
| | `OpenBlocksAreCounted`, `NewEventsAreBounded` | `TailSpec => []TailIsCounted`, `TailSpec => NewEventsFit` |
| | `OffsetsHaveNoGaps` | `OffsetSpec => []OffsetCoversNoGap` |
| `Repair_proofs` | `OneProbeAtATime` | `OpenDuration > RequestTimeout` implies `RepairSpec => []AtMostOneProbe` |
| | `CompletionIsRecorded`, `RepairIsTyped` | `RepairSpec => []FinalIsRecorded`, `[]RepairTypeOK` |
| `Peers_proofs` | `ReadsDoNotCascade`, `PeersAreTyped` | `PeersSpec => []NoCascade`, `[]PeersTypeOK` |
| | `LoneReadsAreComplete` | `LoneSpec(q) => []AnswersAreComplete` |
| `Serving_proofs` | `SessionsAreTyped`, `LostGrantsStop`, `DeadSessions` | `SessionSpec => []SessionTypeOK`, `[]GrantLossStopsRequests`, `DeadSessionStaysDead` |
| | `AnswersAreFresh`, `CacheIsBounded` | `CacheSpec => []StalenessIsBounded`, `[]CacheTypeOK` |
| | `CompletenessIsExact`, `BestEffortStands` | `InputType /\ [][CoverageNext]_input => []AssessmentIsExact`, `[]BestEffortIsBacked` |
| | `ServingIsTyped`, `LoneReadsOfTheRun` | `ServingSpec => []ServingTypeOK`, `[]LoneAnswersAreComplete` |
| `Irc_proofs` | `JoinsAreGated`, `IrcIsTyped` | `JoinSpec => []JoinTypeOK`, `IrcSpec => []IrcTypeOK` |
| | `ClaimsAreReceived`, `ClaimsAreDisjoint` | `ForwardSpec => []ClaimIsReceived`, `ForwardSpec => []ForwardTypeOK` |

### The data path

`JournalIsPlaced`, `MemoryIsJournaled` and the refinement are not inductive.
`MemoryIsJournaled` needs to know that when the journal is retired nothing is left in
memory, and that holds because of where the coordinator is in its loop.  `Phases`
says it: rows wait for replay only in recovery, a batch is in progress only while it
is materialized or replayed, blocks are in hand only in the phases that append them,
and a checkpoint runs with no block open.  `PhasesStep` proves it beside `TypeOK`.

The rest rests on three lemmas about the operators: `MergeCovers` (a merge keeps a
copy as good as every record given to it), `AppendFacts` (an append transaction
stores only admitted records and releases what it drops) and `OpenAppendFacts`
(an append to an open block neither invents nor loses a record).  `PipelineKept`
combines them into the step argument of `JournalIsPlaced`: what a step takes out
of the pipeline it puts elsewhere in it, or into `released`.  The refinement then
has one case per action: `Retire` is the only one that takes rows out of the
journal, and by then `JournalIsPlaced` has put each record in the store.
`StopIsDrained` needs `Draining`: after recovery each journal row is still to be
replayed, in progress or processed, and the phases of the final checkpoint have an
empty inbox.

### Owner controls

`PurgedStaysOut` reuses the invariants of the data path: all but one step of
`OwnerControls` are steps of it (`OwnerStepIsDataPath`), and `CutoffsHold` adds that
an answered purge is in the store's cutoffs and that a handler between the two halves
of a purge has written the first.  For `ListsStayEqual` requests must come one at a
time.  With two, `ignored` and `blocked` can be left with different answers, since
`set_ignored` writes the two databases one after the other and nothing serializes two
calls; `ListsAgree` says what one handler leaves between its writes, and that only a
channel whose request was dropped there may differ until the next start.

### The control plane

The invariant has seven parts that rest on each other in this order: `Types`,
`Locked` (who holds a node's mutex is at a step that holds it), `Following` (every
node's state and every snapshot in flight is an entry of the log, a push is of the
last one), `PurgesGrow` (no entry takes a purge back), `Reads` (what is applied, or
about to be, is an entry the node's state has reached), `Effects` (the store's cutoff
is never behind what is counted as applied) and `Pushing` (what the owner still waits
for is on its way or being applied, once for each mirror).  `Acks` then says that
every mirror has reached what is acknowledged, which gives `AckedReads` and
`AckedIsPurged`; the refinement of `PolicyLog` needs `Following` only.

`AppliedIsEnforced` and `AckedIsEnforced` hold under `Orderly` only, which is
`Lone /\ ~Skew`: one request at a time, and no clock behind a recorded cutoff.  Both
are needed.  The early return of `apply` compares purge times, so it takes a policy
for applied when the clock did not move past the last cutoff and the policy that
follows has the same purge (the hazard at `src/src/cluster.rs:667`); and
`set_ignored` writes the block store outside the mutex, so that the earlier of two
answers can be the last written (the run `ControlRace`).  Under `Orderly` equal
purges mean equal policies (`Functional`), `Asks` follows the one request, and `Flags`
says of each node that its store's block is that of the newest policy it has applied.

### Storage

- The sealed store: `StoreInv` is `Stored`, what is true of blocks, channel rows and
  totals between two transactions, and `Places`, where enforcement and expiry are.
  An append is the hard case.  Its lemmas say that better copies change no count
  (`UpgradesCountTheSame`), that cutting a batch by rank gives chunks of the right
  size (`RanksCount`, `ChunksCount`), that a split loses no message
  (`MessagesSplit`), and that new events and those of the blocks that overlap their
  time are disjoint.
- The plan of an eviction: `PlanSound` is the invariant of its loop, about the blocks
  considered so far.  What a channel keeps is counted exactly, a block of a wanted
  channel is taken or put off only after every block nobody asked for was taken, and
  while the target is not met none of those is left out.  It holds because the order
  is total (`BeforeIsAnOrder`: rowids are unique) and the fold goes through the blocks
  in that order (`FinalIsLast`); that the fold is a function at all is `LoopIsDefined`,
  by a least set of blocks on which it would not be.  The second loop only takes what
  the first put off (`CrossingAdds`), and only at the emergency mark.
- The refinement of `RecordStore`: `GrownIsMerged` says that upgrading the blocks the
  overlap query found and adding blocks of what none of them holds leaves exactly the
  merged records, because a block the query leaves out has no event of the batch
  (`OutsideBatch`); `TrimLeavesEnough` that the newest block a trim takes leaves
  `TargetMessages` to its channel, which needs that a block has at most
  `BlockMessages` and that sequences are unique, so it rests on `StoreInv`.  The
  mapped state needs one invariant more, that an excluded channel has no block
  (`ExcludedHoldNothing`).  A refinement lets every step be any abstract one, and an
  append that dropped all it had would pass for `Forget`; `AppendsAreMerges` therefore
  says of each append that it is the abstract `Append`.  No configuration names
  `ImplementsRecordStore` or `AppendsMerge`; TLC finds both to hold when they take the
  place of the properties of `StorageParts`, and `AppendsMerge` violated when
  `Trimmed` keeps one block less.
- The open blocks: `TailInv` has the estimates equal to what the blocks hold.
  `NewEventsAreBounded` also needs that `enforce_bounds` ends within the limit, which
  is a fact about the order it seals in: `SoonerIsAnOrder` and `TurnsCount` show it
  is total, so that sealing one block after the other reaches every number of blocks,
  and `ExcessFits` that some number is enough.
- The journal: `Advance` is a recursive function over the rows.  `AdvanceIsDefined`
  and `AdvanceIsCovered` show by a least counterexample that it exists and never
  passes a sequence number that was not accepted.

### Repair, peers

- `AtMostOneProbe`: two attempts can only probe at once if the circuit's open time
  runs out while the first is in flight.  A timeout does not exclude that by itself: a
  circuit is opened again by any late failure, and a success clears the probe flag of
  a probe it does not belong to.  The invariant (`RepairInv`) therefore relates times:
  every probe in flight has a deadline, and a probe the circuit no longer knows of
  ends before the circuit can half open again.  This is where
  `OpenDuration > RequestTimeout` comes in; timers are taken to fire on time.  The
  example configuration has 30 s and 10 s; nothing in `src/src/config.rs` checks it,
  and without it the property fails.
- `FinalIsRecorded`: `RecordInv` ties a waiting request to the job it attached to
  and orders the jobs of a channel, so that a newer job's checkpoint is the only one
  that replaces a job's own (`NewestKept`).
- `RepairIsTyped`: that a channel keeps at most `KeptCheckpoints` rests on a job
  recording at most once, so that replacing the oldest one never leaves two of a job
  (`CheckpointsDiffer`), and that no two channels share a job on `RecordInv`.
- `PeersAreTyped`: addresses stay within `MaxDepth` and never step from a node to
  itself, because a node is not among its own peers and a call that is pending has its
  handler (`CallsExist`).  A client's hop header is none, one, or anything else
  (`Hops \subseteq 0..2`).
- `ReadsDoNotCascade`: a handler that is about to ask peers was reached without the
  hop header, and what a peer runs was reached with it (`ReachInv`, by the addresses
  of handlers; asking makes addresses one longer).
- `LoneReadsAreComplete` is about a read that no other read runs beside; with two,
  the property fails (`AnswersAreComplete` in section 4).  `LoneInv` adds that the
  coverage a handler has taken covers the records it has taken, that what comes from
  a peer does too, and that a node's recorded coverage is true of its store except
  for what this read has just recorded itself.

### The web server and the composition of `MCServing`

- Sessions: what a client shows its handler may be an old copy of the row, and the
  row an old copy of another client's, so the invariant (`NoLateStamp`) speaks of rows
  and copies alike: none carries a validation later than the loss of the grant, and a
  request past its check was checked before the loss or on a stamp that is not older
  than `Recheck`.  `DeadSessions` then follows because a dormant session has no copy
  left to be written back.
- The response cache: `CacheTimes` says that an entry is dated at the arrival of the
  request that computed it, not later than the read it stands for.  `CacheIsBounded`
  needs the order to name every entry once (`CacheCounts`): then each turn of the
  eviction loop takes the bytes it subtracts, a least number of turns after which both
  bounds hold exists, and the loop ends there (`EvictionBounds`).
- Coverage: `InputType` allows every request, every returned sequence and every
  finite set of intervals, inverted ones included (`EnumeratedInputs` shows that it
  holds of what the run enumerates).  The loops of `merge_intervals`,
  `uncovered_intervals` and `coverage_bridges` are recursive functions, which exist
  (`FoldIsDefined`), and each has a loop invariant.  `Joined`: merged intervals are
  neither inverted nor touch, and cover the same milliseconds as the sorted ones so
  far.  `Walked`: what lies before the cursor is covered or in a gap, and every gap
  holds something that is not covered, which needs the intervals to be more than
  a millisecond apart (`CursorIsBare`).  `Bridged`: what lies before the cursor is
  covered or within the grace after the checkpoint.
- The composition: the parts share no variable, so that a step of the whole is a step
  of one part and a stutter of the others (`PartsStep`), and `ServingTyped` is the
  conjunction of the parts' inductive invariants.  `LoneReadsOfTheRun` is
  `LoneReadsAreComplete` for the reading `q1` that the part of the run with one reading
  takes (`LoneReading` assumes that it is one of the readings).

### The IRC side

Once the coordinator has refused a batch no claim is open, a claim is closed by a
shutdown only when the forwarder ends, and no claim and nothing in a batch or lost is
ahead of what was received (`Withdrawn`, `NothingAhead`); `ClaimsFollow` adds that a
channel's open claim starts after all its closed ones end.  `JoinsAreGated` has the
gate: the loop and a request that has begun to join never hold it both.

### Only model-checked

Liveness rests on fairness, which the proof system does not handle here:
`JournalDrains`, `PurgesSettle`, `PoliciesTakeEffect`, `JobsLeave`, `ReadsEnd` and
`MembershipFollowsDemand`.  Every invariant and every action property that a run
checks and expects to hold is stated by a theorem, and so are both refinements a run
checks.

## 6. Not modelled, and why

- The consensus role of the control plane leaves the log to an external service;
  epochs separate installations and never change in one.
- The start of a clustered node with bootstrap pins, and the supervision of the tasks
  in `main`: in the plan.
- The store's queries that answer reads (pure selections), the block codec and the migration
  of schemas.  `BlockStore` leaves out cutoffs and admission, which `DurableIngest` has.
- The reconnection of sources and the JOIN rate limits of the twitch-irc client: a
  source delivers or does not, a JOIN is answered or not.
- Placement: it only orders the peers, which `Peers` asks in any order.
- The formats of repair providers, the rendering of the export, request parsing and
  headers other than the hop limits.
- A database write that a dropped handler has already handed to its thread is taken
  as done or not begun; that it might finish after another task's later write is
  left out.
- Parsing, compression, formatting and metrics: pure functions and I/O whose
  results no property here tells apart.
- Viewer badges, the web front end, the alternative stores and the offline tools:
  no state shared with the server's core.
