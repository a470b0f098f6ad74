----------------------------- MODULE BlockStore -----------------------------
(* The sealed block store of one process: the tables of storage/sqlite.rs as *)
(* the single writer thread of storage/sqlite_async.rs leaves them between   *)
(* two transactions, and the budget enforcement of storage/budget.rs and     *)
(* storage/eviction.rs, which plans on a reader's snapshot and deletes       *)
(* through the writer later.                                                 *)
(*                                                                           *)
(* A record is its event, identified inside its channel by its time, and its *)
(* fidelity.  A block is a row of message_blocks: its rowid, channel,        *)
(* block_sequence and records.  A stored block weighs one byte a record.     *)
(* Admission, cutoffs and blocked channels are DurableIngest's subject: here *)
(* they matter for the counters they reset.                                  *)
EXTENDS Naturals, FiniteSets, FiniteSetsExt, Folds

CONSTANTS StoreChannels,   \* channel keys
          Blockable,       \* those an owner may opt out
          Pinnable,        \* those the configuration may always join
          BlockMessages, TargetMessages, ExpiryBatch,
          Ttl, ProtectFor, Coalesce, Floor, MaxPasses,
          Batches,         \* [channel, records] the ingest and the peers deliver
          Ceilings,        \* [target, high, emergency] the file system may allow
          MaxStoreClock, MaxSequence, MaxBlockId,
          NoPlan

Fidelities == 0 .. 1
Record == [at : 1 .. MaxStoreClock, fidelity : Fidelities]

ASSUME StoreAssumption ==
  /\ Blockable \subseteq StoreChannels
  /\ Pinnable \subseteq StoreChannels
  /\ {BlockMessages, TargetMessages, ExpiryBatch, ProtectFor, MaxPasses, MaxStoreClock}
       \subseteq Nat \ {0}
  /\ {Ttl, Coalesce, Floor, MaxSequence, MaxBlockId} \subseteq Nat
  /\ \A batch \in Batches : /\ batch.channel \in StoreChannels
                             /\ batch.records # {} /\ batch.records \subseteq Record
  /\ \A c \in Ceilings : /\ {c.target, c.high, c.emergency} \subseteq Nat
                         /\ c.target < c.high /\ c.high < c.emergency

VARIABLES blocks,    \* message_blocks
          channels,  \* channels: next_block_sequence, retained_messages, last_requested_at_ms
          totals,    \* store_totals: blocks and messages
          excluded,  \* blocked_channels
          always,    \* always_join_channels
          expiring,  \* cutoff of the expiry command the writer is in, 0 when free
          plan,      \* NoPlan, or what enforcement is about to delete
          physical,  \* bytes of the database file, free pages included
          stopped,   \* enforcement failed: the ingest runtime panics
          wall       \* unix milliseconds
storeVars == <<blocks, channels, totals, excluded, always, expiring, plan, physical, stopped, wall>>

NoRow == [next |-> 0, retained |-> 0, requested |-> 0]
Of(c) == {b \in blocks : b.channel = c}
Times(records) == {r.at : r \in records}
Newest(records) == Max(Times(records))
Latest(b) == Newest(b.records)
Messages(bs) == Cardinality(UNION {{b} \X b.records : b \in bs})
Less(n, m) == IF n > m THEN n - m ELSE 0
Since(age) == Less(wall, age)
Best(records) == {r \in records : \A o \in records : o.at = r.at => o.fidelity <= r.fidelity}

(* The triggers on message_blocks, for blocks inserted and blocks deleted.   *)
Counted(inserted, deleted) ==
  [blocks |-> Less(totals.blocks + Cardinality(inserted), Cardinality(deleted)),
   messages |-> Less(totals.messages + Messages(inserted), Messages(deleted))]

(* The channel rows after blocks were deleted one by one.                    *)
Released(deleted) ==
  [c \in DOMAIN channels |->
     [channels[c] EXCEPT !.retained = Less(@, Messages({b \in deleted : b.channel = c}))]]

Without(f, S) == [c \in DOMAIN f \ S |-> f[c]]
WithRow(c) ==
  [d \in DOMAIN channels \cup {c} |-> IF d \in DOMAIN channels THEN channels[d] ELSE NoRow]

(* SQLite gives a new row the largest rowid in use plus one.                 *)
NextId == 1 + Max({b.id : b \in blocks} \cup {0})
WriterFree == expiring = 0 /\ ~stopped
-----------------------------------------------------------------------------
StoreInit ==
  /\ blocks = {} /\ channels = <<>> /\ totals = [blocks |-> 0, messages |-> 0]
  /\ excluded = {} /\ always = {}
  /\ expiring = 0 /\ plan = NoPlan /\ physical = 0
  /\ stopped = FALSE /\ wall = 1

\* MUTANT of Overlapping: an event on a block's edge is not looked for in it.
OverlapsStrictly(c, batch) ==
  {b \in Of(c) : Latest(b) > Min(Times(batch)) /\ Min(Times(b.records)) < Newest(batch)}

(* Blocks holding an event of the batch's time range take the better copies  *)
(* of what they hold; events none of them holds become new blocks, and the   *)
(* oldest blocks go while the channel retains too much.                      *)
Overlapping(c, batch) ==
  {b \in Of(c) : Latest(b) >= Min(Times(batch)) /\ Min(Times(b.records)) <= Newest(batch)}
Upgraded(bs, batch) ==
  {[b EXCEPT !.records = Best(@ \cup {r \in batch : r.at \in Times(b.records)})] : b \in bs}
Created(c, fresh) ==
  LET chunk == [r \in fresh |-> Cardinality({s \in fresh : s.at < r.at}) \div BlockMessages]
  IN {[id |-> NextId + k, channel |-> c, sequence |-> WithRow(c)[c].next + k,
       records |-> {r \in fresh : chunk[r] = k}] : k \in {chunk[r] : r \in fresh}}
Trimmed(mine, retained) ==
  {b \in mine : Less(retained, Messages({o \in mine : o.sequence < b.sequence}))
                  > TargetMessages + BlockMessages - 1}

WriteBlocks(c, created, mine, retained, trimmed) ==
  /\ \A b \in created : b.id <= MaxBlockId /\ b.sequence < MaxSequence
  /\ blocks' = (blocks \ Of(c)) \cup (mine \ trimmed)
  /\ totals' = Counted(created, trimmed)
  /\ channels' = [WithRow(c) EXCEPT ![c].next = @ + Cardinality(created),
                                    ![c].retained = Less(retained, Messages(trimmed))]
  /\ physical' = Max({physical, Messages(blocks \cup created)})

Store(c, batch) ==
  \E overlapping \in {Overlapping(c, batch)} :
  \E created \in {Created(c, {r \in Best(batch) : \A b \in overlapping : r.at \notin Times(b.records)})} :
  \E mine \in {(Of(c) \ overlapping) \cup Upgraded(overlapping, batch) \cup created} :
  \E retained \in {WithRow(c)[c].retained + Messages(created)} :
  \E trimmed \in {IF created = {} THEN {} ELSE Trimmed(mine, retained)} :
     WriteBlocks(c, created, mine, retained, trimmed)

AppendBatch(c) ==
  /\ WriterFree
  /\ c \notin excluded
  /\ \E batch \in Batches : batch.channel = c /\ Store(c, batch.records)
  /\ UNCHANGED <<excluded, always, expiring, plan, stopped, wall>>

(* A request for the channel, unless one was noted less than Coalesce ago.   *)
TouchChannelRequested(c) ==
  /\ WriterFree
  /\ c \in DOMAIN channels => channels[c].requested < Since(Coalesce)
  /\ channels' = [WithRow(c) EXCEPT ![c].requested = wall]
  /\ UNCHANGED <<blocks, totals, excluded, always, expiring, plan, physical, stopped, wall>>

\* MUTANT of DropChannels: the blocks go, the counters stay.
DropBlocks(S) ==
  LET gone == UNION {Of(c) : c \in S}
  IN /\ blocks' = blocks \ gone
     /\ totals' = Counted({}, gone)
     /\ UNCHANGED channels

(* Deletes a channel's blocks and row, as a purge and a block both do.       *)
DropChannels(S) ==
  LET gone == UNION {Of(c) : c \in S}
  IN /\ blocks' = blocks \ gone
     /\ totals' = Counted({}, gone)
     /\ channels' = Without(channels, S)

PurgeChannel(c) ==
  /\ WriterFree
  /\ DropChannels({c})
  /\ UNCHANGED <<excluded, always, expiring, plan, physical, stopped, wall>>

SetChannelBlocked(c, blocked) ==
  /\ WriterFree
  /\ IF blocked
     THEN excluded' = excluded \cup {c} /\ DropChannels({c})
     ELSE excluded' = excluded \ {c} /\ UNCHANGED <<blocks, totals, channels>>
  /\ UNCHANGED <<always, expiring, plan, physical, stopped, wall>>

SyncAlwaysJoinChannels(S) ==
  /\ WriterFree
  /\ always' = S
  /\ UNCHANGED <<blocks, channels, totals, excluded, expiring, plan, physical, stopped, wall>>
-----------------------------------------------------------------------------
(* Retention: one command, several transactions.                             *)
StartExpiry ==
  /\ WriterFree /\ plan = NoPlan
  /\ Since(Ttl) > 0
  /\ expiring' = Since(Ttl)
  /\ UNCHANGED <<blocks, channels, totals, excluded, always, plan, physical, stopped, wall>>

Expired == {b \in blocks : Latest(b) < expiring}
ExpireBlocks ==
  LET older(b) == {o \in Expired : \/ Latest(o) < Latest(b)
                                   \/ Latest(o) = Latest(b) /\ o.id < b.id}
      batch == {b \in Expired : Cardinality(older(b)) < ExpiryBatch}
  IN /\ expiring > 0 /\ Expired # {}
     /\ blocks' = blocks \ batch
     /\ totals' = Counted({}, batch)
     /\ channels' = Released(batch)
     /\ UNCHANGED <<excluded, always, expiring, plan, physical, stopped, wall>>

\* MUTANT of Idle: a channel nobody asked for lately goes with what it holds.
IdleByRequest == {c \in DOMAIN channels : channels[c].requested < expiring}

(* The last transaction deletes the rows of channels that retain nothing and *)
(* nobody asked for lately; blocks that still refer to one go with it.       *)
Idle == {c \in DOMAIN channels : channels[c].retained = 0 /\ channels[c].requested < expiring}
FinishExpiry ==
  /\ expiring > 0 /\ Expired = {}
  /\ DropChannels(Idle)
  /\ expiring' = 0
  /\ \E reclaimed \in BOOLEAN :
       physical' = IF reclaimed THEN Messages(blocks') ELSE physical
  /\ UNCHANGED <<excluded, always, plan, stopped, wall>>

MaintainSpace ==
  /\ WriterFree /\ plan = NoPlan
  /\ physical' = Messages(blocks)
  /\ UNCHANGED <<blocks, channels, totals, excluded, always, expiring, plan, stopped, wall>>
-----------------------------------------------------------------------------
(* Pressure: plan_pressure_eviction over a reader's snapshot.                *)
Tier(c) ==
  IF c \in always THEN 3
  ELSE IF channels[c].requested = 0 THEN 0
  ELSE IF channels[c].requested < Since(ProtectFor) THEN 1 ELSE 2

FloorOf(c) == IF Tier(c) >= 2 THEN Floor ELSE 0

(* A block's own bytes and its share of what the file takes beside them.     *)
Share(current, b) ==
  LET overhead == Less(current, Messages(blocks))
      n == Cardinality(blocks)
      rank == Cardinality({o \in blocks : o.id < b.id})
  IN Cardinality(b.records) + overhead \div n + (IF rank < overhead % n THEN 1 ELSE 0)

\* MUTANT of Before: the oldest block first, whoever wants its channel.
OldestFirst(a, b) == Latest(a) < Latest(b) \/ (Latest(a) = Latest(b) /\ a.id < b.id)

Before(a, b) ==
  LET ka == <<Tier(a.channel), channels[a.channel].requested, Latest(a), a.id>>
      kb == <<Tier(b.channel), channels[b.channel].requested, Latest(b), b.id>>
  IN \E i \in 1 .. 4 : ka[i] < kb[i] /\ \A j \in 1 .. i - 1 : ka[j] = kb[j]

(* A plan in the making: the bytes it leaves, what it takes, what it puts    *)
(* off because a channel would fall under its floor.                         *)
Unplanned(current) ==
  [current |-> current, bytes |-> current, ids |-> {}, deferred |-> {},
   retained |-> [c \in DOMAIN channels |-> Messages(Of(c))]]

Take(b, acc) == [acc EXCEPT !.bytes = Less(@, Share(acc.current, b)), !.ids = @ \cup {b.id}]

Consider(b, acc, target) ==
  LET left == Less(acc.retained[b.channel], Cardinality(b.records))
  IN IF acc.bytes <= target THEN acc
     ELSE IF left < FloorOf(b.channel) THEN [acc EXCEPT !.deferred = @ \cup {b}]
     ELSE [Take(b, acc) EXCEPT !.retained[b.channel] = left]

Cross(b, acc, target) == IF acc.bytes <= target THEN acc ELSE Take(b, acc)

Final(S) == CHOOSE b \in S : \A o \in S \ {b} : Before(o, b)

Choose(current, ceiling) ==
  LET first == MapThenFoldSet(LAMBDA b, acc : Consider(b, acc, ceiling.target),
                              Unplanned(current), LAMBDA b : b, Final, blocks)
  IN IF current >= ceiling.emergency
     THEN MapThenFoldSet(LAMBDA b, acc : Cross(b, acc, ceiling.target),
                         first, LAMBDA b : b, Final, first.deferred)
     ELSE first

\* MUTANT of Measure: nothing bounds the passes.
MeasureAgain ==
  /\ WriterFree
  /\ \/ /\ plan = NoPlan
        /\ plan' = [stage |-> "plan", pass |-> 0, current |-> physical]
     \/ /\ plan # NoPlan /\ plan.stage = "measure"
        /\ plan' = [stage |-> "plan", pass |-> plan.pass, current |-> physical]
  /\ UNCHANGED <<blocks, channels, totals, excluded, always, expiring, physical, stopped, wall>>

(* Enforcement measures the file, plans, deletes, and measures again.        *)
Measure ==
  /\ WriterFree
  /\ \/ /\ plan = NoPlan
        /\ plan' = [stage |-> "plan", pass |-> 0, current |-> physical]
        /\ UNCHANGED stopped
     \/ /\ plan # NoPlan /\ plan.stage = "measure" /\ plan.pass < MaxPasses
        /\ plan' = [stage |-> "plan", pass |-> plan.pass, current |-> physical]
        /\ UNCHANGED stopped
     \/ /\ plan # NoPlan /\ plan.stage = "measure" /\ plan.pass = MaxPasses
        /\ plan' = NoPlan
        /\ stopped' = (physical >= plan.high)
  /\ UNCHANGED <<blocks, channels, totals, excluded, always, expiring, physical, wall>>

PlanEviction(ceiling) ==
  /\ plan # NoPlan /\ plan.stage = "plan"
  /\ \E chosen \in {Choose(plan.current, ceiling)} :
        \/ /\ plan.current < ceiling.high
           /\ plan' = NoPlan /\ UNCHANGED stopped
        \/ /\ plan.current >= ceiling.high /\ chosen.bytes > ceiling.target
           /\ plan' = NoPlan /\ stopped' = TRUE
        \/ /\ plan.current >= ceiling.high /\ chosen.bytes <= ceiling.target
           /\ plan' = [stage |-> "evict", pass |-> plan.pass, high |-> ceiling.high,
                       ids |-> chosen.ids, emergency |-> plan.current >= ceiling.emergency,
                       wanted |-> {c \in DOMAIN channels : Tier(c) >= 2}]
           /\ UNCHANGED stopped
  /\ UNCHANGED <<blocks, channels, totals, excluded, always, expiring, physical, wall>>

EvictBlocks ==
  /\ WriterFree
  /\ plan # NoPlan /\ plan.stage = "evict"
  /\ LET gone == {b \in blocks : b.id \in plan.ids}
     IN /\ blocks' = blocks \ gone
        /\ totals' = Counted({}, gone)
        /\ channels' = Released(gone)
        /\ \E reclaimed \in BOOLEAN :
             physical' = IF reclaimed THEN Messages(blocks') ELSE physical
  /\ plan' = [stage |-> "measure", pass |-> plan.pass + 1, high |-> plan.high]
  /\ UNCHANGED <<excluded, always, expiring, stopped, wall>>
-----------------------------------------------------------------------------
(* The process dies, or stops because enforcement failed, and starts again:  *)
(* the configuration and the control database replace the two lists.         *)
SyncBlockedChannels(S) ==
  /\ excluded' = S
  /\ DropChannels(S)

RestartStore ==
  /\ \E S \in SUBSET Blockable : SyncBlockedChannels(S)
  /\ expiring' = 0 /\ plan' = NoPlan /\ stopped' = FALSE
  /\ UNCHANGED <<always, physical, wall>>

PassTime ==
  /\ wall < MaxStoreClock
  /\ wall' = wall + 1
  /\ UNCHANGED <<blocks, channels, totals, excluded, always, expiring, plan, physical, stopped>>

StoreNext ==
  \/ \E c \in StoreChannels : AppendBatch(c) \/ TouchChannelRequested(c) \/ PurgeChannel(c)
  \/ \E c \in Blockable, b \in BOOLEAN : SetChannelBlocked(c, b)
  \/ \E S \in SUBSET Pinnable : SyncAlwaysJoinChannels(S)
  \/ StartExpiry \/ ExpireBlocks \/ FinishExpiry \/ MaintainSpace
  \/ Measure \/ (\E c \in Ceilings : PlanEviction(c)) \/ EvictBlocks
  \/ RestartStore \/ PassTime

StoreSpec == StoreInit /\ [][StoreNext]_storeVars
-----------------------------------------------------------------------------
(* Type invariant, with the places enforcement can be in.                    *)
StoreTypeOK ==
  /\ \A b \in blocks : /\ b.id \in 1 .. MaxBlockId /\ b.channel \in StoreChannels
                       /\ b.sequence \in Nat /\ b.records # {} /\ b.records \subseteq Record
                       /\ Cardinality(b.records) <= BlockMessages
  /\ DOMAIN channels \subseteq StoreChannels
  /\ \A c \in DOMAIN channels : channels[c] \in [next : Nat, retained : Nat, requested : Nat]
  /\ totals \in [blocks : Nat, messages : Nat]
  /\ excluded \subseteq Blockable /\ always \subseteq Pinnable
  /\ expiring \in 0 .. MaxStoreClock /\ physical \in Nat
  /\ stopped \in BOOLEAN /\ wall \in 1 .. MaxStoreClock
  /\ plan # NoPlan => plan.stage \in {"plan", "evict", "measure"} /\ plan.pass \in 0 .. MaxPasses

(* However appends, upgrades, trims, evictions, expiry, purges and blocks    *)
(* interleave, what a channel row and the totals row count is what the       *)
(* blocks hold, every block has its channel row, no rowid or sequence is     *)
(* used twice, and the next sequence is above all in use: trimming and       *)
(* retention trust these numbers.                                            *)
CountersAreExact ==
  /\ totals = [blocks |-> Cardinality(blocks), messages |-> Messages(blocks)]
  /\ \A b \in blocks : b.channel \in DOMAIN channels /\ b.sequence < channels[b.channel].next
  /\ \A c \in DOMAIN channels : channels[c].retained = Messages(Of(c))
  /\ \A a, b \in blocks : a.id = b.id => a = b
  /\ \A a, b \in blocks : a.channel = b.channel /\ a.sequence = b.sequence => a = b

(* An event of a channel is in one block and once in it, whichever batches,  *)
(* replays and peers delivered it: an answer never shows it twice.           *)
EventsAreUnique ==
  \A a, b \in blocks : \A r \in a.records, s \in b.records :
    a.channel = b.channel /\ r.at = s.at => a = b /\ r = s

(* Retention never takes a block that still holds an event inside the TTL,   *)
(* not even when it removes a channel row and all that refers to it.         *)
ExpiryTakesOnlyExpired ==
  [][expiring > 0 =>
       \A b \in blocks \ blocks' : (Latest(b) < expiring \/ b.channel \in excluded')]_storeVars

(* A plan made below the emergency mark keeps the floor of every channel     *)
(* somebody asks for, whatever its blocks weigh, and no plan takes a block   *)
(* of a channel while one it could take of a less wanted channel stays.      *)
PlanIsFair ==
  [][plan' # NoPlan /\ plan'.stage = "evict" /\ plan # NoPlan /\ plan.stage = "plan" =>
       LET kept(c) == Messages({b \in Of(c) : b.id \notin plan'.ids})
           taken(c) == \E b \in Of(c) : b.id \in plan'.ids
       IN \A c \in DOMAIN channels :
            taken(c) => /\ plan'.emergency \/ kept(c) >= FloorOf(c)
                        /\ \A d \in DOMAIN channels : Tier(d) = 0 /\ Tier(c) > 0 => kept(d) = 0]_storeVars

(* Below the emergency mark no eviction leaves a channel under its floor     *)
(* that was wanted when the plan was made, and was not under it before.      *)
FloorsHold ==
  [][plan # NoPlan /\ plan' # NoPlan /\ plan.stage = "evict" /\ plan'.stage = "measure" =>
       \A c \in DOMAIN channels :
         ~plan.emergency /\ c \in plan.wanted /\ channels[c].retained >= Floor
           => channels'[c].retained >= Floor]_storeVars

(* Blocks, rowids, sequences and the overlap query are a layout only: as far *)
(* as records go, the store is a set that takes the best copy of each event. *)
Copies(c, records) ==
  {[channel |-> c, at |-> r.at, fidelity |-> r.fidelity] : r \in records}
HeldIn(bs) == UNION {Copies(b.channel, b.records) : b \in bs}
Records == INSTANCE RecordStore WITH
             held <- HeldIn(blocks), closed <- excluded, Enough <- TargetMessages,
             Deliveries <- {Copies(batch.channel, batch.records) : batch \in Batches}
ImplementsRecordStore == Records!RecordSpec

(* An append is an append to the records, and never one that only forgets:   *)
(* what it drops to stay within bounds leaves its channel enough.            *)
AppendsMerge ==
  [][\A c \in StoreChannels : AppendBatch(c) =>
       \E batch \in Batches :
         batch.channel = c /\ Records!Append(Copies(c, batch.records))]_storeVars
=============================================================================
