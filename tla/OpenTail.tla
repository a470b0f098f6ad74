------------------------------ MODULE OpenTail ------------------------------
(* The open blocks of storage/open_blocks.rs with their bounds and counters, *)
(* the coordinator that seals them into the block store, and a read of a     *)
(* channel in web/get_recent_messages.rs, which asks the store first and the *)
(* open blocks second while both go on changing.                             *)
(*                                                                           *)
(* A record is its event and its fidelity; the copy of the better fidelity   *)
(* is longer.  Of what has left memory only the events matter here: which    *)
(* copy the store keeps is BlockStore's.                                     *)
EXTENDS Integers, FiniteSets, FiniteSetsExt

CONSTANTS TailChannels,     \* channels, numbered: ties are broken by name
          TailEvents,       \* events of each channel
          TailBlock, MaxOpenChannels, MaxOpenBytes,
          IdleAfter, MaxOpenAge,
          MaxTailClock, NoOpen

TailRecord == [channel : TailChannels, event : TailEvents, fidelity : 0 .. 1]
TailBlocks == [records : SUBSET TailRecord, opened : 0 .. MaxTailClock, appended : 0 .. MaxTailClock]

ASSUME TailAssumption ==
  /\ NoOpen \notin TailBlocks
  /\ TailChannels \subseteq Nat
  /\ {TailBlock, MaxOpenChannels, MaxOpenBytes, IdleAfter, MaxOpenAge} \subseteq Nat \ {0}
  /\ MaxTailClock \in Nat

VARIABLES open,       \* OpenBlockManager.blocks
          estimated,  \* its estimated_bytes and open_messages
          sealing,    \* blocks taken from memory, on their way into the store
          stored,     \* what the block store holds
          reads,      \* a read: <<"idle">>, <<"stored", c>> or <<"answered", c>>
          shown,      \* the part or the answer
          since,      \* history: records kept somewhere ever since the read began
          tailClock   \* milliseconds
tailVars == <<open, estimated, sealing, stored, reads, shown, since, tailClock>>

(* A byte for every record and another one for every better copy.            *)
Bytes(r) == 1 + r.fidelity
Weight(records) == Cardinality(records) + Cardinality({r \in records : r.fidelity = 1})
Opened == {c \in TailChannels : open[c] # NoOpen}
InMemory == UNION {open[c].records : c \in Opened}
Same(r, s) == r.channel = s.channel /\ r.event = s.event
Events(records) == {<<r.channel, r.event>> : r \in records}
EventsOf(c) == {c} \X TailEvents

TailInit ==
  /\ open = [c \in TailChannels |-> NoOpen]
  /\ estimated = [bytes |-> 0, messages |-> 0]
  /\ sealing = {} /\ stored = {}
  /\ reads = <<"idle">> /\ shown = {} /\ since = {}
  /\ tailClock = 0
-----------------------------------------------------------------------------
Taken(blocksOf, counts, S) ==
  LET gone == UNION {blocksOf[c].records : c \in S}
  IN [open |-> [c \in TailChannels |-> IF c \in S THEN NoOpen ELSE blocksOf[c]],
      estimated |-> [bytes |-> counts.bytes - Weight(gone),
                     messages |-> counts.messages - Cardinality(gone)]]

(* The block appended to longest ago, then opened longest ago, then by name. *)
Sooner(blocksOf, c, d) ==
  \/ blocksOf[c].appended < blocksOf[d].appended
  \/ /\ blocksOf[c].appended = blocksOf[d].appended
     /\ \/ blocksOf[c].opened < blocksOf[d].opened
        \/ blocksOf[c].opened = blocksOf[d].opened /\ c < d

\* MUTANT of Excess: only the number of channels is bounded.
ExcessChannels(blocksOf, counts) ==
  LET used == {c \in TailChannels : blocksOf[c] # NoOpen}
  IN {c \in used : Cardinality({d \in used : Sooner(blocksOf, d, c)}) < Cardinality(used) - MaxOpenChannels}

(* The fewest blocks, oldest first, that bring channels and bytes in bounds. *)
Excess(blocksOf, counts) ==
  LET used == {c \in TailChannels : blocksOf[c] # NoOpen}
      first(n) == {c \in used : Cardinality({d \in used : Sooner(blocksOf, d, c)}) < n}
      fits(n) == /\ Cardinality(used) - n <= MaxOpenChannels
                 /\ Taken(blocksOf, counts, first(n)).estimated.bytes <= MaxOpenBytes
  IN first(Min({n \in 0 .. Cardinality(used) : fits(n)}))

Seal(blocksOf, counts, S) ==
  /\ open' = Taken(blocksOf, counts, S).open
  /\ estimated' = Taken(blocksOf, counts, S).estimated
  /\ sealing' = Events(UNION {blocksOf[c].records : c \in S})

AppendNew(r) ==
  LET old == IF open[r.channel] = NoOpen
             THEN [records |-> {}, opened |-> tailClock, appended |-> tailClock]
             ELSE open[r.channel]
      block == [old EXCEPT !.records = @ \cup {r}, !.appended = tailClock]
      blocksOf == [open EXCEPT ![r.channel] = block]
      counts == [bytes |-> estimated.bytes + Bytes(r), messages |-> estimated.messages + 1]
      full == IF Cardinality(block.records) >= TailBlock THEN {r.channel} ELSE {}
      rest == Taken(blocksOf, counts, full)
  IN /\ \A s \in old.records : ~Same(r, s)
     /\ Seal(blocksOf, counts, full \cup Excess(rest.open, rest.estimated))

\* MUTANT of Upgrade: the estimate is not corrected.
UpgradeUncounted(r) ==
  /\ open[r.channel] # NoOpen
  /\ \E s \in open[r.channel].records :
       /\ Same(r, s) /\ r.fidelity > s.fidelity
       /\ open' = [open EXCEPT ![r.channel].records = (@ \ {s}) \cup {r}]
       /\ UNCHANGED <<estimated, sealing>>

(* A better copy of an open event replaces it and is charged for: this path  *)
(* returns before the bounds are enforced and notes no append.               *)
Upgrade(r) ==
  /\ open[r.channel] # NoOpen
  /\ \E s \in open[r.channel].records :
       /\ Same(r, s) /\ r.fidelity > s.fidelity
       /\ open' = [open EXCEPT ![r.channel].records = (@ \ {s}) \cup {r}]
       /\ estimated' = [estimated EXCEPT !.bytes = @ - Bytes(s) + Bytes(r)]
       /\ UNCHANGED sealing

(* What is purged need no longer be shown.                                   *)
Forgetting ==
  since' = {e \in since : \/ e \in sealing' \cup stored'
                          \/ open'[e[1]] # NoOpen /\ e \in Events(open'[e[1]].records)}

(* The coordinator waits for the store before it takes the next record.  An  *)
(* append at a time before the block's last one is an error.                 *)
AppendTail(r) ==
  /\ sealing = {}
  /\ open[r.channel] # NoOpen => open[r.channel].appended <= tailClock
  /\ AppendNew(r) \/ Upgrade(r)
  /\ UNCHANGED <<stored, reads, shown, tailClock>>
  /\ Forgetting

(* The failed append ends the ingest runtime, and with it the process; what  *)
(* was open is replayed from the journal.                                    *)
ClockMovedBackwards ==
  /\ sealing = {}
  /\ \E c \in Opened : open[c].appended > tailClock
  /\ open' = [c \in TailChannels |-> NoOpen]
  /\ estimated' = [bytes |-> 0, messages |-> 0]
  /\ reads' = <<"idle">> /\ shown' = {} /\ since' = {}
  /\ UNCHANGED <<sealing, stored, tailClock>>

Age(t) == IF tailClock > t THEN tailClock - t ELSE 0
SealDueTail ==
  LET due == {c \in Opened : Age(open[c].appended) >= IdleAfter \/ Age(open[c].opened) >= MaxOpenAge}
  IN /\ sealing = {} /\ due # {}
     /\ Seal(open, estimated, due)
     /\ UNCHANGED <<stored, reads, shown, since, tailClock>>

SealAllTail ==
  /\ sealing = {} /\ Opened # {}
  /\ Seal(open, estimated, Opened)
  /\ UNCHANGED <<stored, reads, shown, since, tailClock>>

StoreSealed ==
  /\ sealing # {}
  /\ stored' = stored \cup sealing
  /\ sealing' = {}
  /\ UNCHANGED <<open, estimated, reads, shown, since, tailClock>>

PurgeTailOf(c) ==
  /\ open[c] # NoOpen
  /\ open' = Taken(open, estimated, {c}).open
  /\ estimated' = Taken(open, estimated, {c}).estimated
  /\ UNCHANGED <<sealing, stored, reads, shown, tailClock>>
  /\ Forgetting
-----------------------------------------------------------------------------
(* query_local_messages, in its two halves, for one channel.                 *)
ReadStore(c) ==
  /\ reads = <<"idle">>
  /\ reads' = <<"stored", c>>
  /\ shown' = stored \cap EventsOf(c)
  /\ since' = (stored \cup sealing \cup Events(InMemory)) \cap EventsOf(c)
  /\ UNCHANGED <<open, estimated, sealing, stored, tailClock>>

ReadOpen(c) ==
  /\ reads = <<"stored", c>>
  /\ reads' = <<"answered", c>>
  /\ shown' = shown \cup (Events(InMemory) \cap EventsOf(c))
  /\ UNCHANGED <<open, estimated, sealing, stored, since, tailClock>>

Respond ==
  /\ reads[1] = "answered"
  /\ reads' = <<"idle">> /\ shown' = {} /\ since' = {}
  /\ UNCHANGED <<open, estimated, sealing, stored, tailClock>>

ClockMoves ==
  /\ tailClock' \in 0 .. MaxTailClock \ {tailClock}
  /\ UNCHANGED <<open, estimated, sealing, stored, reads, shown, since>>

TailNext ==
  \/ \E r \in TailRecord : AppendTail(r)
  \/ ClockMovedBackwards \/ SealDueTail \/ SealAllTail \/ StoreSealed
  \/ \E c \in TailChannels : PurgeTailOf(c) \/ ReadStore(c) \/ ReadOpen(c)
  \/ Respond \/ ClockMoves

TailSpec == TailInit /\ [][TailNext]_tailVars
-----------------------------------------------------------------------------
(* After every append, upgrade, seal and purge the counters are those of the *)
(* blocks, an event is in its block once, and no block is full or empty: the *)
(* bounds are enforced on the counters.                                      *)
TailIsCounted ==
  /\ estimated = [bytes |-> Weight(InMemory), messages |-> Cardinality(InMemory)]
  /\ \A c \in Opened : /\ open[c].records # {} /\ Cardinality(open[c].records) < TailBlock
                       /\ \A r, s \in open[c].records : Same(r, s) => r = s
  /\ Cardinality(Opened) <= MaxOpenChannels

(* A new event leaves memory within its byte limit, even when better copies  *)
(* had taken it over the limit before.                                       *)
NewEventsFit ==
  [][estimated'.messages > estimated.messages => estimated'.bytes <= MaxOpenBytes]_tailVars

(* A read shows every event that was kept, in memory, on its way to the      *)
(* store or in it, from the read's start to its end.                         *)
ReadsIncludeTail ==
  reads[1] = "answered" => since \subseteq shown
=============================================================================
