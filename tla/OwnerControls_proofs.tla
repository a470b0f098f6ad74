------------------------- MODULE OwnerControls_proofs -------------------------
(***************************************************************************)
(* Proofs about the owners' requests of a standalone node, over the facts  *)
(* DurableIngest_proofs establishes of the data path: for any number of    *)
(* channels, records, handlers and crashes.                                *)
(***************************************************************************)
EXTENDS OwnerControls, DurableIngest_proofs

InSteps == [step : {"block", "unblock", "purge", "purgeOpen"},
            chan : Channel, at : Nat]

\* A request in progress is about a channel, and took its time from the clock.
OwnerTypes ==
    /\ ignored \subseteq Channel
    /\ op \in [Handler -> {Idle} \cup InSteps]
    /\ now >= 1
    /\ \A h \in Handler : op[h] # Idle => op[h].at \in 1 .. now
    /\ purgedAt \in [Channel -> Nat]

\* Why a purged message never comes back to the store: a purge that is answered,
\* or has only the open blocks left to do, has its cutoff in the store, and
\* cutoffs never move back.
CutoffsHold ==
    /\ \A c \in Channel : purgedAt[c] <= cutoff[c]
    /\ \A h \in Handler :
          op[h].step = "purgeOpen" => op[h].at <= cutoff[op[h].chan]

OwnerInv == TypeOK /\ StoreRespectsControls /\ OwnerTypes /\ CutoffsHold

\* Every step but the one that synchronizes the lists is one of the data path.
LEMMA OwnerStepIsDataPath ==
    ASSUME OwnerTypes, [OwnerNext]_ownerVars, ~SyncBlocked
    PROVE  [Next]_vars
<1>1. CASE DataPath \/ Clock \/ Reboot
  BY <1>1 DEF DataPath, Clock, Reboot, Next, Environment
<1>2. ASSUME NEW h \in Handler, Request(h) PROVE [Next]_vars
  <2>1. op[h] = Idle \/ (op[h] \in InSteps /\ op[h].at \in 1 .. now)
    BY DEF OwnerTypes
  <2>2. Idle.step = "none"
    BY DEF Idle
  <2>3. CASE \/ \E c \in Channel : BeginPurge(h, c)
             \/ \E c \in Channel, wanted \in BOOLEAN : SetIgnored(h, c, wanted)
             \/ DropRequest(h)
    BY <2>3 DEF BeginPurge, SetIgnored, DropRequest
  <2>4. CASE SetBlocked(h)
    <3>1. op[h].chan \in Channel
      BY <2>1, <2>2, <2>4 DEF SetBlocked, InSteps
    <3>2. Block(op[h].chan) \/ Unblock(op[h].chan) \/ UNCHANGED vars
      BY <2>4 DEF SetBlocked
    <3> QED BY <3>1, <3>2 DEF Next, Environment
  <2>5. CASE PurgeStored(h)
    <3>1. op[h].chan \in Channel /\ op[h].at \in 1 .. now
      BY <2>1, <2>2, <2>5 DEF PurgeStored, InSteps
    <3>2. PurgeStore(op[h].chan, op[h].at)
      BY <2>5 DEF PurgeStored
    <3> QED BY <3>1, <3>2 DEF Next, Environment
  <2>6. CASE PurgeTail(h)
    <3>1. op[h].chan \in Channel
      BY <2>1, <2>2, <2>6 DEF PurgeTail, InSteps
    <3>2. PurgeOpen(op[h].chan) \/ UNCHANGED vars
      BY <2>6 DEF PurgeTail
    <3> QED BY <3>1, <3>2 DEF Next, Environment
  <2> QED BY <1>2, <2>3, <2>4, <2>5, <2>6 DEF Request
<1>3. CASE UNCHANGED ownerVars
  BY <1>3 DEF ownerVars
<1> QED BY <1>1, <1>2, <1>3 DEF OwnerNext

\* Time does not go back, and no cutoff does.
LEMMA ClockAndCutoffs ==
    ASSUME TypeOK, OwnerTypes, [OwnerNext]_ownerVars
    PROVE  /\ now' >= now /\ now' >= 1
           /\ \A c \in Channel : cutoff'[c] >= cutoff[c]
<1> USE DEF durableVars, coordVars, inputVars, TypeOK, OwnerTypes
<1>1. CASE SyncBlocked \/ UNCHANGED vars
  BY <1>1 DEF SyncBlocked, vars
<1>2. CASE Tick
  BY <1>2 DEF Tick
<1>3. ASSUME NEW c \in Channel, NEW t \in 1 .. now, PurgeStore(c, t)
      PROVE  /\ now' >= now /\ now' >= 1
             /\ \A d \in Channel : cutoff'[d] >= cutoff[d]
  BY <1>3 DEF PurgeStore
<1>4. CASE \/ StartAgain \/ Crash \/ Shutdown \/ Coordinate
           \/ \E s \in Stream, rs \in SUBSET Arriving : Receive(s, rs)
           \/ \E c \in Channel : PurgeOpen(c) \/ Block(c) \/ Unblock(c)
           \/ \E r \in [key : Key, recv : 1 .. now, fid : Delivered] : PeerFill({r})
  <2>1. now' = now /\ cutoff' = cutoff
    BY <1>4 DEF StartAgain, Crash, Restart, Shutdown, Coordinate, Receive,
       PurgeOpen, Block, Unblock, PeerFill, Accept, Materialize,
       MaterializeDone, RecoverStart, RecoverRow, ReplayFlush, RowReplayed,
       RecoverDone, SealDue, SealAppend, CheckpointStart, CheckpointAppend,
       Retire, CheckpointDone, Expire, EnforceBudget
  <2> QED BY <2>1
<1>5. CASE [Next]_vars
  BY <1>1, <1>2, <1>3, <1>4, <1>5 DEF Next, Environment
<1> QED BY <1>1, <1>5, OwnerStepIsDataPath

\* The list of blocked channels replaced by the ignored ones.
LEMMA SyncKeeps ==
    ASSUME TypeOK, OwnerTypes, SyncBlocked
    PROVE  TypeOK' /\ (StoreRespectsControls => StoreRespectsControls')
<1> USE DEF durableVars, coordVars, inputVars
<1>1. /\ blocked' = ignored /\ ignored \subseteq Channel
      /\ sealed' = {r \in sealed : ChannelOf(r) \notin ignored}
      /\ released' = released \cup (sealed \ sealed')
      /\ UNCHANGED <<journal, cutoff, coordVars, inputVars>>
  BY DEF SyncBlocked, OwnerTypes
<1>2. TypeOK'
  BY <1>1 DEF TypeOK
<1>3. StoreRespectsControls => StoreRespectsControls'
  BY <1>1 DEF StoreRespectsControls, ChannelOf
<1> QED BY <1>2, <1>3

\* What each step does to the requests.
LEMMA RequestsStep ==
    ASSUME TypeOK, OwnerTypes, CutoffsHold, [OwnerNext]_ownerVars
    PROVE  OwnerTypes' /\ CutoffsHold'
<1>1. /\ now' >= now /\ now' >= 1 /\ now \in Nat /\ now' \in Nat
      /\ \A c \in Channel : cutoff'[c] >= cutoff[c]
      /\ \A c \in Channel : cutoff[c] \in Nat /\ cutoff'[c] \in Nat
  <2>1. TypeOK'
    <3>1. CASE SyncBlocked
      BY <3>1, SyncKeeps
    <3>2. CASE ~SyncBlocked
      BY <3>2, OwnerStepIsDataPath, TypeStep
    <3> QED BY <3>1, <3>2
  <2> QED BY <2>1, ClockAndCutoffs DEF TypeOK
<1>2. Idle.step = "none" /\ Idle \notin InSteps
  BY DEF Idle, InSteps
<1>a. ASSUME ignored' \subseteq Channel, UNCHANGED <<op, purgedAt>>
      PROVE  OwnerTypes' /\ CutoffsHold'
  <2>1. OwnerTypes'
    BY <1>1, <1>a DEF OwnerTypes
  <2>2. \A c \in Channel : purgedAt'[c] <= cutoff'[c]
    BY <1>1, <1>a DEF OwnerTypes, CutoffsHold
  <2>3. ASSUME NEW h \in Handler, op'[h].step = "purgeOpen"
        PROVE  op'[h].at <= cutoff'[op'[h].chan]
    <3>1. op[h] \in InSteps
      BY <1>2, <1>a, <2>3 DEF OwnerTypes
    <3> QED BY <1>1, <1>a, <2>3, <3>1 DEF CutoffsHold, InSteps
  <2> QED BY <2>1, <2>2, <2>3 DEF CutoffsHold
<1>3. CASE SyncBlocked \/ DataPath \/ Clock \/ UNCHANGED ownerVars
  BY <1>3, <1>a DEF SyncBlocked, DataPath, Clock, ownerVars, controlVars,
     historyVars, OwnerTypes
<1>4. CASE Reboot
  <2>1. /\ op' = [h \in Handler |-> Idle] /\ UNCHANGED <<ignored, purgedAt>>
    BY <1>4 DEF Reboot
  <2> QED BY <1>1, <1>2, <2>1 DEF OwnerTypes, CutoffsHold
<1>b. ASSUME NEW h \in Handler, ignored' \subseteq Channel,
             NEW new \in {Idle} \cup InSteps, op' = [op EXCEPT ![h] = new],
             new # Idle => new.at \in 1 .. now,
             new.step = "purgeOpen" => new.at <= cutoff'[new.chan],
             purgedAt' \in [Channel -> Nat],
             \A c \in Channel : purgedAt'[c] <= cutoff'[c]
      PROVE  OwnerTypes' /\ CutoffsHold'
  <2>1. op \in [Handler -> {Idle} \cup InSteps]
    BY DEF OwnerTypes
  <2>2. op'[h] = new /\ \A g \in Handler \ {h} : op'[g] = op[g]
    BY <1>b, <2>1
  <2>3. \A g \in Handler : op'[g] # Idle => op'[g].at \in 1 .. now'
    <3>1. \A g \in Handler : op[g] # Idle => op[g].at \in 1 .. now
      BY DEF OwnerTypes
    <3> QED BY <1>1, <1>b, <2>2, <3>1
  <2>4. OwnerTypes'
    BY <1>1, <1>b, <2>1, <2>3 DEF OwnerTypes
  <2>5. ASSUME NEW g \in Handler, op'[g].step = "purgeOpen"
        PROVE  op'[g].at <= cutoff'[op'[g].chan]
    <3>1. CASE g = h
      BY <1>b, <2>2, <2>5, <3>1
    <3>2. CASE g # h
      <4>1. op'[g] = op[g] /\ op[g] \in InSteps
        BY <1>2, <2>1, <2>2, <2>5, <3>2
      <4> QED BY <1>1, <2>5, <4>1 DEF CutoffsHold, InSteps
    <3> QED BY <3>1, <3>2
  <2> QED BY <1>b, <2>4, <2>5 DEF CutoffsHold
<1>c. \A c \in Channel : purgedAt[c] <= cutoff'[c] /\ purgedAt[c] \in Nat
  BY <1>1 DEF CutoffsHold, OwnerTypes
<1>d. purgedAt \in [Channel -> Nat] /\ ignored \subseteq Channel
  BY DEF OwnerTypes
<1>e. \A h \in Handler :
         /\ op[h] \in {Idle} \cup InSteps
         /\ op[h] # Idle => op[h] \in InSteps /\ op[h].at \in 1 .. now
  BY DEF OwnerTypes
<1>5. ASSUME NEW h \in Handler, NEW c \in Channel, BeginPurge(h, c)
      PROVE  OwnerTypes' /\ CutoffsHold'
  <2> DEFINE new == [step |-> "purge", chan |-> c, at |-> now]
  <2>1. new \in InSteps /\ new.at \in 1 .. now /\ new.step # "purgeOpen"
    BY <1>1 DEF OwnerTypes, InSteps
  <2>2. op' = [op EXCEPT ![h] = new] /\ UNCHANGED <<ignored, purgedAt>>
    BY <1>5 DEF BeginPurge, historyVars
  <2> HIDE DEF new
  <2> QED BY <1>b, <1>c, <1>d, <2>1, <2>2
<1>6. ASSUME NEW h \in Handler, NEW c \in Channel, NEW wanted \in BOOLEAN,
             SetIgnored(h, c, wanted)
      PROVE  OwnerTypes' /\ CutoffsHold'
  <2> DEFINE new == [step |-> IF wanted THEN "block" ELSE "unblock",
                     chan |-> c, at |-> now]
  <2>1. new \in InSteps /\ new.at \in 1 .. now /\ new.step # "purgeOpen"
    BY <1>1 DEF OwnerTypes, InSteps
  <2>2. op' = [op EXCEPT ![h] = new] /\ UNCHANGED purgedAt
    BY <1>6 DEF SetIgnored, historyVars
  <2>3. ignored' \subseteq Channel
    BY <1>6, <1>d DEF SetIgnored
  <2> HIDE DEF new
  <2> QED BY <1>b, <1>c, <1>d, <2>1, <2>2, <2>3
<1>7. ASSUME NEW h \in Handler, SetBlocked(h) \/ DropRequest(h)
      PROVE  OwnerTypes' /\ CutoffsHold'
  <2>1. op' = [op EXCEPT ![h] = Idle] /\ UNCHANGED <<ignored, purgedAt>>
    BY <1>7 DEF SetBlocked, DropRequest
  <2> QED BY <1>2, <1>b, <1>c, <1>d, <2>1
<1>8. ASSUME NEW h \in Handler, PurgeStored(h) PROVE OwnerTypes' /\ CutoffsHold'
  <2>1. op[h] \in InSteps /\ op[h].at \in 1 .. now /\ op[h].chan \in Channel
    BY <1>2, <1>8, <1>e DEF PurgeStored, InSteps
  <2> DEFINE new == [op[h] EXCEPT !.step = "purgeOpen"]
  <2>2. new \in InSteps /\ new.at = op[h].at /\ new.chan = op[h].chan
    BY <2>1 DEF InSteps
  <2>3. op' = [op EXCEPT ![h] = new] /\ UNCHANGED <<ignored, purgedAt>>
    BY <1>8 DEF PurgeStored, historyVars
  <2>4. op[h].at <= cutoff'[op[h].chan]
    BY <1>1, <1>8, <2>1 DEF PurgeStored, PurgeStore, TypeOK
  <2> HIDE DEF new
  <2> QED BY <1>b, <1>c, <1>d, <2>1, <2>2, <2>3, <2>4
<1>9. ASSUME NEW h \in Handler, PurgeTail(h) PROVE OwnerTypes' /\ CutoffsHold'
  <2>1. /\ op[h] \in InSteps /\ op[h].at \in Nat /\ op[h].chan \in Channel
        /\ op[h].at <= cutoff[op[h].chan]
    BY <1>2, <1>9, <1>e DEF PurgeTail, InSteps, CutoffsHold
  <2>2. /\ op' = [op EXCEPT ![h] = Idle] /\ UNCHANGED ignored
        /\ purgedAt' = [purgedAt EXCEPT
              ![op[h].chan] = IF op[h].at > @ THEN op[h].at ELSE @]
    BY <1>9 DEF PurgeTail
  <2>3. purgedAt' \in [Channel -> Nat]
    BY <1>d, <2>1, <2>2
  <2>4. op[h].at <= cutoff'[op[h].chan]
    BY <1>1, <2>1
  <2>5. \A c \in Channel : purgedAt'[c] <= cutoff'[c]
    BY <1>c, <1>d, <2>1, <2>2, <2>4
  <2> QED BY <1>2, <1>b, <1>d, <2>2, <2>3, <2>5
<1> QED
  BY <1>3, <1>4, <1>5, <1>6, <1>7, <1>8, <1>9 DEF OwnerNext, Request

LEMMA OwnerInvariant == OwnerSpec => []OwnerInv
<1>1. OwnerInit => OwnerInv
  <2> SUFFICES ASSUME OwnerInit PROVE OwnerInv
    OBVIOUS
  <2>1. TypeOK /\ StoreRespectsControls
    BY InitTypes DEF OwnerInit, Init, StoreRespectsControls
  <2>2. OwnerTypes /\ CutoffsHold
    BY DEF OwnerInit, Init, OwnerTypes, CutoffsHold, Idle
  <2> QED BY <2>1, <2>2 DEF OwnerInv
<1>2. OwnerInv /\ [OwnerNext]_ownerVars => OwnerInv'
  <2> SUFFICES ASSUME OwnerInv, [OwnerNext]_ownerVars PROVE OwnerInv'
    OBVIOUS
  <2>1. TypeOK' /\ StoreRespectsControls'
    <3>1. CASE SyncBlocked
      BY <3>1, SyncKeeps DEF OwnerInv
    <3>2. CASE ~SyncBlocked
      BY <3>2, OwnerStepIsDataPath, TypeStep, ControlsStep DEF OwnerInv
    <3> QED BY <3>1, <3>2
  <2>2. OwnerTypes' /\ CutoffsHold'
    BY RequestsStep DEF OwnerInv
  <2> QED BY <2>1, <2>2 DEF OwnerInv
<1> QED BY <1>1, <1>2, PTL DEF OwnerSpec

\* Once a purge is answered the sealed store never again holds a message that was
\* received up to its cutoff, whatever the coordinator, a replay of the journal,
\* other requests and crashes do (purge_channel and append_transaction).
THEOREM PurgedStaysOut == OwnerSpec => []PurgedNeverStored
<1>1. OwnerInv => PurgedNeverStored
  <2> SUFFICES ASSUME OwnerInv, NEW r \in sealed
               PROVE  r.recv > purgedAt[ChannelOf(r)]
    BY DEF PurgedNeverStored
  <2>1. r.recv > cutoff[ChannelOf(r)] /\ r \in Record
    BY DEF OwnerInv, StoreRespectsControls, TypeOK
  <2>2. r.recv \in Nat /\ ChannelOf(r) \in Channel
    BY <2>1, KeyAssumption DEF Record, ChannelOf
  <2>3. /\ purgedAt[ChannelOf(r)] <= cutoff[ChannelOf(r)]
        /\ purgedAt[ChannelOf(r)] \in Nat /\ cutoff[ChannelOf(r)] \in Nat
    BY <2>2 DEF OwnerInv, CutoffsHold, OwnerTypes, TypeOK
  <2> QED BY <2>1, <2>2, <2>3
<1> QED BY <1>1, OwnerInvariant, PTL

-----------------------------------------------------------------------------
(***************************************************************************)
(* With one request at a time, the two lists of opted-out channels differ  *)
(* only in the channel of the request that is between its two writes, or   *)
(* in one whose request was dropped there; a start makes them equal.       *)
(***************************************************************************)
Toggling(h) == op[h].step \in {"block", "unblock"}

ListsAgree ==
    /\ ~synced => dropped = {} /\ \A h \in Handler : op[h] = Idle
    /\ \A h \in Handler :
          Toggling(h) => (op[h].step = "block" <=> op[h].chan \in ignored)
    /\ synced =>
         \A c \in Channel \ dropped :
            \/ c \in ignored <=> c \in blocked
            \/ \E h \in Handler : Toggling(h) /\ op[h].chan = c

\* The steps of the data path that the start and the clock allow leave the list
\* of blocked channels alone.
LEMMA DataPathKeepsList ==
    DataPath \/ Clock \/ Reboot => blocked' = blocked
<1> USE DEF durableVars, coordVars, inputVars
<1>1. Clock \/ Reboot => blocked' = blocked
  BY DEF Clock, Tick, Reboot, StartAgain, Crash, Restart
<1>2. DataPath => blocked' = blocked
  BY DEF DataPath, Coordinate, Receive, Shutdown, Accept, Materialize,
     MaterializeDone, RecoverStart, RecoverRow, ReplayFlush, RowReplayed,
     RecoverDone, SealDue, SealAppend, CheckpointStart, CheckpointAppend,
     Retire, CheckpointDone, Expire, EnforceBudget
<1> QED BY <1>1, <1>2

LEMMA ListsStep ==
    ASSUME \A g, h \in Handler : g = h,
           OwnerTypes, ListsAgree, [OwnerNext]_ownerVars
    PROVE  ListsAgree'
<1> USE DEF durableVars, coordVars, inputVars, controlVars, historyVars
<1>0. Idle.step = "none"
  BY DEF Idle
<1>1. op \in [Handler -> {Idle} \cup InSteps]
  BY DEF OwnerTypes
<1>2. CASE SyncBlocked
  BY <1>0, <1>2 DEF SyncBlocked, ListsAgree, Toggling
<1>3. CASE DataPath \/ Clock \/ UNCHANGED ownerVars
  <2>1. UNCHANGED <<blocked, ignored, synced, op, dropped>>
    BY <1>3, DataPathKeepsList DEF DataPath, Clock, ownerVars, vars
  <2> QED BY <2>1 DEF ListsAgree, Toggling
<1>4. CASE Reboot
  BY <1>0, <1>4 DEF Reboot, ListsAgree, Toggling
<1>5. ASSUME NEW h \in Handler, Request(h) PROVE ListsAgree'
  <2>1. \A g \in Handler : g = h
    OBVIOUS
  <2>2. synced
    BY <1>0, <1>5 DEF ListsAgree, Request, BeginPurge, SetIgnored, SetBlocked,
       PurgeStored, PurgeTail, DropRequest
  <2>3. ASSUME NEW c \in Channel, BeginPurge(h, c) PROVE ListsAgree'
    <3>1. /\ op[h] = Idle /\ op'[h].step = "purge"
          /\ UNCHANGED <<blocked, ignored, synced, dropped>>
      BY <1>1, <2>3 DEF BeginPurge, vars
    <3> QED BY <1>0, <2>1, <2>2, <3>1 DEF ListsAgree, Toggling
  <2>4. ASSUME NEW c \in Channel, NEW wanted \in BOOLEAN, SetIgnored(h, c, wanted)
        PROVE  ListsAgree'
    <3>1. /\ op[h] = Idle
          /\ op'[h].step = IF wanted THEN "block" ELSE "unblock"
          /\ op'[h].chan = c
          /\ ignored' = IF wanted THEN ignored \cup {c} ELSE ignored \ {c}
          /\ UNCHANGED <<blocked, synced, dropped>>
      BY <1>1, <2>4 DEF SetIgnored, vars
    <3> QED BY <1>0, <2>1, <2>2, <3>1 DEF ListsAgree, Toggling
  <2>5. CASE SetBlocked(h)
    <3>1. /\ op'[h] = Idle /\ Toggling(h)
          /\ UNCHANGED <<ignored, synced, dropped>>
      BY <1>1, <2>5 DEF SetBlocked, Toggling
    <3>2. blocked' = IF op[h].step = "block" THEN blocked \cup {op[h].chan}
                     ELSE blocked \ {op[h].chan}
      BY <2>5 DEF SetBlocked, Block, Unblock, vars
    <3> QED BY <1>0, <2>1, <2>2, <3>1, <3>2 DEF ListsAgree, Toggling
  <2>6. CASE PurgeStored(h) \/ PurgeTail(h)
    <3>1. /\ op[h].step \in {"purge", "purgeOpen"}
          /\ op'[h].step \in {"purgeOpen", "none"}
          /\ UNCHANGED <<blocked, ignored, synced, dropped>>
      BY <1>0, <1>1, <2>6 DEF PurgeStored, PurgeTail, PurgeStore, PurgeOpen, vars, InSteps
    <3> QED BY <1>0, <2>1, <2>2, <3>1 DEF ListsAgree, Toggling
  <2>7. CASE DropRequest(h)
    <3>1. /\ op'[h] = Idle /\ dropped' = dropped \cup {op[h].chan}
          /\ UNCHANGED <<blocked, ignored, synced>>
      BY <1>1, <2>7 DEF DropRequest, vars
    <3> QED BY <1>0, <2>1, <2>2, <3>1 DEF ListsAgree, Toggling
  <2> QED BY <1>5, <2>3, <2>4, <2>5, <2>6, <2>7 DEF Request
<1> QED BY <1>2, <1>3, <1>4, <1>5 DEF OwnerNext

\* When an owner's requests come one at a time, the control store and the block
\* store agree between requests on who has opted out, except for a channel whose
\* request was dropped since the start (set_ignored, sync_blocked_channels).  Two
\* requests at once can leave them different.
THEOREM ListsStayEqual ==
    ASSUME \A g, h \in Handler : g = h
    PROVE  OwnerSpec => []IgnoredIsBlocked
<1>1. OwnerInit => ListsAgree
  BY DEF OwnerInit, ListsAgree, Toggling, Idle
<1>2. OwnerTypes /\ ListsAgree /\ [OwnerNext]_ownerVars => ListsAgree'
  BY ListsStep
<1>3. ListsAgree => IgnoredIsBlocked
  <2>1. Idle.step = "none"
    BY DEF Idle
  <2> QED BY <2>1 DEF ListsAgree, Toggling, IgnoredIsBlocked
<1>4. OwnerInv => OwnerTypes
  BY DEF OwnerInv
<1> QED BY <1>1, <1>2, <1>3, <1>4, OwnerInvariant, PTL DEF OwnerSpec
=============================================================================
