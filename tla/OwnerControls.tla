----------------------------- MODULE OwnerControls -----------------------------
(***************************************************************************)
(* The two requests of a channel's owner, on a node that is not part of a  *)
(* cluster (control_sync.role = "off"): web/ignored.rs and web/purge.rs,   *)
(* step by step over the data path of DurableIngest, with what a reader of *)
(* the channel is served (web/get_recent_messages.rs) and the start of the *)
(* process (main.rs).                                                      *)
(*                                                                         *)
(* Each handler is a sequence of awaited calls on two databases, the       *)
(* control store and the block store, and on the open blocks.  Handlers of *)
(* the same owner run concurrently, and the timeout layer drops one        *)
(* between two of its calls.                                               *)
(***************************************************************************)
EXTENDS DurableIngest

CONSTANT Handler    \* requests that may be in progress at once

VARIABLES
    ignored,    \* channel.ignored_at_ms IS NOT NULL, durable
    synced,     \* main has synchronized the block store's blocked channels
    op,         \* [Handler -> the step a request is at]
    purgedAt,   \* HISTORY: the cutoff of the last purge answered with 204
    optedOut,   \* HISTORY: when the last opt-out answered with 204 began
    dropped     \* HISTORY: channels of requests dropped since the start

controlVars == <<ignored, synced, op>>
historyVars == <<purgedAt, optedOut, dropped>>
ownerVars == <<vars, controlVars, historyVars>>

Idle == [step |-> "none", chan |-> CHOOSE c \in Channel : TRUE, at |-> 0]

OwnerInit ==
    /\ Init
    /\ ignored = {} /\ synced = FALSE
    /\ op = [h \in Handler |-> Idle]
    /\ purgedAt = [c \in Channel |-> 0]
    /\ optedOut = [c \in Channel |-> 0]
    /\ dropped = {}

-----------------------------------------------------------------------------
\* MUTANT of SyncBlocked: the start adds to the list and takes nothing off it.
SyncBlockedAdds ==
    /\ ~synced
    /\ synced' = TRUE
    /\ blocked' = blocked \cup ignored
    /\ sealed' = {r \in sealed : ChannelOf(r) \notin ignored}
    /\ released' = released \cup (sealed \ sealed')
    /\ UNCHANGED <<journal, cutoff, coordVars, inputVars, ignored, op, historyVars>>

\* main.rs: before the runtime and the web server start, the block store's list
\* of blocked channels is replaced by the control store's ignored ones.
SyncBlocked ==
    /\ ~synced
    /\ synced' = TRUE
    /\ blocked' = ignored
    /\ sealed' = {r \in sealed : ChannelOf(r) \notin ignored}
    /\ released' = released \cup (sealed \ sealed')
    /\ UNCHANGED <<journal, cutoff, coordVars, inputVars, ignored, op, historyVars>>

\* set_ignored: the control store first, then the block store.
SetIgnored(h, c, wanted) ==
    /\ synced /\ op[h] = Idle
    /\ ignored' = IF wanted THEN ignored \cup {c} ELSE ignored \ {c}
    /\ op' = [op EXCEPT ![h] = [step |-> IF wanted THEN "block" ELSE "unblock",
                                chan |-> c, at |-> now]]
    /\ UNCHANGED <<vars, synced, historyVars>>

SetBlocked(h) ==
    /\ op[h].step \in {"block", "unblock"}
    /\ LET c == op[h].chan
       IN IF op[h].step = "block"
          THEN Block(c) /\ optedOut' = [optedOut EXCEPT ![c] = op[h].at]
          ELSE /\ IF c \in blocked THEN Unblock(c) ELSE UNCHANGED vars
               /\ UNCHANGED optedOut
    /\ op' = [op EXCEPT ![h] = Idle]
    /\ UNCHANGED <<ignored, synced, purgedAt, dropped>>

\* purge_messages: the cutoff is the clock at the start; then the store, then
\* the open blocks.
BeginPurge(h, c) ==
    /\ synced /\ op[h] = Idle
    /\ op' = [op EXCEPT ![h] = [step |-> "purge", chan |-> c, at |-> now]]
    /\ UNCHANGED <<vars, ignored, synced, historyVars>>

\* MUTANT of PurgeStored: the cutoff is written one too early.
PurgeStoredEarlier(h) ==
    /\ op[h].step = "purge"
    /\ PurgeStore(op[h].chan, op[h].at - 1)
    /\ op' = [op EXCEPT ![h].step = "purgeOpen"]
    /\ UNCHANGED <<ignored, synced, historyVars>>

PurgeStored(h) ==
    /\ op[h].step = "purge"
    /\ PurgeStore(op[h].chan, op[h].at)
    /\ op' = [op EXCEPT ![h].step = "purgeOpen"]
    /\ UNCHANGED <<ignored, synced, historyVars>>

PurgeTail(h) ==
    /\ op[h].step = "purgeOpen"
    /\ LET c == op[h].chan
       IN /\ IF open[c] # {} THEN PurgeOpen(c) ELSE UNCHANGED vars
          /\ purgedAt' = [purgedAt EXCEPT
                ![c] = IF op[h].at > @ THEN op[h].at ELSE @]
    /\ op' = [op EXCEPT ![h] = Idle]
    /\ UNCHANGED <<ignored, synced, optedOut, dropped>>

\* The request's time is up, or its client has gone: the handler's future is
\* dropped where it waits.  What it has done so far stays.
DropRequest(h) ==
    /\ op[h] # Idle
    /\ op' = [op EXCEPT ![h] = Idle]
    /\ dropped' = dropped \cup {op[h].chan}
    /\ UNCHANGED <<vars, ignored, synced, purgedAt, optedOut>>

-----------------------------------------------------------------------------
\* The data path runs once the lists are synchronized; a restart takes the
\* handlers with it.
DataPath ==
    /\ synced
    /\ \/ Coordinate
       \/ \E s \in Stream, rs \in SUBSET Arriving : Receive(s, rs)
       \/ Shutdown
    /\ UNCHANGED <<controlVars, historyVars>>

Clock == Tick /\ UNCHANGED <<controlVars, historyVars>>

Reboot ==
    /\ StartAgain \/ Crash
    /\ synced' = FALSE /\ op' = [h \in Handler |-> Idle]
    /\ dropped' = {}
    /\ UNCHANGED <<ignored, purgedAt, optedOut>>

Request(h) ==
    \/ \E c \in Channel : BeginPurge(h, c)
    \/ \E c \in Channel, wanted \in BOOLEAN : SetIgnored(h, c, wanted)
    \/ SetBlocked(h) \/ PurgeStored(h) \/ PurgeTail(h) \/ DropRequest(h)

OwnerNext ==
    \/ SyncBlocked \/ DataPath \/ Clock \/ Reboot
    \/ \E h \in Handler : Request(h)

OwnerSpec == OwnerInit /\ [][OwnerNext]_ownerVars

\* main reaches the end of its start, and the coordinator is as fair as in
\* DurableIngest.  Nothing is assumed of owners, sources, the clock or crashes.
Run(A) == synced /\ A /\ UNCHANGED <<controlVars, historyVars>>

OwnerFairness ==
    /\ WF_ownerVars(SyncBlocked)
    /\ WF_ownerVars(Run(RecoverStart))
    /\ WF_ownerVars(Run(\E row \in todo : RecoverRow(row)))
    /\ WF_ownerVars(Run(RowReplayed \/ ReplayFlush \/ RecoverDone))
    /\ WF_ownerVars(Run(\E r \in cur.recs : Materialize(r)))
    /\ WF_ownerVars(Run(MaterializeDone)) /\ WF_ownerVars(Run(SealAppend))
    /\ SF_ownerVars(Run(\E row \in inbox : Accept(row)))
    /\ SF_ownerVars(Run(CheckpointStart))
    /\ WF_ownerVars(Run(\E chunk \in SUBSET hand : CheckpointAppend(chunk)))
    /\ WF_ownerVars(Run(\E s \in Stream : Retire(s)))
    /\ WF_ownerVars(Run(CheckpointDone))
    /\ WF_ownerVars(Run(\E gone \in SUBSET sealed :
                           Expire(gone) \/ EnforceBudget(gone)))

FairOwnerSpec == OwnerSpec /\ OwnerFairness

-----------------------------------------------------------------------------
\* query_local_messages: what the store and the open blocks hold of a channel.
\* The handler answers with an error when the channel is ignored.
Served(c) == IF c \in ignored THEN {} ELSE OfChannel(sealed \cup OpenRecords, c)

\* Once a purge is answered, the sealed store never again holds a message that
\* was received up to its cutoff, however late an append, a replay of the
\* journal or another request comes (channel_purge_cutoffs).
PurgedNeverStored == \A r \in sealed : r.recv > purgedAt[ChannelOf(r)]

\* Whatever a purge leaves in memory, or a restart brings back to it from the
\* journal, is gone from the open blocks for good once purges and crashes end.
PurgesSettle == <>[](\A r \in OpenRecords : r.recv > purgedAt[ChannelOf(r)])

\* Between requests the two databases agree on who has opted out: set_ignored
\* writes them one after the other, and a start (sync_blocked_channels) repairs
\* what a dropped request left half done.
IgnoredIsBlocked ==
    \A c \in Channel :
        synced /\ c \notin dropped /\ (\A h \in Handler : op[h] = Idle)
            => (c \in ignored <=> c \in blocked)

\* web/src/settings.tsx says of a purge that it removes all messages currently
\* stored and cannot be undone: what was received up to its cutoff is not served
\* once it is answered.
PurgeIsFinal ==
    \A c \in Channel : \A r \in Served(c) : r.recv > purgedAt[c]

\* web/src/settings.tsx says of the opt-out that messages currently stored are
\* deleted: they are not served when the channel comes back.
OptOutDeletes ==
    \A c \in Channel : \A r \in Served(c) : r.recv > optedOut[c]
=============================================================================
