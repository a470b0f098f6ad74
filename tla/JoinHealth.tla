----------------------------- MODULE JoinHealth -----------------------------
(* Which channels the direct IRC client is in: the join state the control    *)
(* store keeps of each channel, the reconciliation loop and the requests     *)
(* that change the client's wanted set, the forwarder that records what      *)
(* Twitch answers, and the owner's and the operator's calls.                 *)
(*                                                                           *)
(* Deadlines are abstracted to whether they have passed, and with them the   *)
(* number of failures that sets the next one.  The client (the twitch-irc    *)
(* crate) and Twitch are external: a JOIN is sent for a wanted channel that  *)
(* is not confirmed, a PART for one no longer wanted, and after a lost       *)
(* connection the wanted channels are joined again.                          *)
EXTENDS Naturals, Sequences, FiniteSets

CONSTANTS JoinChannels,
          MaxUnprocessed,  \* bound: messages the forwarder has not read
          MaxOutstanding,  \* bound: JOINs and PARTs Twitch has not answered
          MaxInterventions,\* bound: calls of owners and operators
          NoState

ASSUME JoinBounds ==
  {MaxUnprocessed, MaxOutstanding, MaxInterventions} \subseteq Nat \ {0}

VARIABLES
  access,      \* channel.last_access_ms: "none" (no row), "recent" or "lapsed"
  pinned,      \* channel.always_join
  ignored,     \* channel.ignored_at_ms is set
  joinState,   \* join_state: NoState or [state, due]
  reconciler,  \* the loop: [at, list, todo, seen]
  notified,    \* reconcile_notify holds a permit
  request,     \* join_if_needed: [at, channel]
  owner,       \* the opt-out handler: [at, channel]
  wanted,      \* the client's wanted channels
  outstanding, \* per channel, JOINs and PARTs on their way to Twitch
  joined,      \* channels the client knows itself to be in
  calls,       \* calls of owners and operators so far
  inbox,       \* per channel, messages on their way to the forwarder
  calm         \* from now on Twitch accepts every JOIN within the timeout

storeVarsOfJoin == <<access, pinned, ignored, joinState>>
clientVars == <<wanted, outstanding, joined, inbox>>
taskVars == <<reconciler, notified, request, owner, calls>>
joinVars == <<storeVarsOfJoin, taskVars, clientVars, calm>>

State(s, due) == [state |-> s, due |-> due]
Unseen == <<>>
Parked == [at |-> "idle", list |-> {}, todo |-> {}, seen |-> Unseen]
NoCall == [at |-> "idle"]

JoinInit ==
  /\ access = [c \in JoinChannels |-> "none"]
  /\ pinned = {} /\ ignored = {}
  /\ joinState = [c \in JoinChannels |-> NoState]
  /\ reconciler = Parked /\ notified = FALSE
  /\ request = NoCall /\ owner = NoCall /\ calls = 0
  /\ wanted = {} /\ joined = {}
  /\ outstanding = [c \in JoinChannels |-> <<>>]
  /\ inbox = [c \in JoinChannels |-> <<>>]
  /\ calm = FALSE
-----------------------------------------------------------------------------
(* The control store *)

Demanded(c) == c \notin ignored /\ (c \in pinned \/ access[c] = "recent")

(* get_channel_logins_to_join: in demand and not backing off.                *)
LoginsToJoin ==
  {c \in JoinChannels : /\ Demanded(c)
                        /\ \/ joinState[c] = NoState
                           \/ joinState[c].state = "unavailable" => joinState[c].due}

Failed == State("unavailable", FALSE)

(* Whether begin_join_attempt_if_due answers true.                           *)
AttemptIsDue(c) ==
  \/ joinState[c] = NoState
  \/ joinState[c].state = "joined"
  \/ joinState[c].state = "unavailable" /\ joinState[c].due

(* A pending attempt past its deadline is failed here as well.               *)
BeginAttempt(c) ==
  joinState' =
    IF AttemptIsDue(c)
      THEN [joinState EXCEPT ![c] = State("pending", FALSE)]
      ELSE IF joinState[c].state = "pending" /\ joinState[c].due
        THEN [joinState EXCEPT ![c] = Failed]
        ELSE joinState

MarkConfirmed(c) == joinState' = [joinState EXCEPT ![c] = State("joined", TRUE)]

MarkUnavailable(c) == joinState' = [joinState EXCEPT ![c] = Failed]

(* prune_inactive_channels.                                                  *)
Prunable == {c \in JoinChannels : access[c] = "lapsed" /\ c \notin ignored \cup pinned}
-----------------------------------------------------------------------------
(* The client (external)                                                     *)
Post(c, m) == [outstanding EXCEPT ![c] = Append(@, m)]
Room(c) == Len(outstanding[c]) < MaxOutstanding

Confirmed(c) == c \in wanted /\ c \in joined

(* A JOIN goes out unless the channel is confirmed, so asking again retries. *)
ClientJoin(c) ==
  /\ wanted' = wanted \cup {c}
  /\ outstanding' = IF Confirmed(c) THEN outstanding ELSE Post(c, "JOIN")

ClientPart(c) ==
  /\ wanted' = wanted \ {c}
  /\ outstanding' = IF c \in wanted THEN Post(c, "PART") ELSE outstanding

SetWanted(channels) ==
  /\ \A c \in JoinChannels : Room(c)
  /\ wanted' = channels
  /\ outstanding' = [c \in JoinChannels |->
       CASE c \in channels /\ ~Confirmed(c) -> Append(outstanding[c], "JOIN")
         [] c \in wanted \ channels -> Append(outstanding[c], "PART")
         [] OTHER -> outstanding[c]]

Deliver(c, m) == inbox' = [inbox EXCEPT ![c] = Append(@, m)]

(* Twitch reads the oldest JOIN or PART of a channel.                        *)
Answer(c) ==
  /\ outstanding[c] # <<>> /\ Len(inbox[c]) < MaxUnprocessed
  /\ outstanding' = [outstanding EXCEPT ![c] = Tail(@)]
  /\ CASE Head(outstanding[c]) = "JOIN" /\ c \in joined -> UNCHANGED <<inbox, joined>>
       [] Head(outstanding[c]) = "JOIN" ->
            \/ joined' = joined \cup {c} /\ Deliver(c, "JOIN")
            \/ ~calm /\ Deliver(c, "NOTICE") /\ UNCHANGED joined
            \/ ~calm /\ UNCHANGED <<inbox, joined>>
       [] OTHER ->
            /\ joined' = joined \ {c}
            /\ IF c \in joined THEN Deliver(c, "PART") ELSE UNCHANGED inbox
  /\ UNCHANGED <<storeVarsOfJoin, taskVars, wanted, calm>>

(* A connection breaks: no PART is delivered, wanted channels are joined     *)
(* again.                                                                    *)
ConnectionLost ==
  /\ ~calm
  /\ joined' = {}
  /\ outstanding' = [c \in JoinChannels |-> IF c \in wanted THEN <<"JOIN">> ELSE <<>>]
  /\ UNCHANGED <<storeVarsOfJoin, taskVars, wanted, inbox, calm>>

TwitchCalms == ~calm /\ calm' = TRUE /\ UNCHANGED <<storeVarsOfJoin, taskVars, clientVars>>
-----------------------------------------------------------------------------
(* The forwarder                                                             *)
Process(c) ==
  /\ inbox[c] # <<>>
  /\ inbox' = [inbox EXCEPT ![c] = Tail(@)]
  /\ CASE Head(inbox[c]) = "JOIN" -> MarkConfirmed(c) /\ UNCHANGED <<wanted, outstanding>>
       [] Head(inbox[c]) = "PART" -> MarkUnavailable(c) /\ UNCHANGED <<wanted, outstanding>>
       [] OTHER -> MarkUnavailable(c) /\ ClientPart(c)
  /\ UNCHANGED <<access, pinned, ignored, taskVars, joined, calm>>
-----------------------------------------------------------------------------
(* run_channel_join_parter.  Its select chooses among the poll, the interval *)
(* and a notification; the last two refresh everything, the poll only what   *)
(* timed out.  While it waits for the gate the loop does nothing else.       *)
Holding == {"visiting", "pruning", "refreshing"}
HoldingRequest == {"touched", "checked", "begun"}
GateFree == reconciler.at \notin Holding /\ request.at \notin HoldingRequest
LoopAt(at) == [reconciler EXCEPT !.at = at]

(* Once Twitch is calm it has answered, and the forwarder and a request that *)
(* holds the gate are done, when the interval, half an hour, is over.        *)
Settled ==
  /\ request.at \in {"idle", "asked"}
  /\ \A c \in JoinChannels : outstanding[c] = <<>> /\ inbox[c] = <<>>

IntervalTick ==
  /\ reconciler.at = "idle"
  /\ calm => Settled
  /\ reconciler' = LoopAt("listing")
  /\ UNCHANGED <<calls, storeVarsOfJoin, notified, request, owner, clientVars, calm>>

ReconcileNotified ==
  /\ reconciler.at = "idle" /\ notified
  /\ notified' = FALSE
  /\ reconciler' = LoopAt("listing")
  /\ UNCHANGED <<calls, storeVarsOfJoin, request, owner, clientVars, calm>>

(* fail_stale_join_attempts; with nothing stale the poll changes nothing.    *)
RetryPoll ==
  LET stale == {c \in JoinChannels : /\ joinState[c] # NoState
                                     /\ joinState[c].state = "pending" /\ joinState[c].due}
  IN /\ reconciler.at = "idle" /\ stale # {}
     /\ joinState' = [c \in JoinChannels |->
                        IF c \in stale THEN Failed ELSE joinState[c]]
     /\ reconciler' = LoopAt("stale")
     /\ UNCHANGED <<calls, access, pinned, ignored, notified, request, owner, clientVars, calm>>

\* MUTANT of TakeList: the loop does not take the gate.
TakeListUngated ==
  /\ reconciler.at \in {"listing", "stale"}
  /\ reconciler' = [at |-> IF reconciler.at = "stale" THEN "refreshing" ELSE "visiting",
                    list |-> LoginsToJoin, todo |-> LoginsToJoin, seen |-> Unseen]
  /\ UNCHANGED <<calls, storeVarsOfJoin, notified, request, owner, clientVars, calm>>

TakeList ==
  /\ reconciler.at \in {"listing", "stale"} /\ GateFree
  /\ reconciler' = [at |-> IF reconciler.at = "stale" THEN "refreshing" ELSE "visiting",
                    list |-> LoginsToJoin, todo |-> LoginsToJoin, seen |-> Unseen]
  /\ UNCHANGED <<calls, storeVarsOfJoin, notified, request, owner, clientVars, calm>>

(* The query fails: the iteration is skipped, its notification is used up.   *)
ListFails ==
  /\ reconciler.at \in {"listing", "stale"} /\ GateFree
  /\ reconciler' = Parked
  /\ UNCHANGED <<calls, storeVarsOfJoin, notified, request, owner, clientVars, calm>>

(* Each listed channel: its status is asked of the client, then the store is *)
(* told.                                                                     *)
Look(c) ==
  /\ reconciler.at = "visiting" /\ c \in reconciler.todo /\ reconciler.seen = Unseen
  /\ reconciler' = [reconciler EXCEPT !.seen = <<c, Confirmed(c)>>]
  /\ UNCHANGED <<calls, storeVarsOfJoin, notified, request, owner, clientVars, calm>>

Visit ==
  /\ reconciler.at = "visiting" /\ reconciler.seen # Unseen
  /\ LET c == reconciler.seen[1]
     IN /\ IF reconciler.seen[2] THEN MarkConfirmed(c) ELSE BeginAttempt(c)
        /\ reconciler' = [reconciler EXCEPT !.todo = @ \ {c}, !.seen = Unseen]
  /\ UNCHANGED <<calls, access, pinned, ignored, notified, request, owner, clientVars, calm>>

(* When all are visited inactive channels are pruned and the list read at    *)
(* the start becomes the wanted set.                                         *)
Prune ==
  /\ reconciler.at = "visiting" /\ reconciler.todo = {}
  /\ reconciler' = LoopAt("pruning")
  /\ access' = [c \in JoinChannels |-> IF c \in Prunable THEN "none" ELSE access[c]]
  /\ joinState' = [c \in JoinChannels |-> IF c \in Prunable THEN NoState ELSE joinState[c]]
  /\ UNCHANGED <<calls, pinned, ignored, notified, request, owner, clientVars, calm>>

\* MUTANT of Publish: an empty list is not handed to the client.
PublishUnlessEmpty ==
  /\ reconciler.at \in {"pruning", "refreshing"}
  /\ IF reconciler.list = {} THEN UNCHANGED <<wanted, outstanding>> ELSE SetWanted(reconciler.list)
  /\ reconciler' = Parked
  /\ UNCHANGED <<calls, storeVarsOfJoin, notified, request, owner, joined, inbox, calm>>

Publish ==
  /\ reconciler.at \in {"pruning", "refreshing"}
  /\ SetWanted(reconciler.list)
  /\ reconciler' = Parked
  /\ UNCHANGED <<calls, storeVarsOfJoin, notified, request, owner, joined, inbox, calm>>
-----------------------------------------------------------------------------
(* A request, which has read that the channel is not opted out, leaves the   *)
(* joining to a task of its own: join_if_needed.                             *)
Ask(c) ==
  /\ request.at = "idle" /\ c \notin ignored
  /\ request' = [at |-> "asked", channel |-> c]
  /\ UNCHANGED <<calls, storeVarsOfJoin, reconciler, notified, owner, clientVars, calm>>

Touched ==
  /\ request.at = "asked" /\ GateFree
  /\ request' = [request EXCEPT !.at = "touched"]
  /\ UNCHANGED <<calls, pinned, ignored, joinState, reconciler, notified, owner, clientVars, calm>>

Touch == Touched /\ access' = [access EXCEPT ![request.channel] = "recent"]

(* A row written in the last half hour is left as it is, which keeps a       *)
(* lapsed one lapsed where channels expire sooner than that.                 *)
TouchSkipped == Touched /\ access[request.channel] = "lapsed" /\ UNCHANGED access

(* The client is asked for the channel's status, then the store is told.     *)
Check ==
  /\ request.at = "touched"
  /\ request' = IF Confirmed(request.channel) THEN NoCall ELSE [request EXCEPT !.at = "checked"]
  /\ UNCHANGED <<calls, storeVarsOfJoin, reconciler, notified, owner, clientVars, calm>>

Begin ==
  /\ request.at = "checked"
  /\ BeginAttempt(request.channel)
  /\ request' = IF AttemptIsDue(request.channel) THEN [request EXCEPT !.at = "begun"] ELSE NoCall
  /\ UNCHANGED <<calls, access, pinned, ignored, reconciler, notified, owner, clientVars, calm>>

JoinNow ==
  /\ request.at = "begun" /\ Room(request.channel)
  /\ ClientJoin(request.channel)
  /\ request' = NoCall
  /\ UNCHANGED <<calls, storeVarsOfJoin, reconciler, notified, owner, joined, inbox, calm>>

Intervene == calls < MaxInterventions /\ calls' = calls + 1

(* The owner opts the channel out or in: the control store first, then the   *)
(* client, without the gate.  The first opt-out creates the channel's row.   *)
OptOut(c) ==
  /\ Intervene
  /\ owner.at = "idle"
  /\ owner' = [at |-> "part", channel |-> c]
  /\ ignored' = ignored \cup {c}
  /\ access' = [access EXCEPT ![c] = IF @ = "none" THEN "recent" ELSE @]
  /\ joinState' = [joinState EXCEPT ![c] = NoState]
  /\ UNCHANGED <<pinned, reconciler, notified, request, clientVars, calm>>

OptIn(c) ==
  /\ Intervene
  /\ owner.at = "idle"
  /\ owner' = [at |-> "join", channel |-> c]
  /\ ignored' = ignored \ {c}
  /\ access' = [access EXCEPT ![c] = IF @ = "none" THEN "recent" ELSE @]
  /\ UNCHANGED <<pinned, joinState, reconciler, notified, request, clientVars, calm>>

TellClient ==
  /\ owner.at # "idle" /\ Room(owner.channel)
  /\ IF owner.at = "part" THEN ClientPart(owner.channel) ELSE ClientJoin(owner.channel)
  /\ owner' = NoCall
  /\ UNCHANGED <<calls, storeVarsOfJoin, reconciler, notified, request, joined, inbox, calm>>

(* The request timeout drops the owner's handler, or one of its calls in     *)
(* between fails: the store is written and the client is never told.         *)
OwnerDropped ==
  /\ owner.at # "idle"
  /\ owner' = NoCall
  /\ UNCHANGED <<calls, storeVarsOfJoin, reconciler, notified, request, clientVars, calm>>

(* The operator pins a channel that is not opted out, or unpins one; the     *)
(* block store is told in between (ControlPlane).                            *)
Pin(c) ==
  /\ Intervene
  /\ c \notin ignored \cup pinned
  /\ pinned' = pinned \cup {c}
  /\ access' = [access EXCEPT ![c] = IF @ = "none" THEN "lapsed" ELSE @]
  /\ notified' = TRUE
  /\ UNCHANGED <<ignored, joinState, reconciler, request, owner, clientVars, calm>>

Unpin(c) ==
  /\ Intervene
  /\ c \in pinned
  /\ pinned' = pinned \ {c}
  /\ notified' = TRUE
  /\ UNCHANGED <<access, ignored, joinState, reconciler, request, owner, clientVars, calm>>
-----------------------------------------------------------------------------
(* Time                                                                      *)
Lapse(c) ==
  /\ access[c] = "recent"
  /\ access' = [access EXCEPT ![c] = "lapsed"]
  /\ UNCHANGED <<pinned, ignored, joinState, taskVars, clientVars, calm>>

(* Once Twitch is calm a JOIN is answered and recorded before the            *)
(* confirmation timeout.                                                     *)
AttemptTimesOut(c) ==
  /\ joinState[c] # NoState /\ joinState[c].state = "pending" /\ ~joinState[c].due
  /\ calm => /\ outstanding[c] = <<>> /\ inbox[c] = <<>>
             /\ c \notin wanted => request.at # "begun" /\ c \notin reconciler.list
  /\ joinState' = [joinState EXCEPT ![c].due = TRUE]
  /\ UNCHANGED <<access, pinned, ignored, taskVars, clientVars, calm>>

BackoffElapses(c) ==
  /\ joinState[c] # NoState /\ joinState[c].state = "unavailable" /\ ~joinState[c].due
  /\ joinState' = [joinState EXCEPT ![c].due = TRUE]
  /\ UNCHANGED <<access, pinned, ignored, taskVars, clientVars, calm>>

JoinNext ==
  \/ \E c \in JoinChannels :
       \/ Answer(c) \/ Process(c) \/ Look(c) \/ Ask(c)
       \/ OptOut(c) \/ OptIn(c) \/ Pin(c) \/ Unpin(c)
       \/ Lapse(c) \/ AttemptTimesOut(c) \/ BackoffElapses(c)
  \/ ConnectionLost \/ TwitchCalms
  \/ IntervalTick \/ ReconcileNotified \/ RetryPoll
  \/ TakeList \/ ListFails \/ Visit \/ Prune \/ Publish
  \/ Touch \/ TouchSkipped \/ Check \/ Begin \/ JoinNow \/ TellClient \/ OwnerDropped

(* The tasks keep running, the interval and the poll keep ticking, time      *)
(* passes, and the store's query does not fail for ever.  A channel that is  *)
(* asked for again and again is touched once its row is half an hour old.    *)
JoinFairness ==
  /\ SF_joinVars(IntervalTick) /\ WF_joinVars(RetryPoll)
  /\ SF_joinVars(TakeList)
  /\ WF_joinVars((\E c \in JoinChannels : Look(c)) \/ Visit \/ Prune \/ Publish)
  /\ SF_joinVars(Touch) /\ WF_joinVars(Touch \/ TouchSkipped \/ Check \/ Begin \/ JoinNow)
  /\ WF_joinVars(TellClient \/ OwnerDropped)
  /\ \A c \in JoinChannels :
       /\ WF_joinVars(Answer(c)) /\ WF_joinVars(Process(c))
       /\ WF_joinVars(AttemptTimesOut(c) \/ BackoffElapses(c))

JoinSpec == JoinInit /\ [][JoinNext]_joinVars /\ JoinFairness
-----------------------------------------------------------------------------
(* The gate keeps a request out between the loop's list and its wanted set,  *)
(* and the loop walks only what it listed.                                   *)
JoinTypeOK ==
  /\ access \in [JoinChannels -> {"none", "recent", "lapsed"}]
  /\ \A c \in JoinChannels : joinState[c] # NoState =>
       joinState[c] \in [state : {"pending", "joined", "unavailable"}, due : BOOLEAN]
  /\ reconciler.todo \subseteq reconciler.list
  /\ ~(reconciler.at \in Holding /\ request.at \in HoldingRequest)

(* A channel that stays in demand is joined again and again once Twitch      *)
(* accepts JOINs: no combination of timeouts, backoff, lost connections,     *)
(* stale lists and late answers leaves it out for ever.  A channel nobody    *)
(* asks for any more, or whose owner opted out, is left for good, even when  *)
(* a request that had passed the opt-out check joins it late.                *)
MembershipFollowsDemand ==
  \A c \in JoinChannels :
    /\ (<>calm /\ <>[]Demanded(c)) => []<>Confirmed(c)
    /\ <>[]~Demanded(c) => <>[](c \notin wanted)
=============================================================================
