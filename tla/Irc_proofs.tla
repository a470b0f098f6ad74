----------------------------- MODULE Irc_proofs -----------------------------
(***************************************************************************)
(* The two tasks behind the IRC client.  LiveCoverage, for every set of    *)
(* channels, batch size and number of events: what the forwarder claims it *)
(* has handed on.  JoinHealth, for every set of channels and every number  *)
(* of calls and of messages under way: its states and its gate.            *)
(***************************************************************************)
EXTENDS MCIrc, FiniteSetTheorems, TLAPS

Events == [channel : IrcChannels, at : Nat]
Claims == [channel : IrcChannels, start : Nat, end : Nat, by : {"part", "shutdown"}]

\* Events lie in the past and open claims began in it.
ForwardTypes ==
  /\ received \in Nat
  /\ live \in [IrcChannels -> Nat \cup {NotLive}]
  /\ closed \subseteq Claims
  /\ batch \subseteq Events /\ lost \subseteq Events
  /\ batcher \in {"on", "off"} /\ ingestUp \in BOOLEAN
  /\ forwarder \in {"running", "stopped"}

NothingAhead ==
  /\ \A e \in batch \cup lost : e.at <= received
  /\ \A c \in IrcChannels : live[c] # NotLive => live[c] <= received

\* Without a batcher there are no open claims, and a claim is closed by a shutdown
\* only when the forwarder has ended.
Withdrawn ==
  /\ batcher = "off" => \A c \in IrcChannels : live[c] = NotLive
  /\ forwarder = "running" => \A i \in closed : i.by # "shutdown"

ForwardInv == ForwardTypes /\ NothingAhead /\ Withdrawn /\ ClaimIsReceived

LEMMA ForwardInitially == ForwardInit => ForwardInv
  BY DEF ForwardInit, ForwardInv, ForwardTypes, NothingAhead, Withdrawn, ClaimIsReceived, Dead

\* One step per action; what is lost and what is claimed change together.
LEMMA ForwardStep == ForwardInv /\ [ForwardNext]_forwardVars => ForwardInv'
<1> SUFFICES ASSUME ForwardInv, [ForwardNext]_forwardVars PROVE ForwardInv'
  OBVIOUS
<1> USE ForwarderBounds
<1>1. ASSUME NEW c \in IrcChannels, Message(c) PROVE ForwardInv'
  <2>1. CASE batcher = "off"
    BY <1>1, <2>1 DEF Message, Step, Forward, Record, Receives, ForwardInv, ForwardTypes,
                      NothingAhead, Withdrawn, ClaimIsReceived, Events, Covers
  <2>2. CASE batcher = "on" /\ batcher' = "on"
    BY <1>1, <2>2 DEF Message, Step, Forward, Send, Record, Receives, ForwardInv, ForwardTypes,
                      NothingAhead, Withdrawn, ClaimIsReceived, Events, Covers
  <2>3. CASE batcher = "on" /\ batcher' = "off"
    BY <1>1, <2>3 DEF Message, Step, Forward, Send, Record, Receives, DiscardAll, Dead, ForwardInv,
                      ForwardTypes, NothingAhead, Withdrawn, ClaimIsReceived, Events, Covers
  <2>4. batcher' \in {"on", "off"}
    BY <1>1 DEF Message, Forward, Send, ForwardInv, ForwardTypes
  <2> QED BY <2>1, <2>2, <2>3, <2>4 DEF ForwardInv, ForwardTypes
<1>2. ASSUME NEW c \in IrcChannels, Join(c) PROVE ForwardInv'
  BY <1>2 DEF Join, Step, OrError, BeginLive, Receives, ForwardInv, ForwardTypes, NothingAhead,
              Withdrawn, ClaimIsReceived, Events, Covers
<1>3. ASSUME NEW c \in IrcChannels, Part(c) PROVE ForwardInv'
  <2>1. closed' \subseteq Claims /\ \A i \in closed' \ closed : i.by = "part"
    BY <1>3 DEF Part, Step, OrError, EndLive, Interval, Claims, ForwardInv, ForwardTypes
  <2> QED
    BY <1>3, <2>1 DEF Part, Step, OrError, EndLive, Receives, ForwardInv, ForwardTypes,
              NothingAhead, Withdrawn, ClaimIsReceived, Events, Covers
<1>4. ASSUME NEW c \in IrcChannels, Unreadable(c) PROVE ForwardInv'
  BY <1>4 DEF Unreadable, Step, Discard, Record, Receives, ForwardInv, ForwardTypes, NothingAhead,
              Withdrawn, ClaimIsReceived, Events, Covers
<1>5. ASSUME Flush PROVE ForwardInv'
  BY <1>5 DEF Flush, Send, DiscardAll, Dead, ForwardInv, ForwardTypes, NothingAhead, Withdrawn,
              ClaimIsReceived, Events, Covers
<1>6. ASSUME Shutdown PROVE ForwardInv'
  <2>1. CASE ingestUp \/ batch = {}
    <3>1. lost' = lost /\ live' = Dead
      BY <1>6, <2>1 DEF Shutdown, CloseAtShutdown
    <3>2. closed' \subseteq Claims
      BY <1>6, <2>1 DEF Shutdown, CloseAtShutdown, Interval, Claims, ForwardInv, ForwardTypes
    <3>3. \A e \in lost, i \in closed' \ closed : ~Covers(i, e)
      BY <1>6, <2>1 DEF Shutdown, CloseAtShutdown, Interval, Covers, ForwardInv, ForwardTypes,
                        ClaimIsReceived, Events
    <3>4. ForwardTypes' /\ NothingAhead' /\ Withdrawn'
      BY <1>6, <3>1, <3>2 DEF Shutdown, Dead, ForwardInv, ForwardTypes, NothingAhead, Withdrawn
    <3>5. ClaimIsReceived'
      <4> SUFFICES ASSUME NEW e \in lost PROVE ClaimIsReceived!(e)'
        BY <3>1 DEF ClaimIsReceived
      <4>1. e.channel \in IrcChannels
        BY DEF ForwardInv, ForwardTypes, Events
      <4>2. \A i \in closed' : i.by = "shutdown" => ~Covers(i, e)
        BY <3>3 DEF ForwardInv, ClaimIsReceived
      <4> QED BY <3>1, <4>1, <4>2 DEF Dead, Covers
    <3> QED BY <3>4, <3>5 DEF ForwardInv
  <2>2. CASE ~(ingestUp \/ batch = {})
    BY <1>6, <2>2 DEF Shutdown, CloseAtShutdown, DiscardAll, Dead, ForwardInv, ForwardTypes,
                      NothingAhead, Withdrawn, ClaimIsReceived, Covers, Events
  <2> QED BY <2>1, <2>2
<1>7. ASSUME IngestStops PROVE ForwardInv'
  BY <1>7 DEF IngestStops, ForwardInv, ForwardTypes, NothingAhead, Withdrawn, ClaimIsReceived, Covers
<1>8. ASSUME UNCHANGED forwardVars PROVE ForwardInv'
  BY <1>8 DEF forwardVars, ForwardInv, ForwardTypes, NothingAhead, Withdrawn, ClaimIsReceived, Covers
<1> QED
  BY <1>1, <1>2, <1>3, <1>4, <1>5, <1>6, <1>7, <1>8 DEF ForwardNext

\* An open claim, and one an orderly shutdown closed, covers no event the forwarder
\* received and failed to hand on (irc_listener.rs withdraws the claims first).
THEOREM ClaimsAreReceived == ForwardSpec => []ClaimIsReceived
<1>1. ForwardInv => ClaimIsReceived
  BY DEF ForwardInv
<1> QED BY <1>1, ForwardInitially, ForwardStep, PTL DEF ForwardSpec

-----------------------------------------------------------------------------
\* The batch stays below its limit.
BatchFits == IsFiniteSet(batch) /\ Cardinality(batch) < BatchSize

LEMMA BatchStep ==
  ASSUME BatchFits, [ForwardNext]_forwardVars PROVE BatchFits'
<1> USE ForwarderBounds
<1>1. BatchSize > Cardinality({}) /\ IsFiniteSet({})
  BY FS_EmptySet
<1>2. ASSUME NEW c \in IrcChannels, Message(c) PROVE BatchFits'
  <2>1. IsFiniteSet(batch \cup {Record(c)}) /\ Cardinality(batch \cup {Record(c)}) \in Nat
    BY FS_AddElement, FS_CardinalityType DEF BatchFits
  <2> QED BY <1>1, <1>2, <2>1 DEF Message, Forward, Send, BatchFits
<1>3. ASSUME Flush PROVE BatchFits'
  BY <1>1, <1>3 DEF Flush, Send, BatchFits
<1>4. ASSUME Shutdown PROVE BatchFits'
  BY <1>1, <1>4 DEF Shutdown, BatchFits
<1>5. ASSUME UNCHANGED batch PROVE BatchFits'
  BY <1>5 DEF BatchFits
<1> QED
  BY <1>2, <1>3, <1>4, <1>5 DEF ForwardNext, Join, Part, Unreadable, IngestStops, forwardVars

\* The claims of a channel follow each other, and the open one comes last.
ClaimsFollow ==
  /\ received \in 0..MaxEvents
  /\ \A i \in closed : i.start <= i.end /\ i.end <= received
  /\ \A i, j \in closed : i.channel = j.channel /\ i # j => i.end < j.start \/ j.end < i.start
  /\ \A i \in closed : live[i.channel] # NotLive => i.end < live[i.channel]

LEMMA ClaimsFollowStep ==
  ASSUME ForwardInv, ClaimsFollow, [ForwardNext]_forwardVars PROVE ClaimsFollow'
<1> USE ForwarderBounds
<1> DEFINE Types == ForwardTypes /\ NothingAhead
<1>0. Types BY DEF ForwardInv
<1>1. ASSUME NEW c \in IrcChannels, Message(c) \/ Join(c) \/ Unreadable(c) PROVE ClaimsFollow'
  <2>1. /\ received' = received + 1 /\ received' <= MaxEvents /\ closed' = closed
        /\ \A d \in IrcChannels : live'[d] \in {live[d], NotLive, received + 1}
    BY <1>0, <1>1 DEF Message, Join, Unreadable, Receives, Step, DiscardAll, Dead, Discard,
         OrError, BeginLive, ForwardTypes
  <2>2. \A i \in closed : i.channel \in IrcChannels /\ i.end \in Nat
    BY <1>0 DEF ForwardTypes, Claims
  <2> QED BY <1>0, <2>1, <2>2 DEF ClaimsFollow, ForwardTypes
<1>2. ASSUME NEW c \in IrcChannels, Part(c) PROVE ClaimsFollow'
  <2>0. received' = received + 1 /\ received' <= MaxEvents
    BY <1>0, <1>2 DEF Part, Receives, Step, ForwardTypes
  <2>1. \A i \in closed : i.channel \in IrcChannels /\ i.end \in Nat /\ i.start \in Nat
    BY <1>0 DEF ForwardTypes, Claims
  <2>2. CASE UNCHANGED <<live, closed>>
    BY <1>0, <2>0, <2>1, <2>2 DEF ClaimsFollow, ForwardTypes
  <2>3. CASE EndLive(c) /\ live[c] = NotLive
    BY <1>0, <2>0, <2>1, <2>3 DEF EndLive, ClaimsFollow, ForwardTypes
  <2>4. CASE EndLive(c) /\ live[c] # NotLive
    <3> DEFINE k == [channel |-> c, start |-> live[c], end |-> received + 1, by |-> "part"]
    <3>1. closed' = closed \cup {k} /\ live' = [live EXCEPT ![c] = NotLive]
      BY <2>4 DEF EndLive, Interval
    <3>2. k.channel = c /\ k.start = live[c] /\ k.end = received + 1
      OBVIOUS
    <3>3. live[c] \in Nat /\ live[c] <= received
      BY <1>0, <2>4 DEF ForwardTypes, NothingAhead
    <3> HIDE DEF k
    <3>4. \A i \in closed : i.channel = c => i.end < k.start
      BY <2>4, <3>2 DEF ClaimsFollow
    <3>5. \A i \in closed' : i.start <= i.end /\ i.end <= received'
      BY <1>0, <2>0, <2>1, <3>1, <3>2, <3>3 DEF ClaimsFollow, ForwardTypes
    <3>6. \A i, j \in closed' : i.channel = j.channel /\ i # j => i.end < j.start \/ j.end < i.start
      BY <3>1, <3>2, <3>4 DEF ClaimsFollow
    <3>7. \A i \in closed' : live'[i.channel] # NotLive => i.end < live'[i.channel]
      BY <1>0, <2>1, <3>1, <3>2 DEF ClaimsFollow, ForwardTypes
    <3> QED BY <1>0, <2>0, <3>5, <3>6, <3>7 DEF ClaimsFollow, ForwardTypes
  <2> QED BY <1>2, <2>2, <2>3, <2>4 DEF Part, OrError
<1>3. ASSUME Shutdown PROVE ClaimsFollow'
  <2> DEFINE New == {Interval(c, received, "shutdown") : c \in {x \in IrcChannels : live[x] # NotLive}}
  <2>1. live' = Dead /\ received' = received /\ closed' \subseteq closed \cup New
    BY <1>3 DEF Shutdown, CloseAtShutdown, DiscardAll
  <2>2. \A k \in New : /\ k.channel \in IrcChannels /\ live[k.channel] # NotLive
                       /\ k.start = live[k.channel] /\ k.end = received
                       /\ k = Interval(k.channel, received, "shutdown")
    BY DEF Interval
  <2>3. \A i \in closed : i.channel \in IrcChannels /\ i.end \in Nat /\ i.start \in Nat
    BY <1>0 DEF ForwardTypes, Claims
  <2> HIDE DEF New
  <2>4. \A k \in New : k.start \in Nat /\ k.start <= received
    BY <1>0, <2>2 DEF ForwardTypes, NothingAhead
  <2>5. \A i \in closed' : i.start <= i.end /\ i.end <= received'
    BY <1>0, <2>1, <2>2, <2>4 DEF ClaimsFollow, ForwardTypes
  <2>6. \A i \in closed, k \in New : i.channel = k.channel => i.end < k.start
    BY <2>2 DEF ClaimsFollow
  <2>7. \A k, l \in New : k.channel = l.channel => k = l
    BY <2>2
  <2>8. \A i, j \in closed' : i.channel = j.channel /\ i # j => i.end < j.start \/ j.end < i.start
    BY <2>1, <2>6, <2>7 DEF ClaimsFollow
  <2>9. \A i \in closed' : live'[i.channel] = NotLive
    BY <2>1, <2>2, <2>3 DEF Dead
  <2> QED BY <2>1, <2>5, <2>8, <2>9 DEF ClaimsFollow
<1>4. ASSUME Flush \/ IngestStops PROVE ClaimsFollow'
  <2>1. \A i \in closed : i.channel \in IrcChannels
    BY <1>0 DEF ForwardTypes, Claims
  <2> QED BY <1>4, <2>1 DEF Flush, IngestStops, DiscardAll, Dead, ClaimsFollow
<1>5. ASSUME UNCHANGED forwardVars PROVE ClaimsFollow'
  BY <1>5 DEF forwardVars, ClaimsFollow
<1> QED
  BY <1>1, <1>2, <1>3, <1>4, <1>5 DEF ForwardNext

\* The claims the control store keeps are well formed and never overlap: a claim
\* that is closed is no longer open (irc_listener.rs, db.rs).
THEOREM ClaimsAreDisjoint == ForwardSpec => []ForwardTypeOK
<1>1. ForwardInit => BatchFits /\ ClaimsFollow
  BY FS_EmptySet, ForwarderBounds DEF ForwardInit, BatchFits, ClaimsFollow
<1>2. ForwardInv /\ BatchFits /\ ClaimsFollow /\ [ForwardNext]_forwardVars
        => (BatchFits /\ ClaimsFollow)'
  BY BatchStep, ClaimsFollowStep
<1>3. BatchFits /\ ClaimsFollow => ForwardTypeOK
  BY DEF BatchFits, ClaimsFollow, ForwardTypeOK
<1> QED
  BY <1>1, <1>2, <1>3, ForwardInitially, ForwardStep, PTL DEF ForwardSpec

-----------------------------------------------------------------------------
\* What the loop of JoinHealth and a request rely on.
JoinStates == [state : {"pending", "joined", "unavailable"}, due : BOOLEAN]

JoinTypes ==
  /\ access \in [JoinChannels -> {"none", "recent", "lapsed"}]
  /\ joinState \in [JoinChannels -> JoinStates \cup {NoState}]

\* The loop walks what it listed, and holds the gate meanwhile or a request does.
Gated ==
  /\ DOMAIN reconciler = {"at", "list", "todo", "seen"} /\ "at" \in DOMAIN request
  /\ reconciler.todo \subseteq reconciler.list
  /\ ~(reconciler.at \in Holding /\ request.at \in HoldingRequest)

JoinInv == JoinTypes /\ Gated

LEMMA JoinInitially == JoinInit => JoinInv
  BY DEF JoinInit, JoinInv, JoinTypes, Gated, Parked, NoCall, Holding, HoldingRequest

LEMMA JoinTypesStep ==
  ASSUME JoinTypes, [JoinNext]_joinVars PROVE JoinTypes'
<1> DEFINE Unset == UNCHANGED <<access, joinState>>
<1>1. CASE Unset
  BY <1>1 DEF JoinTypes
<1>2. ASSUME NEW c, UNCHANGED access,
             MarkConfirmed(c) \/ MarkUnavailable(c) \/ BeginAttempt(c)
      PROVE  JoinTypes'
  <2>1. /\ State("joined", TRUE) \in JoinStates /\ Failed \in JoinStates
        /\ State("pending", FALSE) \in JoinStates
    BY DEF State, Failed, JoinStates
  <2> HIDE DEF JoinStates
  <2> QED BY <1>2, <2>1 DEF MarkConfirmed, MarkUnavailable, BeginAttempt, JoinTypes
<1>3. ASSUME NEW c \in JoinChannels, Process(c) PROVE JoinTypes'
  BY <1>2, <1>3 DEF Process
<1>4. CASE RetryPoll
  <2>1. Failed \in JoinStates
    BY DEF State, Failed, JoinStates
  <2> QED BY <1>4, <2>1 DEF RetryPoll, JoinTypes
<1>5. CASE Visit
  BY <1>2, <1>5 DEF Visit
<1>6. CASE Prune
  BY <1>6 DEF Prune, JoinTypes
<1>7. CASE Touch \/ TouchSkipped
  BY <1>7 DEF Touch, TouchSkipped, Touched, JoinTypes
<1>8. CASE Begin
  BY <1>1, <1>2, <1>8 DEF Begin
<1>9. ASSUME NEW c \in JoinChannels, OptOut(c) \/ OptIn(c) \/ Pin(c) PROVE JoinTypes'
  BY <1>9 DEF OptOut, OptIn, Pin, JoinTypes
<1>10. ASSUME NEW c \in JoinChannels, Lapse(c) PROVE JoinTypes'
  BY <1>10 DEF Lapse, JoinTypes
<1>11. ASSUME NEW c \in JoinChannels, AttemptTimesOut(c) \/ BackoffElapses(c) PROVE JoinTypes'
  <2>1. joinState[c] \in JoinStates
    BY <1>11 DEF AttemptTimesOut, BackoffElapses, JoinTypes
  <2>2. [joinState[c] EXCEPT !.due = TRUE] \in JoinStates
    BY <2>1 DEF JoinStates
  <2>3. joinState' = [joinState EXCEPT ![c] = [joinState[c] EXCEPT !.due = TRUE]]
        /\ UNCHANGED access
    BY <1>11 DEF AttemptTimesOut, BackoffElapses
  <2> HIDE DEF JoinStates
  <2>4. \A s \in JoinStates : [joinState EXCEPT ![c] = s] \in [JoinChannels -> JoinStates \cup {NoState}]
    BY DEF JoinTypes
  <2> QED BY <2>2, <2>3, <2>4 DEF JoinTypes
<1>12. ASSUME NEW c \in JoinChannels, Answer(c) \/ Look(c) \/ Ask(c) \/ Unpin(c) PROVE JoinTypes'
  BY <1>1, <1>12 DEF Answer, Look, Ask, Unpin, storeVarsOfJoin
<1>13. CASE \/ ConnectionLost \/ TwitchCalms \/ IntervalTick \/ ReconcileNotified
            \/ TakeList \/ ListFails \/ Publish \/ Check \/ JoinNow \/ TellClient \/ OwnerDropped
  BY <1>1, <1>13 DEF ConnectionLost, TwitchCalms, IntervalTick, ReconcileNotified, TakeList,
       ListFails, Publish, Check, JoinNow, TellClient, OwnerDropped, storeVarsOfJoin
<1>14. CASE UNCHANGED joinVars
  BY <1>1, <1>14 DEF joinVars, storeVarsOfJoin
<1> QED
  BY <1>3, <1>4, <1>5, <1>6, <1>7, <1>8, <1>9, <1>10, <1>11, <1>12, <1>13, <1>14 DEF JoinNext

LEMMA GatedStep ==
  ASSUME Gated, [JoinNext]_joinVars PROVE Gated'
<1>1. CASE UNCHANGED <<reconciler, request>>
  BY <1>1 DEF Gated
<1>2. CASE IntervalTick \/ ReconcileNotified \/ RetryPoll
  BY <1>2 DEF IntervalTick, ReconcileNotified, RetryPoll, LoopAt, Gated, Holding
<1>3. CASE TakeList \/ ListFails
  BY <1>3 DEF TakeList, ListFails, GateFree, Parked, Gated, Holding
<1>4. ASSUME NEW c \in JoinChannels, Look(c) PROVE Gated'
  BY <1>4 DEF Look, Gated
<1>5. CASE Visit
  BY <1>5 DEF Visit, Gated
<1>6. CASE Prune \/ Publish
  BY <1>6 DEF Prune, Publish, LoopAt, Parked, Gated, Holding
<1>7. ASSUME NEW c \in JoinChannels, Ask(c) PROVE Gated'
  BY <1>7 DEF Ask, Gated, HoldingRequest
<1>8. CASE Touch \/ TouchSkipped
  BY <1>8 DEF Touch, TouchSkipped, Touched, GateFree, Gated, HoldingRequest
<1>9. CASE Check \/ Begin \/ JoinNow
  BY <1>9 DEF Check, Begin, JoinNow, NoCall, Gated, HoldingRequest
<1>10. ASSUME NEW c \in JoinChannels,
              \/ Answer(c) \/ Process(c) \/ OptOut(c) \/ OptIn(c) \/ Pin(c) \/ Unpin(c)
              \/ Lapse(c) \/ AttemptTimesOut(c) \/ BackoffElapses(c)
       PROVE  Gated'
  BY <1>1, <1>10 DEF Answer, Process, OptOut, OptIn, Pin, Unpin, Lapse, AttemptTimesOut,
       BackoffElapses, taskVars
<1>11. CASE ConnectionLost \/ TwitchCalms \/ TellClient \/ OwnerDropped
  BY <1>1, <1>11 DEF ConnectionLost, TwitchCalms, TellClient, OwnerDropped, taskVars
<1>12. CASE UNCHANGED joinVars
  BY <1>1, <1>12 DEF joinVars, taskVars
<1> QED
  BY <1>2, <1>3, <1>4, <1>5, <1>6, <1>7, <1>8, <1>9, <1>10, <1>11, <1>12 DEF JoinNext

LEMMA JoinInvSuffices == JoinInv => JoinTypeOK
  BY DEF JoinInv, JoinTypes, Gated, JoinTypeOK, JoinStates, Holding, HoldingRequest

\* The join states are those db.rs writes, the loop visits only what it listed, and
\* between reading its list and replacing the client's wanted set no request is
\* between its touch and its join (join_gate of irc_listener.rs).
THEOREM JoinsAreGated == JoinSpec => []JoinTypeOK
<1>1. JoinInv /\ [JoinNext]_joinVars => JoinInv'
  BY JoinTypesStep, GatedStep DEF JoinInv
<1> QED BY <1>1, JoinInitially, JoinInvSuffices, PTL DEF JoinSpec

\* Both tasks side by side.
THEOREM IrcIsTyped == IrcSpec => []IrcTypeOK
<1> DEFINE Inv == JoinInv /\ ForwardInv /\ BatchFits /\ ClaimsFollow
<1>1. IrcInit => Inv
  BY JoinInitially, ForwardInitially, FS_EmptySet, ForwarderBounds
     DEF IrcInit, ForwardInit, BatchFits, ClaimsFollow
<1>2. Inv /\ [IrcNext]_<<joinVars, forwardVars, part>> => Inv'
  <2>1. ASSUME Inv, [JoinNext]_joinVars, [ForwardNext]_forwardVars PROVE Inv'
    BY <2>1, JoinTypesStep, GatedStep, ForwardStep, BatchStep, ClaimsFollowStep DEF JoinInv
  <2> QED BY <2>1 DEF IrcNext
<1>3. Inv => IrcTypeOK
  BY JoinInvSuffices DEF BatchFits, ClaimsFollow, ForwardTypeOK, IrcTypeOK
<1> QED BY <1>1, <1>2, <1>3, PTL DEF IrcSpec
=============================================================================
