------------------------------- MODULE Peers --------------------------------
(***************************************************************************)
(* Owned peers: reads of one channel on several nodes.  A node that is     *)
(* overloaded passes the whole read to its peers; a node whose coverage is *)
(* short asks them for their local records, stores what it got and records *)
(* the coverage that came with it.  Handlers are addressed by the path of  *)
(* nodes that led to them: <<n>> serves the client, <<n, p>> runs on p for *)
(* it.  A message is named by the time it was received at.                 *)
(***************************************************************************)
EXTENDS Integers, Sequences, FiniteSets, SequencesExt

CONSTANTS Nodes,
          Readings,     \* clients' reads, one request each
          Afters,       \* the `after` bounds a client may send
          Hops,         \* the x-rm-hop headers a client may send; 2 stands for a bad one
          AdmitSlots,   \* web.max_inflight_recent_requests, per node
          PeerPermits,  \* peer.max_inflight, per node
          MaxDepth      \* bound: nodes on a path

ASSUME PeerBounds ==
  /\ {AdmitSlots, PeerPermits, MaxDepth} \subseteq Nat \ {0}
  /\ Hops \subseteq 0..2

Msgs == 1..2            \* every message was sent; nodes missed some
Paths == {p \in UNION {[1..k -> Nodes] : k \in 1..MaxDepth} :
            \A i \in 2..Len(p) : p[i] # p[i - 1]}

VARIABLES peersOf,      \* node -> the nodes its peer.nodes lists; it never changes
          kept,         \* node -> the messages its block store holds
          claimed,      \* node -> the times its recorded coverage spans
          handlers      \* reading -> path -> handler

peerVars == <<peersOf, kept, claimed, handlers>>

Holding == {"reading", "read", "fetchQueue", "fetching", "storing", "recording"}
Asking == {"fetching", "delegating"}
Over == {"answered", "refused"}
Stages == Holding \cup Asking \cup Over \cup {"sent", "delegateQueue"}

Handlers ==
  [kind : {"public", "serve", "local"}, hop : 0..2, after : Afters, stage : Stages,
   got : SUBSET Msgs, span : SUBSET Msgs,              \* the handler's own view
   pending : SUBSET Nodes, heard : BOOLEAN,            \* its calls to peers
   peerGot : SUBSET Msgs, peerSpan : SUBSET Msgs]      \* what they brought

PeersTypeOK ==
  /\ kept \in [Nodes -> SUBSET Msgs] /\ claimed \in [Nodes -> SUBSET Msgs]
  /\ peersOf \in [Nodes -> SUBSET Nodes]
  /\ \A q \in Readings : DOMAIN handlers[q] \subseteq Paths
                         /\ \A p \in DOMAIN handlers[q] : handlers[q][p] \in Handlers

Handler(kind, hop, after) ==
  [kind |-> kind, hop |-> hop, after |-> after, stage |-> "sent", got |-> {}, span |-> {},
   pending |-> {}, heard |-> FALSE, peerGot |-> {}, peerSpan |-> {}]

-----------------------------------------------------------------------------
(* Resources of a node *)

Used(n, stages, kinds) ==
  Cardinality(UNION {{<<q, p>> : p \in {c \in DOMAIN handlers[q] :
                                         /\ Last(c) = n
                                         /\ handlers[q][c].stage \in stages
                                         /\ handlers[q][c].kind \in kinds}} : q \in Readings})

\* admit_public_request: try_acquire, by public and delegated reads.
CanAdmit(n) == Used(n, Holding, {"public", "serve"}) < AdmitSlots
CanAsk(n) == Used(n, Asking, {"public", "serve"}) < PeerPermits

\* MUTANT of AllowsPeer: x-rm-no-peer and x-rm-hop are not looked at.
AllowsPeerAlways(h) == TRUE

\* allows_peer_fetch: the calls of peers carry x-rm-hop: 1 and x-rm-no-peer: 1.
AllowsPeer(h) == h.hop = 0

Window(after) == {m \in Msgs : m > after}

\* AssessCoverage of module Coverage with a window of messages for its time range,
\* and ShouldAttemptRepair with a limit above what the window can hold.
Insufficient(h) == ~(Window(h.after) \subseteq h.span)

-----------------------------------------------------------------------------
(* Handlers *)

With(q, p, h) == handlers' = [handlers EXCEPT ![q][p] = h]

\* The handler together with one new handler on every peer.
Ask(q, p, h, kind) ==
  LET peers == peersOf[Last(p)]
      asked == {Append(p, n) : n \in peers}
  IN handlers' = [handlers EXCEPT ![q] =
       [c \in DOMAIN @ \cup asked |->
          IF c \in asked THEN Handler(kind, 1, h.after)
          ELSE IF c = p THEN [h EXCEPT !.pending = peers] ELSE @[c]]]

\* A client's read.  It may carry any x-rm-hop itself; 2 is refused after the
\* local read and counts as no peer allowed when the node is overloaded.
ReadArrives(q) ==
  /\ DOMAIN handlers[q] = {}
  /\ \E n \in Nodes, hop \in Hops, after \in Afters :
       handlers' = [handlers EXCEPT ![q] = [p \in {<<n>>} |-> Handler("public", hop, after)]]
  /\ UNCHANGED <<peersOf, kept, claimed>>

\* get_local_recent takes no slot; a public read without one is overloaded and
\* passed on by delegate_overload if the request allows it; a delegated read is
\* not wrapped in delegate_overload, so it is refused.
Admit(q, p) ==
  LET h == handlers[q][p]
      overloaded == h.kind # "local" /\ ~CanAdmit(Last(p)) IN
  /\ h.stage = "sent"
  /\ With(q, p, [h EXCEPT !.stage =
       IF ~overloaded THEN "reading"
       ELSE IF h.kind = "public" /\ AllowsPeer(h) /\ peersOf[Last(p)] # {} THEN "delegateQueue"
       ELSE "refused"])
  /\ UNCHANGED <<peersOf, kept, claimed>>

\* query_local_messages, then get_coverage_intervals: two transactions.
ReadRecords(q, p) ==
  LET h == handlers[q][p] IN
  /\ h.stage = "reading"
  /\ With(q, p, [h EXCEPT !.stage = "read", !.got = kept[Last(p)] \cap Window(h.after)])
  /\ UNCHANGED <<peersOf, kept, claimed>>

ReadCoverage(q, p) ==
  LET h == [handlers[q][p] EXCEPT !.span = claimed[Last(p)]] IN
  /\ h.stage = "read"
  /\ With(q, p, [h EXCEPT !.stage =
       IF h.kind = "local" THEN "answered"
       ELSE IF h.hop = 2 THEN "refused"
       ELSE IF AllowsPeer(h) /\ Insufficient(h) /\ peersOf[Last(p)] # {} THEN "fetchQueue"
       ELSE "answered"])
  /\ UNCHANGED <<peersOf, kept, claimed>>

\* fetch_local and delegate_recent wait for a permit without a timeout and keep it
\* until every call, or the first successful one, has been heard.
Fetch(q, p) ==
  /\ handlers[q][p].stage = "fetchQueue" /\ CanAsk(Last(p)) /\ Len(p) < MaxDepth
  /\ Ask(q, p, [handlers[q][p] EXCEPT !.stage = "fetching"], "local")
  /\ UNCHANGED <<peersOf, kept, claimed>>

Delegate(q, p) ==
  /\ handlers[q][p].stage = "delegateQueue" /\ CanAsk(Last(p)) /\ Len(p) < MaxDepth
  /\ Ask(q, p, [handlers[q][p] EXCEPT !.stage = "delegating"], "serve")
  /\ UNCHANGED <<peersOf, kept, claimed>>

\* MUTANT of Accumulate: the last reply's records replace the earlier ones.
AccumulateLast(h, reply) ==
  [h EXCEPT !.heard = TRUE, !.peerGot = reply.got, !.peerSpan = @ \cup reply.span]

\* Records and coverage of every successful reply are merged.
Accumulate(h, reply) ==
  [h EXCEPT !.heard = TRUE, !.peerGot = @ \cup reply.got, !.peerSpan = @ \cup reply.span]

\* What follows when the last reply of a fetch is in.
Heard(h) ==
  IF h.pending # {} THEN h
  ELSE IF h.heard THEN [h EXCEPT !.stage = "storing"] ELSE [h EXCEPT !.stage = "answered"]

Receive(q, p) ==
  LET h == handlers[q][p] IN
  /\ h.stage \in Asking
  /\ \E n \in h.pending :
       LET reply == handlers[q][Append(p, n)]
           rest == [h EXCEPT !.pending = @ \ {n}] IN
       /\ reply.stage \in Over
       /\ With(q, p,
            IF h.stage = "fetching"
              THEN Heard(IF reply.stage = "answered" THEN Accumulate(rest, reply) ELSE rest)
            ELSE IF reply.stage = "answered"
              THEN [rest EXCEPT !.stage = "answered", !.got = reply.got,
                                !.span = reply.span, !.pending = {}]
            ELSE IF rest.pending = {} THEN [rest EXCEPT !.stage = "refused"] ELSE rest)
  /\ UNCHANGED <<peersOf, kept, claimed>>

\* MUTANT of GivesUp: only a call that was answered can be given up.
GivesUpWhenHeard(q, p, n) == handlers[q][Append(p, n)].stage \in Over

\* request_timeout and delegate_timeout run from the moment a call is made.
GivesUp(q, p, n) == TRUE

\* A call that failed or ran out of time; its handler may go on.
GiveUp(q, p) ==
  LET h == handlers[q][p] IN
  /\ h.stage \in Asking
  /\ \E n \in h.pending :
       LET rest == [h EXCEPT !.pending = @ \ {n}] IN
       /\ GivesUp(q, p, n)
       /\ With(q, p, IF h.stage = "fetching" THEN Heard(rest)
                     ELSE IF rest.pending = {} THEN [rest EXCEPT !.stage = "refused"] ELSE rest)
  /\ UNCHANGED <<peersOf, kept, claimed>>

\* append_batch of what the peers sent; coverage is recorded only if it succeeds,
\* the answer is merged in either case.
Store(q, p) ==
  LET h == handlers[q][p]
      merged == [h EXCEPT !.got = @ \cup h.peerGot, !.span = @ \cup h.peerSpan] IN
  /\ h.stage = "storing"
  /\ \/ /\ kept' = [kept EXCEPT ![Last(p)] = @ \cup h.peerGot]
        /\ With(q, p, [merged EXCEPT !.stage = "recording"])
     \/ h.peerGot # {} /\ With(q, p, [merged EXCEPT !.stage = "answered"]) /\ UNCHANGED kept
  /\ UNCHANGED <<peersOf, claimed>>

Record(q, p) ==
  LET h == handlers[q][p] IN
  /\ h.stage = "recording"
  /\ \E recorded \in SUBSET h.peerSpan :      \* a failed write is only logged
       claimed' = [claimed EXCEPT ![Last(p)] = @ \cup recorded]
  /\ With(q, p, [h EXCEPT !.stage = "answered"])
  /\ UNCHANGED <<peersOf, kept>>

\* A handler is dropped where it waits: its client hung up, the server's timeout
\* passed, the node restarted.
Drop(q, p) ==
  /\ handlers[q][p].stage \notin Over
  /\ With(q, p, [handlers[q][p] EXCEPT !.stage = "refused", !.pending = {}])
  /\ UNCHANGED <<peersOf, kept, claimed>>

-----------------------------------------------------------------------------
\* Every node's coverage is true of its store.
PeersInit ==
  /\ peersOf \in [Nodes -> SUBSET Nodes] /\ \A n \in Nodes : n \notin peersOf[n]
  /\ kept \in [Nodes -> SUBSET Msgs]
  /\ claimed \in [Nodes -> SUBSET Msgs]
  /\ \A n \in Nodes : claimed[n] \subseteq kept[n]
  /\ handlers = [q \in Readings |-> <<>>]

Handle(q, p) ==
  \/ Admit(q, p) \/ ReadRecords(q, p) \/ ReadCoverage(q, p) \/ Fetch(q, p) \/ Delegate(q, p)
  \/ Receive(q, p) \/ GiveUp(q, p) \/ Store(q, p) \/ Record(q, p)

ReadingNext(q) == ReadArrives(q) \/ \E p \in DOMAIN handlers[q] : Handle(q, p) \/ Drop(q, p)
PeersNext == \E q \in Readings : ReadingNext(q)

\* A node runs its handlers; a call's timeout passes.  The peers themselves need
\* not answer: the fairness is that of the node the client asked.
PeersFairness ==
  \A q \in Readings :
    WF_peerVars(\E p \in DOMAIN handlers[q] : Len(p) = 1 /\ Handle(q, p))

PeersSpec == PeersInit /\ [][PeersNext]_peerVars /\ PeersFairness

-----------------------------------------------------------------------------
\* The headers stop recursion: whatever is overloaded or short of coverage, a
\* client's read causes work on its own node and once on each peer, never more.
NoCascade ==
  \A q \in Readings : \A p \in DOMAIN handlers[q] :
    Len(p) <= 2 /\ (Len(p) = 2 => handlers[q][<<p[1]>>].hop = 0)

\* An answer that is marked complete holds every message of its window.
Complete(q, p) ==
  LET h == handlers[q][p] IN
    h.kind # "local" /\ h.stage = "answered" /\ ~Insufficient(h)
      => Window(h.after) \subseteq h.got
AnswersAreComplete == \A q \in Readings : \A p \in DOMAIN handlers[q] : Complete(q, p)

\* The coverage a node has recorded is true of its store.  The code breaks it with
\* one read that has an `after`: the peer's coverage is copied whole, its records
\* only from `after` on.
ClaimsAreKept == \A n \in Nodes : claimed[n] \subseteq kept[n]

\* Every read ends, though peers are silent, overloaded or waiting on each other.
ReadsEnd ==
  \A q \in Readings :
    DOMAIN handlers[q] # {} ~>
      \E p \in DOMAIN handlers[q] : Len(p) = 1 /\ handlers[q][p].stage \in Over
=============================================================================
