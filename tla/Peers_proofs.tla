---------------------------- MODULE Peers_proofs ----------------------------
(***************************************************************************)
(* The reach of one client's read in Peers, for any number of nodes, links *)
(* between them, reads, slots and permits, and any bound on the depth.     *)
(***************************************************************************)
EXTENDS Peers, SequenceTheorems, TLAPS

HandlerFields == {"kind", "hop", "after", "stage", "got", "span", "pending", "heard",
                  "peerGot", "peerSpan"}

\* A handler that waits to ask its peers was reached without the hop header, and
\* what a peer runs was reached with it.
Reach(q, p) ==
  LET h == handlers[q][p] IN
  /\ p \in Seq(Nodes) /\ Len(p) \in {1, 2}
  /\ DOMAIN h = HandlerFields
  /\ h.stage \in {"fetchQueue", "delegateQueue"} => h.hop = 0
  /\ Len(p) = 2 => /\ h.hop = 1
                   /\ <<p[1]>> \in DOMAIN handlers[q]
                   /\ handlers[q][<<p[1]>>].hop = 0

ReachInv ==
  /\ DOMAIN handlers = Readings
  /\ \A n \in Nodes : peersOf[n] \subseteq Nodes
  /\ \A q \in Readings : \A p \in DOMAIN handlers[q] : Reach(q, p)

\* The address of a handler one call away.
LEMMA OneLong ==
  ASSUME NEW S, NEW p \in Seq(S), Len(p) = 1
  PROVE  /\ p = <<p[1]>> /\ p[1] \in S /\ Last(p) = p[1]
         /\ \A n \in S : /\ Append(p, n) \in Seq(S)
                          /\ Len(Append(p, n)) = 2 /\ Append(p, n)[1] = p[1]
<1>1. p[1] \in S
  BY ElementOfSeq
<1>2. <<p[1]>> \in Seq(S) /\ Len(<<p[1]>>) = 1 /\ <<p[1]>>[1] = p[1]
  BY <1>1
<1>3. p = <<p[1]>>
  BY <1>2, SeqEqual
<1>4. ASSUME NEW n \in S
      PROVE  /\ Append(p, n) \in Seq(S)
             /\ Len(Append(p, n)) = 2 /\ Append(p, n)[1] = p[1]
  <2>1. /\ Append(p, n) \in Seq(S) /\ Len(Append(p, n)) = Len(p) + 1
        /\ \A i \in 1 .. Len(p) : Append(p, n)[i] = p[i]
    BY AppendProperties, Zenon
  <2>2. 1 \in 1 .. Len(p)
    OBVIOUS
  <2> QED BY <2>1, <2>2
<1>5. Last(p) = p[1]
  BY DEF Last
<1> QED BY <1>1, <1>3, <1>4, <1>5

\* A step of one handler that keeps its header.
LEMMA OneHandler ==
  ASSUME ReachInv, UNCHANGED peersOf,
         NEW q \in Readings, NEW p \in DOMAIN handlers[q], NEW h, With(q, p, h),
         DOMAIN h = HandlerFields, h.hop = handlers[q][p].hop,
         h.stage \in {"fetchQueue", "delegateQueue"} => h.hop = 0
  PROVE  ReachInv'
<1>1. /\ DOMAIN handlers' = Readings
      /\ \A r \in Readings : DOMAIN handlers'[r] = DOMAIN handlers[r]
      /\ \A r \in Readings : \A s \in DOMAIN handlers[r] :
           handlers'[r][s] = IF r = q /\ s = p THEN h ELSE handlers[r][s]
  BY DEF With, ReachInv
<1>2. ASSUME NEW r \in Readings, NEW s \in DOMAIN handlers[r] PROVE Reach(r, s)'
  <2>1. Reach(r, s)
    BY DEF ReachInv
  <2>2. \A t \in DOMAIN handlers[r] : handlers'[r][t].hop = handlers[r][t].hop
    BY <1>1
  <2>3. DOMAIN handlers'[r][s] = HandlerFields
    BY <1>1, <2>1 DEF Reach
  <2>4. handlers'[r][s].stage \in {"fetchQueue", "delegateQueue"} => handlers'[r][s].hop = 0
    BY <1>1, <2>1 DEF Reach
  <2> QED BY <1>1, <2>1, <2>2, <2>3, <2>4 DEF Reach
<1> QED BY <1>1, <1>2 DEF ReachInv

\* A step that asks every peer.
LEMMA AskingPeers ==
  ASSUME ReachInv, UNCHANGED peersOf,
         NEW q \in Readings, NEW p \in DOMAIN handlers[q], NEW h, NEW kind, Ask(q, p, h, kind),
         DOMAIN h = HandlerFields, h.hop = 0, handlers[q][p].hop = 0,
         h.stage \notin {"fetchQueue", "delegateQueue"}
  PROVE  ReachInv'
<1> DEFINE asked == {Append(p, n) : n \in peersOf[Last(p)]}
           made == Handler(kind, 1, h.after)
           asking == [h EXCEPT !.pending = peersOf[Last(p)]]
<1>1. p \in Seq(Nodes) /\ Len(p) = 1
  <2>1. Reach(q, p)
    BY DEF ReachInv
  <2> QED BY <2>1 DEF Reach
<1>2. /\ p = <<p[1]>> /\ p[1] \in Nodes /\ Last(p) = p[1]
      /\ peersOf[Last(p)] \subseteq Nodes
  <2>1. p = <<p[1]>> /\ p[1] \in Nodes /\ Last(p) = p[1]
    BY <1>1, OneLong
  <2> QED BY <2>1 DEF ReachInv
<1>3. \A c \in asked : /\ c \in Seq(Nodes) /\ Len(c) = 2 /\ <<c[1]>> = p
  <2>1. ASSUME NEW n \in Nodes
        PROVE  /\ Append(p, n) \in Seq(Nodes) /\ Len(Append(p, n)) = 2
               /\ Append(p, n)[1] = p[1]
    BY <1>1, OneLong
  <2> QED BY <1>2, <2>1
<1>4. /\ DOMAIN made = HandlerFields /\ made.hop = 1 /\ made.stage = "sent"
      /\ DOMAIN asking = HandlerFields /\ asking.hop = 0 /\ asking.stage = h.stage
  BY DEF Handler, HandlerFields
<1>5. /\ DOMAIN handlers' = Readings
      /\ \A r \in Readings \ {q} : handlers'[r] = handlers[r]
      /\ handlers'[q] = [c \in DOMAIN handlers[q] \cup asked |->
           IF c \in asked THEN made ELSE IF c = p THEN asking ELSE handlers[q][c]]
  BY DEF Ask, ReachInv
<1> HIDE DEF asked, made, asking
<1>6. p \notin asked
  <2>1. 2 # Len(p)
    BY <1>1
  <2> QED BY <1>3, <2>1, Zenon
<1>7. ASSUME NEW c \in DOMAIN handlers'[q] PROVE Reach(q, c)'
  <2>1. p \in DOMAIN handlers'[q] /\ handlers'[q][p].hop = 0
    BY <1>4, <1>5, <1>6
  <2>2. CASE c \in asked
    BY <1>3, <1>4, <1>5, <2>1, <2>2 DEF Reach
  <2>3. CASE c = p
    BY <1>1, <1>2, <1>4, <1>5, <1>6, <2>3 DEF Reach
  <2>4. CASE c \notin asked /\ c # p
    <3>1. c \in DOMAIN handlers[q] /\ handlers'[q][c] = handlers[q][c] /\ Reach(q, c)
      BY <1>5, <2>4 DEF ReachInv
    <3>2. CASE Len(c) = 2
      <4>1. <<c[1]>> \notin asked
        BY <1>3, <3>1 DEF Reach
      <4>2. /\ <<c[1]>> \in DOMAIN handlers'[q] /\ handlers'[q][<<c[1]>>].hop = 0
        BY <1>5, <2>1, <3>1, <3>2, <4>1 DEF Reach
      <4> QED BY <3>1, <4>2 DEF Reach
    <3>3. CASE Len(c) # 2
      BY <3>1, <3>3 DEF Reach
    <3> QED BY <3>2, <3>3
  <2> QED BY <2>2, <2>3, <2>4
<1>8. ASSUME NEW r \in Readings \ {q}, NEW c \in DOMAIN handlers'[r] PROVE Reach(r, c)'
  <2>1. handlers'[r] = handlers[r] /\ c \in DOMAIN handlers[r] /\ Reach(r, c)
    BY <1>5, <1>8 DEF ReachInv
  <2> QED BY <2>1 DEF Reach
<1> QED BY <1>5, <1>7, <1>8 DEF ReachInv

LEMMA ReadArrivesKeeps ==
  ASSUME ReachInv, NEW q \in Readings, ReadArrives(q) PROVE ReachInv'
<1>1. PICK n \in Nodes, hop \in Hops, after \in Afters :
        handlers' = [handlers EXCEPT ![q] = [p \in {<<n>>} |-> Handler("public", hop, after)]]
  BY DEF ReadArrives
<1>2. Reach(q, <<n>>)'
  BY <1>1 DEF ReachInv, Reach, Handler, HandlerFields
<1>3. /\ DOMAIN handlers' = Readings /\ DOMAIN handlers'[q] = {<<n>>}
      /\ \A r \in Readings \ {q} : handlers'[r] = handlers[r]
  BY <1>1 DEF ReachInv
<1>4. ASSUME NEW r \in Readings, NEW c \in DOMAIN handlers'[r] PROVE Reach(r, c)'
  <2>1. CASE r = q
    BY <1>2, <1>3, <2>1
  <2>2. CASE r # q
    <3>1. handlers'[r] = handlers[r] /\ c \in DOMAIN handlers[r] /\ Reach(r, c)
      BY <1>3, <1>4, <2>2 DEF ReachInv
    <3> QED BY <3>1 DEF Reach
  <2> QED BY <2>1, <2>2
<1>5. UNCHANGED peersOf
  BY DEF ReadArrives
<1> QED BY <1>3, <1>4, <1>5 DEF ReachInv

\* One case per operation of a handler.
LEMMA HandlerKeeps ==
  ASSUME ReachInv, NEW q \in Readings, NEW p \in DOMAIN handlers[q], Handle(q, p) \/ Drop(q, p)
  PROVE  ReachInv'
<1> DEFINE h == handlers[q][p]
<1>0. DOMAIN h = HandlerFields
  BY DEF ReachInv, Reach
<1>1. CASE Admit(q, p)
  BY <1>0, <1>1, OneHandler DEF Admit, AllowsPeer, HandlerFields
<1>2. CASE ReadRecords(q, p)
  BY <1>0, <1>2, OneHandler DEF ReadRecords, HandlerFields
<1>3. CASE ReadCoverage(q, p)
  BY <1>0, <1>3, OneHandler DEF ReadCoverage, AllowsPeer, HandlerFields
<1>4. CASE Fetch(q, p)
  <2> DEFINE g == [h EXCEPT !.stage = "fetching"]
  <2>1. h.hop = 0
    BY <1>4 DEF Fetch, ReachInv, Reach
  <2>2. DOMAIN g = HandlerFields /\ g.hop = 0 /\ g.stage = "fetching"
    BY <1>0, <2>1 DEF HandlerFields
  <2>3. Ask(q, p, g, "local") /\ UNCHANGED peersOf
    BY <1>4 DEF Fetch
  <2> HIDE DEF g
  <2> QED BY <2>1, <2>2, <2>3, AskingPeers
<1>5. CASE Delegate(q, p)
  <2> DEFINE g == [h EXCEPT !.stage = "delegating"]
  <2>1. h.hop = 0
    BY <1>5 DEF Delegate, ReachInv, Reach
  <2>2. DOMAIN g = HandlerFields /\ g.hop = 0 /\ g.stage = "delegating"
    BY <1>0, <2>1 DEF HandlerFields
  <2>3. Ask(q, p, g, "serve") /\ UNCHANGED peersOf
    BY <1>5 DEF Delegate
  <2> HIDE DEF g
  <2> QED BY <2>1, <2>2, <2>3, AskingPeers
<1>6. CASE Receive(q, p)
  BY <1>0, <1>6, OneHandler DEF Receive, Asking, Heard, Accumulate, HandlerFields
<1>7. CASE GiveUp(q, p)
  BY <1>0, <1>7, OneHandler DEF GiveUp, Asking, Heard, HandlerFields
<1>8. CASE Store(q, p)
  BY <1>0, <1>8, OneHandler DEF Store, HandlerFields
<1>9. CASE Record(q, p)
  BY <1>0, <1>9, OneHandler DEF Record, HandlerFields
<1>10. CASE Drop(q, p)
  BY <1>0, <1>10, OneHandler DEF Drop, HandlerFields
<1> QED
  BY <1>1, <1>2, <1>3, <1>4, <1>5, <1>6, <1>7, <1>8, <1>9, <1>10 DEF Handle

\* A client's read causes work on the node it reached and once on each of that node's
\* peers, and only without the hop header (allows_peer_fetch of peer.rs).
THEOREM ReadsDoNotCascade == PeersSpec => []NoCascade
<1>1. PeersInit => ReachInv
  BY DEF PeersInit, ReachInv
<1>2. ReachInv /\ [PeersNext]_peerVars => ReachInv'
  <2>1. ASSUME ReachInv, PeersNext PROVE ReachInv'
    BY <2>1, ReadArrivesKeeps, HandlerKeeps DEF PeersNext, ReadingNext
  <2>2. ASSUME ReachInv, UNCHANGED peerVars PROVE ReachInv'
    BY <2>2 DEF ReachInv, Reach, peerVars
  <2> QED BY <2>1, <2>2
<1>3. ReachInv => NoCascade
  <2>1. ASSUME ReachInv, NEW q \in Readings, NEW p \in DOMAIN handlers[q]
        PROVE  Len(p) <= 2 /\ (Len(p) = 2 => handlers[q][<<p[1]>>].hop = 0)
    <3>1. Reach(q, p)
      BY <2>1 DEF ReachInv
    <3>2. Len(p) \in {1, 2} /\ (Len(p) = 2 => handlers[q][<<p[1]>>].hop = 0)
      BY <3>1 DEF Reach
    <3> QED BY <3>2
  <2> QED BY <2>1 DEF NoCascade
<1> QED BY <1>1, <1>2, <1>3, PTL DEF PeersSpec

-----------------------------------------------------------------------------
(* A read alone on the nodes.                                              *)

LoneSpec(q) == PeersInit /\ [][ReadingNext(q)]_peerVars

\* The stages of a handler that asked its peers or is about to.
Fetching == {"fetchQueue", "fetching", "storing", "recording"}
Beyond == Fetching \cup {"delegateQueue", "delegating"}

\* What a handler knows: the coverage it took covers the records it took, and so
\* does what its peers sent.
Knows(q, p) ==
  LET h == handlers[q][p] IN
  /\ h.stage = "read" => h.got = kept[Last(p)] \cap Window(h.after)
  /\ h.stage \in Fetching \cup {"answered"} => Window(h.after) \cap h.span \subseteq h.got
  /\ Window(h.after) \cap h.peerSpan \subseteq h.peerGot

\* How it is connected: only the handler of the client's node asks, its peers are
\* other nodes and read for the same window.
Wired(q, p) ==
  LET h == handlers[q][p] IN
  /\ h.pending \subseteq peersOf[Last(p)]
  /\ \A n \in h.pending : Append(p, n) \in DOMAIN handlers[q]
  /\ Len(p) = 2 => /\ h.stage \notin Beyond
                   /\ h.after = handlers[q][<<p[1]>>].after
                   /\ p[2] # p[1]

\* Recorded coverage is true of the store, but for what the read itself recorded.
ClaimsTrue(q) ==
  \A n \in Nodes :
    \/ claimed[n] \subseteq kept[n]
    \/ <<n>> \in DOMAIN handlers[q] /\ handlers[q][<<n>>].stage \in {"answered", "refused"}

LoneInv(q) ==
  /\ ReachInv
  /\ DOMAIN kept = Nodes /\ DOMAIN claimed = Nodes
  /\ \A n \in Nodes : n \notin peersOf[n]
  /\ \A r \in Readings \ {q} : DOMAIN handlers[r] = {}
  /\ \A p, s \in DOMAIN handlers[q] : p[1] = s[1]
  /\ \A p \in DOMAIN handlers[q] : Knows(q, p) /\ Wired(q, p)
  /\ ClaimsTrue(q)

LEMMA LoneAnswers ==
  ASSUME NEW q \in Readings, LoneInv(q) PROVE AnswersAreComplete
<1> SUFFICES ASSUME NEW p \in DOMAIN handlers[q], handlers[q][p].stage = "answered",
                    Window(handlers[q][p].after) \subseteq handlers[q][p].span
             PROVE  Window(handlers[q][p].after) \subseteq handlers[q][p].got
  BY DEF LoneInv, AnswersAreComplete, Complete, Insufficient
<1> QED BY DEF LoneInv, Knows

\* A step of one handler, which may add to its node's store and, as its last step,
\* record coverage: what must hold of its new state.
LEMMA OneGrows ==
  ASSUME NEW q \in Readings, LoneInv(q), ReachInv', UNCHANGED peersOf,
         NEW p \in DOMAIN handlers[q], NEW h, With(q, p, h),
         DOMAIN kept' = Nodes, DOMAIN claimed' = Nodes,
         \A n \in Nodes : kept[n] \subseteq kept'[n],
         \A s \in DOMAIN handlers[q] \ {p} : kept'[Last(s)] = kept[Last(s)],
         \A n \in Nodes : \/ claimed'[n] = claimed[n]
                          \/ p = <<n>> /\ h.stage \in {"answered", "refused"},
         h.after = handlers[q][p].after,
         h.pending \subseteq handlers[q][p].pending,
         Len(p) = 2 => h.stage \notin Beyond,
         handlers[q][p].stage \in {"answered", "refused"} => h.stage \in {"answered", "refused"},
         h.stage = "read" => h.got = kept'[Last(p)] \cap Window(h.after),
         h.stage \in Fetching \cup {"answered"} => Window(h.after) \cap h.span \subseteq h.got,
         Window(h.after) \cap h.peerSpan \subseteq h.peerGot
  PROVE  LoneInv(q)'
<1>1. /\ \A r \in Readings : DOMAIN handlers'[r] = DOMAIN handlers[r]
      /\ \A s \in DOMAIN handlers[q] :
           handlers'[q][s] = IF s = p THEN h ELSE handlers[q][s]
  BY DEF With, LoneInv, ReachInv
<1>2. ASSUME NEW s \in DOMAIN handlers[q] PROVE Knows(q, s)'
  <2>1. Knows(q, s)
    BY DEF LoneInv
  <2>2. CASE s = p
    BY <1>1, <2>2 DEF Knows
  <2>3. CASE s # p
    <3>1. handlers'[q][s] = handlers[q][s] /\ kept'[Last(s)] = kept[Last(s)]
      BY <1>1, <2>3
    <3> QED BY <2>1, <3>1 DEF Knows
  <2> QED BY <2>2, <2>3
<1>3. ASSUME NEW s \in DOMAIN handlers[q] PROVE Wired(q, s)'
  <2>1. Wired(q, s) /\ Wired(q, p)
    BY DEF LoneInv
  <2>2. \A t \in DOMAIN handlers[q] : handlers'[q][t].after = handlers[q][t].after
    BY <1>1
  <2>3. Len(s) = 2 => <<s[1]>> \in DOMAIN handlers[q]
    BY DEF LoneInv, ReachInv, Reach
  <2>4. /\ handlers'[q][s].pending \subseteq handlers[q][s].pending
        /\ Len(s) = 2 => handlers'[q][s].stage \notin Beyond
    BY <1>1, <2>1 DEF Wired
  <2> QED BY <1>1, <2>1, <2>2, <2>3, <2>4 DEF Wired
<1>4. ClaimsTrue(q)'
  <2> SUFFICES ASSUME NEW n \in Nodes, ~(claimed'[n] \subseteq kept'[n])
               PROVE  /\ <<n>> \in DOMAIN handlers'[q]
                      /\ handlers'[q][<<n>>].stage \in {"answered", "refused"}
    BY DEF ClaimsTrue
  <2>1. CASE p = <<n>> /\ h.stage \in {"answered", "refused"}
    BY <1>1, <2>1
  <2>2. CASE claimed'[n] = claimed[n]
    <3>1. <<n>> \in DOMAIN handlers[q]
          /\ handlers[q][<<n>>].stage \in {"answered", "refused"}
      BY <2>2 DEF LoneInv, ClaimsTrue
    <3> QED BY <1>1, <3>1
  <2> QED BY <2>1, <2>2
<1>5. /\ \A n \in Nodes : n \notin peersOf'[n]
      /\ \A r \in Readings \ {q} : DOMAIN handlers'[r] = {}
      /\ \A r, s \in DOMAIN handlers'[q] : r[1] = s[1]
  BY <1>1 DEF LoneInv
<1> QED BY <1>1, <1>2, <1>3, <1>4, <1>5 DEF LoneInv

\* A step of one handler that changes no store.
LEMMA OneKnows ==
  ASSUME NEW q \in Readings, LoneInv(q), ReachInv', UNCHANGED <<peersOf, kept, claimed>>,
         NEW p \in DOMAIN handlers[q], NEW h, With(q, p, h),
         h.after = handlers[q][p].after,
         h.pending \subseteq handlers[q][p].pending,
         Len(p) = 2 => h.stage \notin Beyond,
         handlers[q][p].stage \in {"answered", "refused"} => h.stage \in {"answered", "refused"},
         h.stage = "read" => h.got = kept[Last(p)] \cap Window(h.after),
         h.stage \in Fetching \cup {"answered"} => Window(h.after) \cap h.span \subseteq h.got,
         Window(h.after) \cap h.peerSpan \subseteq h.peerGot
  PROVE  LoneInv(q)'
<1>1. DOMAIN kept' = Nodes /\ DOMAIN claimed' = Nodes
  BY DEF LoneInv
<1> QED BY <1>1, OneGrows

LEMMA Places ==
  ASSUME NEW q \in Readings, LoneInv(q), NEW p \in DOMAIN handlers[q]
  PROVE  /\ Reach(q, p) /\ Knows(q, p) /\ Wired(q, p) /\ DOMAIN handlers[q][p] = HandlerFields
         /\ Len(p) = 1 => p = <<p[1]>> /\ Last(p) = p[1]
         /\ Len(p) = 2 => Last(p) = p[2] /\ Last(p) # p[1]
         /\ Len(p) = 1 \/ Len(p) = 2
         /\ Last(p) \in Nodes
<1>1. Reach(q, p) /\ Knows(q, p) /\ Wired(q, p)
  BY DEF LoneInv, ReachInv
<1>2. p \in Seq(Nodes) /\ (Len(p) = 1 \/ Len(p) = 2) /\ DOMAIN handlers[q][p] = HandlerFields
  BY <1>1 DEF Reach
<1>3. CASE Len(p) = 1
  BY <1>1, <1>2, <1>3, OneLong
<1>4. CASE Len(p) = 2
  <2>1. Last(p) = p[2]
    BY <1>4 DEF Last
  <2>2. 2 \in 1 .. Len(p)
    BY <1>4
  <2>3. p[2] \in Nodes
    BY <1>2, <2>2, ElementOfSeq
  <2>4. p[2] # p[1]
    BY <1>1, <1>4 DEF Wired
  <2> QED BY <1>1, <1>2, <1>4, <2>1, <2>3, <2>4
<1> QED BY <1>1, <1>2, <1>3, <1>4

\* The coverage a handler reads is true of the store it read.
LEMMA ReadsTrueCoverage ==
  ASSUME NEW q \in Readings, LoneInv(q), NEW p \in DOMAIN handlers[q],
         handlers[q][p].stage = "read"
  PROVE  claimed[Last(p)] \subseteq kept[Last(p)]
<1> SUFFICES ASSUME ~(claimed[Last(p)] \subseteq kept[Last(p)]) PROVE FALSE
  OBVIOUS
<1> DEFINE n == Last(p)
<1>1. n \in Nodes /\ <<n>> \in DOMAIN handlers[q]
      /\ handlers[q][<<n>>].stage \in {"answered", "refused"}
  BY Places DEF LoneInv, ClaimsTrue
<1>2. <<n>>[1] = p[1]
  BY <1>1 DEF LoneInv
<1>3. n = p[1]
  BY <1>2
<1>4. p = <<n>>
  BY <1>3, Places
<1> QED BY <1>1, <1>4

\* What a peer answered is true of the window the handler asked for.
LEMMA RepliesAreTrue ==
  ASSUME NEW q \in Readings, LoneInv(q), NEW p \in DOMAIN handlers[q],
         handlers[q][p].stage \in Asking, NEW n \in handlers[q][p].pending,
         handlers[q][Append(p, n)].stage = "answered"
  PROVE  LET reply == handlers[q][Append(p, n)]
         IN Window(handlers[q][p].after) \cap reply.span \subseteq reply.got
<1> DEFINE s == Append(p, n)
<1>1. Len(p) = 1 /\ p \in Seq(Nodes) /\ s \in DOMAIN handlers[q] /\ n \in Nodes
  <2>1. Len(p) # 2
    BY Places DEF Wired, Beyond, Fetching, Asking
  <2>2. n \in peersOf[Last(p)] /\ Last(p) \in Nodes /\ s \in DOMAIN handlers[q]
    BY Places DEF Wired
  <2> QED BY <2>1, <2>2, Places DEF Reach, LoneInv, ReachInv
<1>2. Len(s) = 2 /\ <<s[1]>> = p
  BY <1>1, OneLong
<1>3. handlers[q][s].after = handlers[q][p].after /\ Knows(q, s)
  BY <1>1, <1>2, Places DEF Wired
<1> QED BY <1>3 DEF Knows

\* The operations that change the handler only.
LEMMA LoneHandlerKeeps ==
  ASSUME NEW q \in Readings, LoneInv(q), ReachInv', NEW p \in DOMAIN handlers[q],
         \/ Admit(q, p) \/ ReadRecords(q, p) \/ ReadCoverage(q, p)
         \/ Receive(q, p) \/ GiveUp(q, p) \/ Drop(q, p)
  PROVE  LoneInv(q)'
<1> DEFINE h == handlers[q][p]
<1>1. DOMAIN h = HandlerFields /\ Reach(q, p) /\ Knows(q, p) /\ Wired(q, p)
  BY Places
<1>2. Len(p) = 2 => h.hop = 1 /\ h.stage \notin Beyond
  BY <1>1 DEF Reach, Wired
<1>3. CASE Admit(q, p)
  <2>1. PICK stage \in {"reading", "delegateQueue", "refused"} :
          With(q, p, [h EXCEPT !.stage = stage]) /\ (stage = "delegateQueue" => h.hop = 0)
    BY <1>3 DEF Admit, AllowsPeer
  <2>2. h.stage = "sent" /\ UNCHANGED <<peersOf, kept, claimed>>
    BY <1>3 DEF Admit
  <2> QED BY <1>1, <1>2, <2>1, <2>2, OneKnows DEF HandlerFields, Knows, Beyond, Fetching
<1>4. CASE ReadRecords(q, p)
  <2>1. h.stage = "reading" /\ UNCHANGED <<peersOf, kept, claimed>>
        /\ With(q, p, [h EXCEPT !.stage = "read", !.got = kept[Last(p)] \cap Window(h.after)])
    BY <1>4 DEF ReadRecords
  <2> QED BY <1>1, <1>2, <2>1, OneKnows DEF HandlerFields, Knows, Beyond, Fetching
<1>5. CASE ReadCoverage(q, p)
  <2>1. PICK stage \in {"answered", "refused", "fetchQueue"} :
          /\ With(q, p, [h EXCEPT !.span = claimed[Last(p)], !.stage = stage])
          /\ stage = "fetchQueue" => h.hop = 0
    BY <1>1, <1>5 DEF ReadCoverage, AllowsPeer, HandlerFields
  <2>2. h.stage = "read" /\ UNCHANGED <<peersOf, kept, claimed>>
    BY <1>1, <1>5 DEF ReadCoverage, HandlerFields
  <2>3. claimed[Last(p)] \subseteq kept[Last(p)] /\ h.got = kept[Last(p)] \cap Window(h.after)
    BY <1>1, <2>2, ReadsTrueCoverage DEF Knows
  <2> DEFINE g == [h EXCEPT !.span = claimed[Last(p)], !.stage = stage]
  <2>4. /\ g.after = h.after /\ g.pending = h.pending /\ g.stage = stage /\ g.got = h.got
        /\ g.span = claimed[Last(p)] /\ g.peerSpan = h.peerSpan /\ g.peerGot = h.peerGot
    BY <1>1 DEF HandlerFields
  <2>5. /\ Len(p) = 2 => g.stage \notin Beyond
        /\ g.stage # "read"
        /\ Window(g.after) \cap g.span \subseteq g.got
        /\ Window(g.after) \cap g.peerSpan \subseteq g.peerGot
    BY <1>1, <1>2, <2>1, <2>3, <2>4 DEF Knows, Beyond, Fetching
  <2>6. With(q, p, g)
    BY <2>1
  <2> HIDE DEF g, h
  <2>7. UNCHANGED <<peersOf, kept, claimed>> /\ handlers[q][p].stage = "read"
    BY <2>2 DEF h
  <2> QED BY <2>4, <2>5, <2>6, <2>7, OneKnows DEF h
<1>6. CASE Drop(q, p)
  <2>1. UNCHANGED <<peersOf, kept, claimed>>
        /\ With(q, p, [h EXCEPT !.stage = "refused", !.pending = {}])
    BY <1>6 DEF Drop
  <2> QED BY <1>1, <1>2, <2>1, OneKnows DEF HandlerFields, Knows, Beyond, Fetching
<1>7. CASE GiveUp(q, p)
  <2>1. PICK n \in h.pending, stage \in {h.stage, "storing", "answered", "refused"} :
          /\ With(q, p, [h EXCEPT !.pending = @ \ {n}, !.stage = stage])
          /\ stage \in {"storing", "answered"} => h.stage = "fetching"
    BY <1>1, <1>7 DEF GiveUp, Heard, Asking, HandlerFields
  <2>2. h.stage \in Asking /\ UNCHANGED <<peersOf, kept, claimed>>
    BY <1>7 DEF GiveUp
  <2> QED BY <1>1, <1>2, <2>1, <2>2, OneKnows DEF HandlerFields, Knows, Beyond, Fetching, Asking
<1>8. CASE Receive(q, p)
  <2>1. h.stage \in Asking /\ UNCHANGED <<peersOf, kept, claimed>>
    BY <1>8 DEF Receive
  <2>2. PICK n \in h.pending :
          LET reply == handlers[q][Append(p, n)]
              rest == [h EXCEPT !.pending = @ \ {n}]
          IN With(q, p,
               IF h.stage = "fetching"
                 THEN Heard(IF reply.stage = "answered" THEN Accumulate(rest, reply) ELSE rest)
               ELSE IF reply.stage = "answered"
                 THEN [rest EXCEPT !.stage = "answered", !.got = reply.got,
                                   !.span = reply.span, !.pending = {}]
               ELSE IF rest.pending = {} THEN [rest EXCEPT !.stage = "refused"] ELSE rest)
    BY <1>8 DEF Receive
  <2> DEFINE reply == handlers[q][Append(p, n)]
             rest == [h EXCEPT !.pending = @ \ {n}]
  <2>3. reply.stage = "answered" => Window(h.after) \cap reply.span \subseteq reply.got
    BY <2>1, RepliesAreTrue
  <2> HIDE DEF reply
  <2>4. CASE h.stage = "fetching" /\ reply.stage = "answered"
    <3>1. PICK stage \in {"fetching", "storing", "answered"} :
            With(q, p, [h EXCEPT !.pending = @ \ {n}, !.stage = stage, !.heard = TRUE,
                                 !.peerGot = @ \cup reply.got, !.peerSpan = @ \cup reply.span])
      BY <1>1, <2>2, <2>4 DEF Heard, Accumulate, HandlerFields, reply
    <3> QED BY <1>1, <1>2, <2>1, <2>3, <2>4, <3>1, OneKnows
            DEF HandlerFields, Knows, Beyond, Fetching, Asking
  <2>5. CASE h.stage = "delegating" /\ reply.stage = "answered"
    <3>1. With(q, p, [h EXCEPT !.pending = {}, !.stage = "answered", !.got = reply.got,
                               !.span = reply.span])
      BY <1>1, <2>2, <2>5 DEF HandlerFields, reply
    <3> QED BY <1>1, <1>2, <2>1, <2>3, <2>5, <3>1, OneKnows
            DEF HandlerFields, Knows, Beyond, Fetching, Asking
  <2>6. CASE reply.stage # "answered"
    <3>1. PICK stage \in {h.stage, "storing", "answered", "refused"} :
            /\ With(q, p, [h EXCEPT !.pending = @ \ {n}, !.stage = stage])
            /\ stage \in {"storing", "answered"} => h.stage = "fetching"
      BY <1>1, <2>1, <2>2, <2>6 DEF Heard, Asking, HandlerFields, reply
    <3> QED BY <1>1, <1>2, <2>1, <3>1, OneKnows
            DEF HandlerFields, Knows, Beyond, Fetching, Asking
  <2> QED BY <2>1, <2>4, <2>5, <2>6 DEF Asking
<1> QED BY <1>3, <1>4, <1>5, <1>6, <1>7, <1>8
\* Handlers of a lone read on different paths are on different nodes.
LEMMA PathsApart ==
  ASSUME NEW q \in Readings, LoneInv(q), NEW p \in DOMAIN handlers[q], Len(p) = 1
  PROVE  /\ p = <<Last(p)>> /\ Last(p) \in Nodes
         /\ \A s \in DOMAIN handlers[q] \ {p} : Last(s) # Last(p)
<1>1. p = <<p[1]>> /\ Last(p) = p[1] /\ Last(p) \in Nodes
  BY Places
<1>2. ASSUME NEW s \in DOMAIN handlers[q] \ {p} PROVE Last(s) # Last(p)
  <2>1. s[1] = p[1]
    BY DEF LoneInv
  <2>2. CASE Len(s) = 1
    <3>1. s = <<s[1]>>
      BY <2>2, Places
    <3> QED BY <1>1, <2>1, <3>1
  <2>3. CASE Len(s) = 2
    <3>1. Last(s) # s[1]
      BY <2>3, Places
    <3> QED BY <1>1, <2>1, <3>1
  <2> QED BY <2>2, <2>3, Places
<1> QED BY <1>1, <1>2

\* Storing what the peers sent, and recording the coverage that came with it.
LEMMA LoneStoreKeeps ==
  ASSUME NEW q \in Readings, LoneInv(q), ReachInv', NEW p \in DOMAIN handlers[q],
         Store(q, p) \/ Record(q, p)
  PROVE  LoneInv(q)'
<1> DEFINE h == handlers[q][p]
<1>1. DOMAIN h = HandlerFields /\ Knows(q, p) /\ Wired(q, p)
  BY Places
<1>2. h.stage \in {"storing", "recording"}
  BY DEF Store, Record
<1>3. Len(p) = 1
  BY <1>1, <1>2, Places DEF Wired, Beyond, Fetching
<1>4. /\ p = <<Last(p)>> /\ Last(p) \in Nodes
      /\ \A s \in DOMAIN handlers[q] \ {p} : Last(s) # Last(p) /\ Last(s) \in Nodes
  BY <1>3, PathsApart, Places
<1>5. /\ Window(h.after) \cap h.span \subseteq h.got
      /\ Window(h.after) \cap h.peerSpan \subseteq h.peerGot
  BY <1>1, <1>2 DEF Knows, Fetching
<1>6. DOMAIN kept = Nodes /\ DOMAIN claimed = Nodes
  BY DEF LoneInv
<1>7. CASE Store(q, p)
  <2>1. PICK stage \in {"recording", "answered"} :
          With(q, p, [[h EXCEPT !.got = @ \cup h.peerGot, !.span = @ \cup h.peerSpan]
                        EXCEPT !.stage = stage])
    BY <1>7 DEF Store
  <2> DEFINE g == [[h EXCEPT !.got = @ \cup h.peerGot, !.span = @ \cup h.peerSpan]
                     EXCEPT !.stage = stage]
  <2>2. /\ g.after = h.after /\ g.pending = h.pending /\ g.stage = stage
        /\ g.got = h.got \cup h.peerGot /\ g.span = h.span \cup h.peerSpan
        /\ g.peerSpan = h.peerSpan /\ g.peerGot = h.peerGot
    BY <1>1 DEF HandlerFields
  <2>3. /\ UNCHANGED <<peersOf, claimed>>
        /\ kept' = [kept EXCEPT ![Last(p)] = @ \cup h.peerGot] \/ UNCHANGED kept
    BY <1>7 DEF Store
  <2>4. /\ DOMAIN kept' = Nodes /\ DOMAIN claimed' = Nodes
        /\ \A n \in Nodes : kept[n] \subseteq kept'[n]
        /\ \A n \in Nodes : n # Last(p) => kept'[n] = kept[n]
    BY <1>6, <2>3
  <2>5. \A s \in DOMAIN handlers[q] \ {p} : kept'[Last(s)] = kept[Last(s)]
    BY <1>4, <2>4
  <2>6. Window(g.after) \cap g.span \subseteq g.got
    BY <1>5, <2>2
  <2>7. h.stage = "storing"
    BY <1>7 DEF Store
  <2>8. With(q, p, g) /\ Window(g.after) \cap g.peerSpan \subseteq g.peerGot /\ UNCHANGED peersOf
    BY <1>5, <2>1, <2>2, <2>3
  <2>9. /\ g.stage \in {"recording", "answered"} /\ \A n \in Nodes : claimed'[n] = claimed[n]
    BY <2>1, <2>2, <2>3
  <2> HIDE DEF g
  <2> QED BY <1>3, <2>2, <2>4, <2>5, <2>6, <2>7, <2>8, <2>9, OneGrows
<1>8. CASE Record(q, p)
  <2> DEFINE g == [h EXCEPT !.stage = "answered"]
  <2>1. PICK recorded \in SUBSET h.peerSpan :
          claimed' = [claimed EXCEPT ![Last(p)] = @ \cup recorded]
    BY <1>8 DEF Record
  <2>2. /\ UNCHANGED <<peersOf, kept>> /\ With(q, p, g) /\ h.stage = "recording"
    BY <1>8 DEF Record
  <2>3. /\ g.after = h.after /\ g.pending = h.pending /\ g.stage = "answered"
        /\ g.got = h.got /\ g.span = h.span
        /\ g.peerSpan = h.peerSpan /\ g.peerGot = h.peerGot
    BY <1>1 DEF HandlerFields
  <2> HIDE DEF g
  <2>4. \A n \in Nodes : claimed'[n] = claimed[n] \/ (p = <<n>> /\ g.stage \in {"answered", "refused"})
    BY <1>4, <1>6, <2>1, <2>3
  <2>5. /\ DOMAIN kept' = Nodes /\ DOMAIN claimed' = Nodes
        /\ \A n \in Nodes : kept[n] \subseteq kept'[n]
        /\ \A s \in DOMAIN handlers[q] \ {p} : kept'[Last(s)] = kept[Last(s)]
    BY <1>6, <2>1, <2>2
  <2>6. /\ Window(g.after) \cap g.span \subseteq g.got
        /\ Window(g.after) \cap g.peerSpan \subseteq g.peerGot
    BY <1>5, <2>3
  <2> QED BY <1>3, <2>2, <2>3, <2>4, <2>5, <2>6, OneGrows
<1> QED BY <1>7, <1>8
\* Asking every peer: each runs a new handler for the same window.
LEMMA LoneAskKeeps ==
  ASSUME NEW q \in Readings, LoneInv(q), ReachInv', NEW p \in DOMAIN handlers[q],
         Fetch(q, p) \/ Delegate(q, p)
  PROVE  LoneInv(q)'
<1> DEFINE asked == {Append(p, n) : n \in peersOf[Last(p)]}
<1>1. PICK stage \in Asking, kind \in {"local", "serve"} :
        /\ Ask(q, p, [handlers[q][p] EXCEPT !.stage = stage], kind)
        /\ stage = "fetching" => handlers[q][p].stage = "fetchQueue"
        /\ stage = "delegating" => handlers[q][p].stage = "delegateQueue"
  BY Zenon DEF Fetch, Delegate, Asking
<1> DEFINE h == handlers[q][p]
           made == Handler(kind, 1, h.after)
           asking == [[h EXCEPT !.stage = stage] EXCEPT !.pending = peersOf[Last(p)]]
<1>2. UNCHANGED <<peersOf, kept, claimed>>
  BY DEF Fetch, Delegate
<1>3. DOMAIN h = HandlerFields /\ Knows(q, p) /\ Wired(q, p)
  BY Places
<1>4. h.stage \in {"fetchQueue", "delegateQueue"}
  BY DEF Fetch, Delegate
<1>5. Len(p) = 1 /\ p \in Seq(Nodes)
  BY <1>3, <1>4, Places DEF Wired, Beyond, Fetching, Reach
<1>6. p = <<Last(p)>> /\ Last(p) = p[1] /\ Last(p) \in Nodes
  BY <1>5, Places
<1>7. peersOf[Last(p)] \subseteq Nodes /\ Last(p) \notin peersOf[Last(p)]
  BY <1>6 DEF LoneInv, ReachInv
<1>8. \A c \in asked : Len(c) = 2 /\ c[1] = p[1] /\ <<c[1]>> = p /\ c[2] # c[1]
  <2> SUFFICES ASSUME NEW n \in peersOf[Last(p)]
               PROVE  /\ Len(Append(p, n)) = 2 /\ Append(p, n)[1] = p[1]
                      /\ Append(p, n)[2] # p[1]
    BY <1>6
  <2>1. Len(Append(p, n)) = 2 /\ Append(p, n)[1] = p[1]
    BY <1>5, <1>7, OneLong
  <2>2. Append(p, n)[Len(p) + 1] = n
    BY <1>5, <1>7, AppendProperties, Zenon
  <2> QED BY <1>5, <1>6, <1>7, <2>1, <2>2
<1>9. /\ made.after = h.after /\ made.stage = "sent" /\ made.pending = {}
      /\ made.peerSpan = {}
      /\ asking.after = h.after /\ asking.stage = stage
      /\ asking.pending = peersOf[Last(p)] /\ asking.got = h.got /\ asking.span = h.span
      /\ asking.peerSpan = h.peerSpan /\ asking.peerGot = h.peerGot
  BY <1>3 DEF Handler, HandlerFields
<1>10. /\ \A r \in Readings \ {q} : handlers'[r] = handlers[r]
       /\ handlers'[q] = [c \in DOMAIN handlers[q] \cup asked |->
            IF c \in asked THEN made ELSE IF c = p THEN asking ELSE handlers[q][c]]
  <2>1. [handlers[q][p] EXCEPT !.stage = stage].after = h.after
    BY <1>3 DEF HandlerFields
  <2> QED BY <1>1, <2>1 DEF Ask, LoneInv, ReachInv
<1>11. \A n \in peersOf[Last(p)] : Append(p, n) \in asked
  OBVIOUS
<1> HIDE DEF asked, made, asking
<1>12. p \notin asked
  BY <1>5, <1>8
<1>13. p \in DOMAIN handlers'[q] /\ handlers'[q][p] = asking
  BY <1>10, <1>12
<1>14. ASSUME NEW c \in DOMAIN handlers'[q]
       PROVE  Knows(q, c)' /\ Wired(q, c)' /\ c[1] = p[1]
  <2>1. CASE c \in asked
    <3>1. handlers'[q][c] = made
      BY <1>10, <2>1
    <3>2. Knows(q, c)'
      BY <1>9, <3>1 DEF Knows, Fetching
    <3>3. Wired(q, c)'
      BY <1>8, <1>9, <1>13, <2>1, <3>1 DEF Wired, Beyond, Fetching
    <3> QED BY <1>8, <2>1, <3>2, <3>3
  <2>2. CASE c = p
    <3>1. Knows(q, p)'
      BY <1>1, <1>3, <1>9, <1>13 DEF Knows, Fetching, Asking
    <3>2. Wired(q, p)'
      BY <1>2, <1>5, <1>9, <1>10, <1>11, <1>13 DEF Wired
    <3> QED BY <2>2, <3>1, <3>2
  <2>3. CASE c \notin asked /\ c # p
    <3>1. /\ c \in DOMAIN handlers[q] /\ handlers'[q][c] = handlers[q][c]
          /\ Knows(q, c) /\ Wired(q, c) /\ c[1] = p[1]
      BY <1>10, <2>3 DEF LoneInv
    <3>2. Knows(q, c)'
      BY <1>2, <3>1 DEF Knows
    <3>3. Len(c) = 2 => <<c[1]>> = p
      BY <1>6, <3>1
    <3>4. Wired(q, c)'
      BY <1>2, <1>9, <1>10, <1>13, <3>1, <3>3 DEF Wired
    <3> QED BY <3>1, <3>2, <3>4
  <2> QED BY <2>1, <2>2, <2>3
<1>15. ClaimsTrue(q)'
  <2> SUFFICES ASSUME NEW n \in Nodes, ~(claimed[n] \subseteq kept[n])
               PROVE  /\ <<n>> \in DOMAIN handlers'[q]
                      /\ handlers'[q][<<n>>].stage \in {"answered", "refused"}
    BY <1>2 DEF ClaimsTrue
  <2>1. /\ <<n>> \in DOMAIN handlers[q]
        /\ handlers[q][<<n>>].stage \in {"answered", "refused"}
    BY DEF LoneInv, ClaimsTrue
  <2>2. <<n>> # p /\ <<n>> \notin asked
    BY <1>4, <1>8, <2>1
  <2> QED BY <1>10, <2>1, <2>2
<1>16. /\ DOMAIN kept' = Nodes /\ DOMAIN claimed' = Nodes
       /\ \A n \in Nodes : n \notin peersOf'[n]
       /\ \A r \in Readings \ {q} : DOMAIN handlers'[r] = {}
  BY <1>2, <1>10 DEF LoneInv
<1> QED BY <1>14, <1>15, <1>16 DEF LoneInv

\* The client's read arrives at a node whose coverage is true.
LEMMA LoneArrivesKeeps ==
  ASSUME NEW q \in Readings, LoneInv(q), ReachInv', ReadArrives(q) PROVE LoneInv(q)'
<1>1. PICK n \in Nodes, hop \in Hops, after \in Afters :
        handlers' = [handlers EXCEPT ![q] = [p \in {<<n>>} |-> Handler("public", hop, after)]]
  BY DEF ReadArrives
<1>2. UNCHANGED <<peersOf, kept, claimed>> /\ DOMAIN handlers[q] = {}
  BY DEF ReadArrives
<1> DEFINE made == Handler("public", hop, after)
<1>3. made.stage = "sent" /\ made.pending = {} /\ made.peerSpan = {}
  BY DEF Handler
<1> HIDE DEF made
<1>4. /\ DOMAIN handlers'[q] = {<<n>>} /\ handlers'[q][<<n>>] = made
      /\ \A r \in Readings \ {q} : handlers'[r] = handlers[r]
  BY <1>1 DEF LoneInv, ReachInv, made
<1>5. Knows(q, <<n>>)' /\ Wired(q, <<n>>)'
  BY <1>3, <1>4 DEF Knows, Wired, Fetching
<1>6. ClaimsTrue(q)'
  BY <1>2 DEF LoneInv, ClaimsTrue
<1> QED BY <1>2, <1>4, <1>5, <1>6 DEF LoneInv

LEMMA LoneInitially ==
  ASSUME NEW q \in Readings PROVE PeersInit => LoneInv(q)
BY DEF PeersInit, LoneInv, ReachInv, ClaimsTrue

LEMMA LoneStep ==
  ASSUME NEW q \in Readings PROVE LoneInv(q) /\ [ReadingNext(q)]_peerVars => LoneInv(q)'
<1>1. ASSUME LoneInv(q), ReadArrives(q) PROVE LoneInv(q)'
  BY <1>1, ReadArrivesKeeps, LoneArrivesKeeps DEF LoneInv
<1>2. ASSUME LoneInv(q), NEW p \in DOMAIN handlers[q], Handle(q, p) \/ Drop(q, p)
      PROVE  LoneInv(q)'
  <2>1. ReachInv'
    BY <1>2, HandlerKeeps DEF LoneInv
  <2> QED BY <1>2, <2>1, LoneHandlerKeeps, LoneStoreKeeps, LoneAskKeeps DEF Handle
<1>3. ASSUME LoneInv(q), UNCHANGED peerVars PROVE LoneInv(q)'
  BY <1>3 DEF LoneInv, ReachInv, Reach, Knows, Wired, ClaimsTrue, peerVars
<1> QED BY <1>1, <1>2, <1>3 DEF ReadingNext

\* A read that no other read runs beside gets, when its answer is marked complete,
\* every message of its window: from the node's store and what its peers sent
\* (merge of query_local_messages and fetch_local in get_recent_messages.rs).  It
\* holds whatever the read's bound, its hops, its node's peers and their failures.
THEOREM LoneReadsAreComplete ==
  ASSUME NEW q \in Readings PROVE LoneSpec(q) => []AnswersAreComplete
BY LoneInitially, LoneStep, LoneAnswers, PTL DEF LoneSpec
-----------------------------------------------------------------------------
(* The types.  A reply is looked up at the address of the call, which the    *)
(* handler that made the call keeps until it has heard it or given it up.    *)

CallsExist ==
  \A q \in Readings : \A p \in DOMAIN handlers[q] :
    \A n \in handlers[q][p].pending : Append(p, n) \in DOMAIN handlers[q]

PeersTyped ==
  /\ PeersTypeOK /\ CallsExist
  /\ DOMAIN handlers = Readings
  /\ \A n \in Nodes : n \notin peersOf[n]

LEMMA PathsAreSequences ==
  ASSUME NEW p \in Paths
  PROVE  /\ p \in Seq(Nodes) /\ Len(p) \in 1..MaxDepth /\ Last(p) \in Nodes
         /\ \A i \in 2..Len(p) : p[i] # p[i - 1]
<1> USE PeerBounds
<1>1. PICK k \in 1..MaxDepth : p \in [1..k -> Nodes]
  BY DEF Paths
<1>2. p \in Seq(Nodes) /\ Len(p) = k
  BY <1>1
<1> QED BY <1>1, <1>2 DEF Paths, Last

LEMMA ShortPath ==
  ASSUME NEW n \in Nodes PROVE <<n>> \in Paths
<1> USE PeerBounds
<1>1. <<n>> \in [1..1 -> Nodes] /\ Len(<<n>>) = 1 /\ 1 \in 1..MaxDepth
  OBVIOUS
<1> QED BY <1>1 DEF Paths

LEMMA LongerPath ==
  ASSUME NEW p \in Paths, Len(p) < MaxDepth, NEW n \in Nodes, n # Last(p)
  PROVE  Append(p, n) \in Paths
<1> USE PeerBounds
<1> DEFINE s == Append(p, n)
<1>1. /\ p \in Seq(Nodes) /\ Len(p) \in 1..MaxDepth
      /\ \A i \in 2..Len(p) : p[i] # p[i - 1]
  BY PathsAreSequences
<1>2. /\ s \in Seq(Nodes) /\ Len(s) = Len(p) + 1 /\ s[Len(p) + 1] = n
      /\ \A i \in 1..Len(p) : s[i] = p[i]
  BY <1>1, AppendProperties
<1> HIDE DEF s
<1>3. s \in [1..Len(p) + 1 -> Nodes] /\ Len(p) + 1 \in 1..MaxDepth
  <2>1. s \in [1..Len(s) -> Nodes]
    BY <1>2, LenProperties
  <2> QED BY <1>1, <1>2, <2>1
<1>4. ASSUME NEW i \in 2..Len(s) PROVE s[i] # s[i - 1]
  <2>1. CASE i = Len(p) + 1
    <3>1. s[i] = n /\ s[i - 1] = p[Len(p)]
      BY <1>1, <1>2, <2>1
    <3> QED BY <3>1 DEF Last
  <2>2. CASE i # Len(p) + 1
    <3>1. i \in 2..Len(p) /\ i - 1 \in 1..Len(p) /\ i \in 1..Len(p)
      BY <1>1, <1>2, <2>2
    <3> QED BY <1>1, <1>2, <3>1
  <2> QED BY <2>1, <2>2
<1> QED BY <1>3, <1>4 DEF Paths, s

LEMMA NewHandlerTyped ==
  ASSUME NEW kind \in {"public", "serve", "local"}, NEW hop \in 0..2, NEW after \in Afters
  PROVE  Handler(kind, hop, after) \in Handlers /\ Handler(kind, hop, after).pending = {}
BY DEF Handler, Handlers, Stages

\* A step of one handler.
LEMMA OneTyped ==
  ASSUME PeersTyped, UNCHANGED peersOf,
         kept' \in [Nodes -> SUBSET Msgs], claimed' \in [Nodes -> SUBSET Msgs],
         NEW q \in Readings, NEW p \in DOMAIN handlers[q], NEW h \in Handlers, With(q, p, h),
         h.pending \subseteq handlers[q][p].pending
  PROVE  PeersTyped'
<1>1. /\ DOMAIN handlers' = Readings
      /\ \A r \in Readings : DOMAIN handlers'[r] = DOMAIN handlers[r]
      /\ \A r \in Readings : \A s \in DOMAIN handlers[r] :
           handlers'[r][s] = IF r = q /\ s = p THEN h ELSE handlers[r][s]
  BY DEF With, PeersTyped
<1>2. PeersTypeOK'
  BY <1>1 DEF PeersTyped, PeersTypeOK
<1>3. CallsExist'
  BY <1>1 DEF PeersTyped, CallsExist
<1> QED BY <1>1, <1>2, <1>3 DEF PeersTyped

\* A step that asks every peer.
LEMMA AskTyped ==
  ASSUME PeersTyped, UNCHANGED <<peersOf, kept, claimed>>,
         NEW q \in Readings, NEW p \in DOMAIN handlers[q], NEW h \in Handlers,
         NEW kind \in {"serve", "local"}, Ask(q, p, h, kind), Len(p) < MaxDepth
  PROVE  PeersTyped'
<1> DEFINE peers == peersOf[Last(p)]
           asked == {Append(p, n) : n \in peers}
           made == Handler(kind, 1, h.after)
           asking == [h EXCEPT !.pending = peers]
<1>1. p \in Paths /\ Last(p) \in Nodes /\ peers \subseteq Nodes /\ Last(p) \notin peers
  BY PathsAreSequences DEF PeersTyped, PeersTypeOK
<1>2. asked \subseteq Paths
  BY <1>1, LongerPath
<1>3. made \in Handlers /\ made.pending = {}
  <2>1. h.after \in Afters
    BY DEF Handlers
  <2> QED BY <2>1, NewHandlerTyped
<1>4. asking \in Handlers /\ asking.pending = peers
  BY <1>1 DEF Handlers
<1>5. /\ DOMAIN handlers' = Readings
      /\ \A r \in Readings \ {q} : handlers'[r] = handlers[r]
      /\ handlers'[q] = [c \in DOMAIN handlers[q] \cup asked |->
           IF c \in asked THEN made ELSE IF c = p THEN asking ELSE handlers[q][c]]
  BY DEF Ask, PeersTyped
<1>6. \A n \in peers : Append(p, n) \in asked
  OBVIOUS
<1> HIDE DEF asked, made, asking, peers
<1>7. ASSUME NEW c \in DOMAIN handlers'[q]
      PROVE  /\ c \in Paths /\ handlers'[q][c] \in Handlers
             /\ \A n \in handlers'[q][c].pending : Append(c, n) \in DOMAIN handlers'[q]
  <2>1. CASE c \in asked
    BY <1>2, <1>3, <1>5, <2>1
  <2>2. CASE c \notin asked /\ c = p
    BY <1>1, <1>4, <1>5, <1>6, <2>2
  <2>3. CASE c \notin asked /\ c # p
    <3>1. c \in DOMAIN handlers[q] /\ handlers'[q][c] = handlers[q][c]
      BY <1>5, <2>3
    <3> QED BY <1>5, <3>1 DEF PeersTyped, PeersTypeOK, CallsExist
  <2> QED BY <2>1, <2>2, <2>3
<1>8. PeersTypeOK'
  BY <1>5, <1>7 DEF PeersTyped, PeersTypeOK
<1>9. CallsExist'
  BY <1>5, <1>7 DEF PeersTyped, CallsExist
<1> QED BY <1>5, <1>8, <1>9 DEF PeersTyped

\* One case per operation of a handler.
LEMMA HandlerTyped ==
  ASSUME PeersTyped, NEW q \in Readings, NEW p \in DOMAIN handlers[q], Handle(q, p) \/ Drop(q, p)
  PROVE  PeersTyped'
<1> DEFINE h == handlers[q][p]
<1>1. /\ h \in Handlers
      /\ kept \in [Nodes -> SUBSET Msgs] /\ claimed \in [Nodes -> SUBSET Msgs]
      /\ p \in Paths /\ Last(p) \in Nodes
      /\ \A n \in h.pending : handlers[q][Append(p, n)] \in Handlers
  BY PathsAreSequences DEF PeersTyped, PeersTypeOK, CallsExist
<1> USE DEF Handlers, Stages, Holding, Asking, Over
<1>2. CASE Admit(q, p)
  BY <1>1, <1>2, OneTyped DEF Admit
<1>3. CASE ReadRecords(q, p)
  BY <1>1, <1>3, OneTyped DEF ReadRecords
<1>4. CASE ReadCoverage(q, p)
  BY <1>1, <1>4, OneTyped DEF ReadCoverage
<1>5. CASE Fetch(q, p)
  BY <1>1, <1>5, AskTyped DEF Fetch
<1>6. CASE Delegate(q, p)
  BY <1>1, <1>6, AskTyped DEF Delegate
<1>7. CASE Receive(q, p)
  <2>1. PICK n \in h.pending :
          LET reply == handlers[q][Append(p, n)]
              rest == [h EXCEPT !.pending = @ \ {n}] IN
          With(q, p,
            IF h.stage = "fetching"
              THEN Heard(IF reply.stage = "answered" THEN Accumulate(rest, reply) ELSE rest)
            ELSE IF reply.stage = "answered"
              THEN [rest EXCEPT !.stage = "answered", !.got = reply.got,
                                !.span = reply.span, !.pending = {}]
            ELSE IF rest.pending = {} THEN [rest EXCEPT !.stage = "refused"] ELSE rest)
    BY <1>7 DEF Receive
  <2> DEFINE reply == handlers[q][Append(p, n)]
             rest == [h EXCEPT !.pending = @ \ {n}]
             more == IF reply.stage = "answered" THEN Accumulate(rest, reply) ELSE rest
             taken == [rest EXCEPT !.stage = "answered", !.got = reply.got,
                                   !.span = reply.span, !.pending = {}]
             failed == IF rest.pending = {} THEN [rest EXCEPT !.stage = "refused"] ELSE rest
             next == IF h.stage = "fetching" THEN Heard(more)
                     ELSE IF reply.stage = "answered" THEN taken ELSE failed
  <2>2. reply \in Handlers /\ rest \in Handlers /\ rest.pending \subseteq h.pending
    BY <1>1
  <2>3. more \in Handlers /\ more.pending \subseteq h.pending
    BY <2>2 DEF Accumulate
  <2>4. Heard(more) \in Handlers /\ Heard(more).pending \subseteq h.pending
    <3> HIDE DEF more
    <3> QED BY <2>3 DEF Heard
  <2>5. taken \in Handlers /\ taken.pending \subseteq h.pending
    BY <2>2
  <2>6. failed \in Handlers /\ failed.pending \subseteq h.pending
    BY <2>2
  <2>7. With(q, p, next)
    BY <2>1
  <2> HIDE DEF more, taken, failed
  <2>8. next \in Handlers /\ next.pending \subseteq h.pending
    BY <2>4, <2>5, <2>6
  <2>9. UNCHANGED <<peersOf, kept, claimed>>
    BY <1>7 DEF Receive
  <2> HIDE DEF next
  <2> QED BY <1>1, <2>7, <2>8, <2>9, OneTyped
<1>8. CASE GiveUp(q, p)
  BY <1>1, <1>8, OneTyped DEF GiveUp, Heard
<1>9. CASE Store(q, p)
  BY <1>1, <1>9, OneTyped DEF Store
<1>10. CASE Record(q, p)
  BY <1>1, <1>10, OneTyped DEF Record
<1>11. CASE Drop(q, p)
  BY <1>1, <1>11, OneTyped DEF Drop
<1> QED
  BY <1>2, <1>3, <1>4, <1>5, <1>6, <1>7, <1>8, <1>9, <1>10, <1>11 DEF Handle

LEMMA ArrivalTyped ==
  ASSUME PeersTyped, NEW q \in Readings, ReadArrives(q) PROVE PeersTyped'
<1>1. PICK n \in Nodes, hop \in Hops, after \in Afters :
        handlers' = [handlers EXCEPT ![q] = [p \in {<<n>>} |-> Handler("public", hop, after)]]
  BY DEF ReadArrives
<1>2. /\ UNCHANGED <<peersOf, kept, claimed>>
      /\ DOMAIN handlers' = Readings /\ DOMAIN handlers'[q] = {<<n>>}
      /\ handlers'[q][<<n>>] = Handler("public", hop, after)
      /\ \A r \in Readings \ {q} : handlers'[r] = handlers[r]
  BY <1>1 DEF PeersTyped, ReadArrives
<1>3. /\ <<n>> \in Paths /\ Handler("public", hop, after) \in Handlers
      /\ Handler("public", hop, after).pending = {}
  BY ShortPath, NewHandlerTyped, PeerBounds
<1>4. PeersTypeOK'
  BY <1>2, <1>3 DEF PeersTyped, PeersTypeOK
<1>5. CallsExist'
  BY <1>2, <1>3 DEF PeersTyped, CallsExist
<1> QED BY <1>2, <1>4, <1>5 DEF PeersTyped

LEMMA PeersTypedInitially == PeersInit => PeersTyped
BY DEF PeersInit, PeersTyped, PeersTypeOK, CallsExist

LEMMA PeersTypedStep == PeersTyped /\ [PeersNext]_peerVars => PeersTyped'
<1>1. ASSUME PeersTyped, PeersNext PROVE PeersTyped'
  BY <1>1, ArrivalTyped, HandlerTyped DEF PeersNext, ReadingNext
<1>2. ASSUME PeersTyped, UNCHANGED peerVars PROVE PeersTyped'
  BY <1>2 DEF PeersTyped, PeersTypeOK, CallsExist, peerVars
<1> QED BY <1>1, <1>2

\* Whatever calls run out of time or are dropped while their handlers go on, every
\* reply a handler takes is one of a call it made, and stores and recorded coverage
\* hold messages that were sent (fetch_local and delegate_recent of peer.rs).
THEOREM PeersAreTyped == PeersSpec => []PeersTypeOK
<1>1. PeersTyped => PeersTypeOK
  BY DEF PeersTyped
<1> QED BY <1>1, PeersTypedInitially, PeersTypedStep, PTL DEF PeersSpec
=============================================================================
