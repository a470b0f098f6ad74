------------------------ MODULE DurableIngest_proofs ------------------------
(***************************************************************************)
(* Proofs about DurableIngest, for all values of its constants: typing,    *)
(* what merging and appending records keep, and on them the safety         *)
(* invariants and the refinement of DurableCache.                          *)
(***************************************************************************)
EXTENDS DurableIngest, TLAPS, FiniteSetTheorems, WellFoundedInduction

\* A nonempty set of naturals has a least element.
LEMMA LeastNat ==
    ASSUME NEW T \in SUBSET Nat, T # {}
    PROVE  \E x \in T : \A y \in T : x <= y
<1>1. PICK x \in T : \A y \in T : ~(<<y, x>> \in OpToRel(<, Nat))
  BY NatLessThanWellFounded, WFMin, Zenon
<1>2. \A a, b \in Nat : a < b => <<a, b>> \in OpToRel(<, Nat)
  BY Zenon DEF OpToRel
<1>3. \A y \in T : ~(y < x)
  BY <1>1, <1>2
<1> QED BY <1>3

\* Merge invents no record.
LEMMA MergeSubset ==
    ASSUME NEW old, NEW new
    PROVE  Merge(old, new) \subseteq old \cup new
BY DEF Merge

\* Deduplication keeps every event, in a copy as good as any it was given.
LEMMA MergeCovers ==
    ASSUME NEW old \in SUBSET Record, NEW new \in SUBSET Record,
           NEW r \in old \cup new
    PROVE  \E q \in Merge(old, new) : Covers(q, r)
<1> DEFINE Copies == {x \in old \cup new : x.key = r.key}
           Best(x) == x \in Copies /\ \A y \in Copies : y.fid <= x.fid
<1>1. \A x \in Copies : x \in Record /\ x.fid \in 0 .. 2
  BY DEF Record, Fidelity
<1>2. PICK m : Best(m)
  <2>1. CASE \E x \in Copies : x.fid = 2
    BY <1>1, <2>1
  <2>2. CASE (\A x \in Copies : x.fid # 2) /\ \E x \in Copies : x.fid = 1
    BY <1>1, <2>2
  <2>3. CASE \A x \in Copies : x.fid = 0
    BY <1>1, <2>3
  <2> QED BY <1>1, <2>1, <2>2, <2>3
<1>3. CASE \E o \in old : Best(o)
  <2>1. PICK o \in old : Best(o)
    BY <1>3
  <2>2. \A n \in new : ~ShouldReplace(n, o)
    BY <1>1, <2>1 DEF ShouldReplace
  <2>3. o \in Merge(old, new)
    BY <2>1, <2>2 DEF Merge
  <2> QED BY <1>1, <2>1, <2>3 DEF Covers
<1>4. CASE \A o \in old : ~Best(o)
  <2> DEFINE Top == {x \in new : Best(x)}
             Times == {x.recv : x \in Top}
  <2>1. Times \in SUBSET Nat /\ m \in Top
    BY <1>1, <1>2, <1>4 DEF Record
  <2>2. PICK n \in Top : \A y \in Top : n.recv <= y.recv
    <3>1. Times # {}
      BY <2>1
    <3>2. PICK t \in Times : \A u \in Times : t <= u
      <4> HIDE DEF Times
      <4> QED BY <2>1, <3>1, LeastNat
    <3> QED BY <3>2
  <2>3. \A o \in old : o.key = n.key => ShouldReplace(n, o)
    BY <1>1, <1>4, <2>2 DEF ShouldReplace
  <2>4. \A x \in new : x.key = n.key =>
            n.fid > x.fid \/ (n.fid = x.fid /\ n.recv <= x.recv)
    <3> SUFFICES ASSUME NEW x \in new, x.key = n.key, ~(n.fid > x.fid)
                 PROVE  n.fid = x.fid /\ n.recv <= x.recv
      BY <1>1, <2>2
    <3>1. x \in Copies /\ n.fid = x.fid
      BY <1>1, <2>2
    <3>2. x \in Top
      BY <2>2, <3>1
    <3> QED BY <2>2, <3>1, <3>2
  <2>5. n \in Merge(old, new)
    BY <2>2, <2>3, <2>4 DEF Merge
  <2> QED BY <1>1, <2>2, <2>5 DEF Covers
<1> QED BY <1>3, <1>4

-----------------------------------------------------------------------------
\* An append transaction adds nothing but admitted records, and each record it
\* was given or held ends in the store or among the released ones, in a copy as
\* good.
LEMMA AppendFacts ==
    ASSUME TypeOK, NEW rs \in SUBSET Record, AppendToStore(rs)
    PROVE  /\ sealed' \subseteq sealed \cup Admitted(rs)
           /\ sealed' \subseteq Record
           /\ released' \subseteq Record /\ released \subseteq released'
           /\ \A x \in sealed \cup rs :
                 \E q \in sealed' \cup released' : Covers(q, x)
<1> DEFINE next == Merge(sealed, Admitted(rs))
<1>1. PICK gone \in SUBSET next :
          /\ sealed' = next \ gone
          /\ released' = released \cup gone \cup (rs \ Admitted(rs))
  BY DEF AppendToStore
<1>2. /\ sealed \in SUBSET Record /\ released \in SUBSET Record
      /\ Admitted(rs) \in SUBSET Record /\ Admitted(rs) \subseteq rs
  BY DEF TypeOK, Admitted
<1>3. next \subseteq sealed \cup Admitted(rs)
  BY MergeSubset
<1>4. \A x \in sealed \cup Admitted(rs) : \E q \in next : Covers(q, x)
  BY <1>2, MergeCovers
<1>5. \A x \in rs \ Admitted(rs) : Covers(x, x)
  BY DEF Covers, Record, Fidelity
<1> HIDE DEF next
<1> QED BY <1>1, <1>2, <1>3, <1>4, <1>5

\* The same of an append to the open blocks: what it adds is the record, and
\* what was open, in hand or new is open or in hand.
LEMMA OpenAppendFacts ==
    ASSUME TypeOK, NEW r \in Record, OpenAppend(r)
    PROVE  /\ open' \in [Channel -> SUBSET Record]
           /\ hand' \subseteq SUBSET Record
           /\ OpenRecords' \cup HandRecords'
                 \subseteq OpenRecords \cup HandRecords \cup {r}
           /\ \A x \in OpenRecords \cup HandRecords \cup {r} :
                 \E q \in OpenRecords' \cup HandRecords' : Covers(q, x)
<1> DEFINE c == ChannelOf(r)
           after == [open EXCEPT ![c] = Merge(@, {r})]
<1>1. /\ open \in [Channel -> SUBSET Record] /\ hand \in SUBSET (SUBSET Record)
      /\ c \in Channel
  BY KeyAssumption DEF TypeOK, ChannelOf, Record
<1>2. after \in [Channel -> SUBSET Record]
  BY <1>1, MergeSubset
<1>3. \A d \in Channel : after[d] \subseteq open[d] \cup {r}
  BY <1>1, MergeSubset
<1>4. \A x \in OpenRecords \cup {r} :
          \E d \in Channel : \E q \in after[d] : Covers(q, x)
  <2>1. \A x \in open[c] \cup {r} : \E q \in after[c] : Covers(q, x)
    BY <1>1, MergeCovers
  <2>2. \A d \in Channel \ {c} : after[d] = open[d]
    BY <1>1
  <2>3. \A d \in Channel : \A x \in open[d] : Covers(x, x)
    BY <1>1 DEF Covers, Record, Fidelity
  <2>4. \A x \in OpenRecords : \E d \in Channel : x \in open[d]
    BY DEF OpenRecords
  <2> HIDE DEF after
  <2>5. ASSUME NEW d \in Channel, NEW x \in open[d]
        PROVE  \E e \in Channel : \E q \in after[e] : Covers(q, x)
    BY <1>1, <2>1, <2>2, <2>3
  <2> QED BY <1>1, <2>1, <2>4, <2>5
<1>5. \A x \in HandRecords : Covers(x, x)
  BY <1>1 DEF Covers, Record, Fidelity, HandRecords
<1>6. PICK taken \in SUBSET Channel :
          /\ open' = [d \in Channel |-> IF d \in taken THEN {} ELSE after[d]]
          /\ hand' = hand \cup {after[d] : d \in taken}
  <2>1. CASE r.key \in KeysOf(open[c])
    <3>1. open' = after /\ hand' = hand
      BY <2>1 DEF OpenAppend
    <3>2. open' = [d \in Channel |-> IF d \in {} THEN {} ELSE after[d]]
      BY <1>2, <3>1
    <3>3. hand' = hand \cup {after[d] : d \in {}}
      BY <3>1
    <3> HIDE DEF after
    <3> QED BY <3>2, <3>3
  <2>2. CASE r.key \notin KeysOf(open[c])
    <3> DEFINE full == IF ~(r.key \in KeysOf(open[c]))
                            /\ Cardinality(after[c]) >= BlockMessages
                       THEN {c} ELSE {}
               rest == {d \in Channel : after[d] # {}} \ full
    <3>1. PICK lru \in SUBSET rest :
              /\ open' = [d \in Channel |-> IF d \in full \cup lru
                                            THEN {} ELSE after[d]]
              /\ hand' = hand \cup {after[d] : d \in full \cup lru}
      BY <2>2 DEF OpenAppend
    <3>2. full \cup lru \in SUBSET Channel
      BY <1>1
    <3> HIDE DEF after, full, rest
    <3> QED BY <3>1, <3>2
  <2> QED BY <2>1, <2>2
<1> HIDE DEF after
<1>7. open' \in [Channel -> SUBSET Record] /\ hand' \subseteq SUBSET Record
  BY <1>1, <1>2, <1>6
<1>8. OpenRecords' \cup HandRecords'
          \subseteq OpenRecords \cup HandRecords \cup {r}
  <2>1. OpenRecords' \subseteq OpenRecords \cup {r}
    BY <1>2, <1>3, <1>6 DEF OpenRecords
  <2>2. HandRecords' \subseteq OpenRecords \cup HandRecords \cup {r}
    BY <1>2, <1>3, <1>6 DEF OpenRecords, HandRecords
  <2> QED BY <2>1, <2>2
<1>9. \A d \in Channel : after[d] \subseteq OpenRecords' \cup HandRecords'
  BY <1>2, <1>6 DEF OpenRecords, HandRecords
<1>10. HandRecords \subseteq HandRecords'
  BY <1>6 DEF HandRecords
<1> QED BY <1>4, <1>5, <1>7, <1>8, <1>9, <1>10

-----------------------------------------------------------------------------
\* Every step keeps the types.
LEMMA TypeStep == TypeOK /\ [Next]_vars => TypeOK'
<1> SUFFICES ASSUME TypeOK, [Next]_vars PROVE TypeOK'
  OBVIOUS
<1> USE DEF durableVars, coordVars, inputVars
<1>0. NoRow \in Row
  BY StreamAssumption DEF NoRow, Row, Record
<1>a. HandRecords \in SUBSET Record
  BY DEF HandRecords, TypeOK
<1>b. ASSUME NEW rs \in SUBSET Record, AppendToStore(rs)
      PROVE  sealed' \subseteq Record /\ released' \subseteq Record
  BY <1>b, AppendFacts
<1>1. CASE Tick
  BY <1>1 DEF Tick, TypeOK
<1>2. ASSUME NEW s \in Stream, NEW rs \in SUBSET Arriving, Receive(s, rs)
      PROVE  TypeOK'
  <2>1. rs \in SUBSET Record
    BY KeyAssumption DEF Arriving, Record, Fidelity, TypeOK
  <2>2. Cardinality(rs) \in Nat \ {0}
    BY <1>2, FS_CardinalityType, FS_EmptySet DEF Receive
  <2>3. /\ nextSeq[s] \in Nat /\ nextSeq[s] + Cardinality(rs) \in Nat
        /\ nextSeq[s] + Cardinality(rs) - 1 \in Nat
    BY <2>2 DEF TypeOK
  <2>4. inbox' \subseteq Row
    BY <1>2, <2>1, <2>3 DEF Receive, TypeOK, Row
  <2>5. nextSeq' \in [Stream -> Nat]
    BY <1>2, <2>3 DEF Receive, TypeOK
  <2> QED BY <1>2, <2>4, <2>5 DEF Receive, TypeOK
<1>3. ASSUME NEW row \in inbox, Accept(row) PROVE TypeOK'
  BY <1>3 DEF Accept, TypeOK
<1>4. ASSUME NEW r \in cur.recs, Materialize(r) PROVE TypeOK'
  <2>1. r \in Record
    BY DEF TypeOK, Row
  <2>2. open' \in [Channel -> SUBSET Record] /\ hand' \subseteq SUBSET Record
    BY <1>4, <2>1, OpenAppendFacts DEF Materialize
  <2>3. cur' \in Row
    BY <1>4 DEF Materialize, TypeOK, Row
  <2> QED BY <1>4, <2>2, <2>3 DEF Materialize, TypeOK
<1>5. CASE MaterializeDone
  <2>1. through' \in [Stream -> Nat]
    BY <1>5 DEF MaterializeDone, Processed, TypeOK, Row
  <2> QED BY <1>0, <1>5, <1>a, <1>b, <2>1 DEF MaterializeDone, TypeOK
<1>6. CASE RecoverStart
  BY <1>0, <1>6 DEF RecoverStart, TypeOK
<1>7. ASSUME NEW row \in todo, RecoverRow(row) PROVE TypeOK'
  BY <1>7 DEF RecoverRow, TypeOK
<1>8. CASE ReplayFlush
  BY <1>8, <1>a, <1>b DEF ReplayFlush, TypeOK
<1>9. CASE RowReplayed
  <2>1. through' \in [Stream -> Nat]
    BY <1>9 DEF RowReplayed, Processed, TypeOK, Row
  <2> QED BY <1>0, <1>9, <2>1 DEF RowReplayed, TypeOK
<1>10. CASE RecoverDone
  BY <1>10, <1>a, <1>b DEF RecoverDone, TypeOK
<1>11. ASSUME NEW due \in SUBSET OpenChannels, SealDue(due) PROVE TypeOK'
  BY <1>11 DEF SealDue, OpenChannels, TypeOK
<1>12. CASE SealAppend
  BY <1>12, <1>a, <1>b DEF SealAppend, TypeOK
<1>13. CASE CheckpointStart
  BY <1>13 DEF CheckpointStart, OpenChannels, TypeOK
<1>14. ASSUME NEW chunk \in SUBSET hand, CheckpointAppend(chunk) PROVE TypeOK'
  <2>1. UNION chunk \in SUBSET Record
    BY DEF TypeOK
  <2> QED BY <1>14, <1>b, <2>1 DEF CheckpointAppend, TypeOK
<1>15. ASSUME NEW s \in Stream, Retire(s) PROVE TypeOK'
  BY <1>15 DEF Retire, TypeOK
<1>16. CASE CheckpointDone
  BY <1>16 DEF CheckpointDone, TypeOK
<1>17. ASSUME NEW gone \in SUBSET sealed, Expire(gone) \/ EnforceBudget(gone)
       PROVE  TypeOK'
  BY <1>17 DEF Expire, EnforceBudget, TypeOK
<1>18. ASSUME NEW c \in Channel, NEW t \in 1 .. now, PurgeStore(c, t)
       PROVE  TypeOK'
  BY <1>18 DEF PurgeStore, OfChannel, TypeOK
<1>19. ASSUME NEW c \in Channel, PurgeOpen(c) \/ Block(c) \/ Unblock(c)
       PROVE  TypeOK'
  BY <1>19 DEF PurgeOpen, Block, Unblock, OfChannel, TypeOK
<1>20. ASSUME NEW r \in [key : Key, recv : 1 .. now, fid : Delivered],
              PeerFill({r})
       PROVE  TypeOK'
  <2>1. now \in Nat /\ 1 .. now \subseteq Nat
    BY DEF TypeOK
  <2>2. {r} \in SUBSET Record
    BY KeyAssumption, <2>1 DEF Record, Fidelity
  <2> QED BY <1>20, <1>b, <2>2 DEF PeerFill, TypeOK
<1>21. CASE Shutdown
  BY <1>21 DEF Shutdown, TypeOK
<1>22. CASE StartAgain \/ Crash
  <2>1. count' \in [crash : Nat, purge : Nat, fill : Nat]
    BY <1>22 DEF StartAgain, Crash, TypeOK
  <2>2. Restart
    BY <1>22 DEF StartAgain, Crash
  <2>3. /\ open' \in [Channel -> SUBSET Record] /\ through' \in [Stream -> Nat]
        /\ cur' \in Row
    BY <1>0, <2>2 DEF Restart
  <2> QED BY <2>1, <2>2, <2>3 DEF Restart, TypeOK
<1>23. CASE UNCHANGED vars
  BY <1>23 DEF vars, TypeOK
<1> QED
  BY <1>1, <1>2, <1>3, <1>4, <1>5, <1>6, <1>7, <1>8, <1>9, <1>10, <1>11,
     <1>12, <1>13, <1>14, <1>15, <1>16, <1>17, <1>18, <1>19, <1>20, <1>21,
     <1>22, <1>23
  DEF Next, Coordinate, Environment

LEMMA InitTypes == ASSUME Init PROVE TypeOK
<1>1. NoRow \in Row
  BY StreamAssumption DEF NoRow, Row, Record
<1>2. /\ nextSeq \in [Stream -> Nat] /\ through \in [Stream -> Nat]
      /\ cutoff \in [Channel -> Nat] /\ open \in [Channel -> SUBSET Record]
  BY DEF Init
<1>3. count \in [crash : Nat, purge : Nat, fill : Nat] /\ cur \in Row
  BY <1>1 DEF Init
<1> QED BY <1>2, <1>3 DEF Init, TypeOK

\* TypeOK holds in every reachable state of the data path.
THEOREM TypeCorrect == Spec => []TypeOK
<1>1. Init => TypeOK
  BY InitTypes
<1> QED BY <1>1, TypeStep, PTL DEF Spec

-----------------------------------------------------------------------------
(***************************************************************************)
(* The strengthening: what each phase of the coordinator has in memory.    *)
(* Outside recovery no row waits to be replayed; a batch is in progress    *)
(* only while it is put into open blocks; blocks are in hand only in the   *)
(* phases that append them; and a checkpoint finds no open block, because  *)
(* only the coordinator itself opens any.                                  *)
(***************************************************************************)
Phases ==
    /\ pc \notin {"recover", "replay"} => todo = {}
    /\ cur.recs # {} => pc \in {"materialize", "replay"}
    /\ pc \in {"recover", "idle", "expire", "budget", "stopped"} => hand = {}
    /\ pc \in {"checkpoint", "final"} => \A c \in Channel : open[c] = {}
    /\ todo \subseteq journal

\* Every step keeps the phases apart.
LEMMA PhasesStep == TypeOK /\ Phases /\ [Next]_vars => Phases'
<1> SUFFICES ASSUME TypeOK, Phases, [Next]_vars PROVE Phases'
  OBVIOUS
<1> USE DEF durableVars, coordVars, inputVars
<1>0. NoRow.recs = {}
  BY DEF NoRow
<1>1. CASE Tick \/ Shutdown \/ UNCHANGED vars
  BY <1>1 DEF Tick, Shutdown, vars, Phases
<1>2. ASSUME NEW s \in Stream, NEW rs \in SUBSET Arriving, Receive(s, rs)
      PROVE  Phases'
  BY <1>2 DEF Receive, Phases
<1>3. ASSUME NEW row \in inbox, Accept(row) PROVE Phases'
  BY <1>3 DEF Accept, Phases
<1>4. ASSUME NEW r \in cur.recs, Materialize(r) PROVE Phases'
  BY <1>4 DEF Materialize, Phases
<1>5. CASE MaterializeDone
  BY <1>0, <1>5 DEF MaterializeDone, Phases
<1>6. CASE RecoverStart
  BY <1>0, <1>6 DEF RecoverStart, Phases
<1>7. ASSUME NEW row \in todo, RecoverRow(row) PROVE Phases'
  BY <1>7 DEF RecoverRow, Phases
<1>8. CASE ReplayFlush
  BY <1>8 DEF ReplayFlush, Phases
<1>9. CASE RowReplayed
  BY <1>0, <1>9 DEF RowReplayed, Phases
<1>10. CASE RecoverDone
  BY <1>0, <1>10 DEF RecoverDone, Phases
<1>11. ASSUME NEW due \in SUBSET OpenChannels, SealDue(due) PROVE Phases'
  BY <1>11 DEF SealDue, Phases
<1>12. CASE SealAppend
  BY <1>12 DEF SealAppend, Phases
<1>13. CASE CheckpointStart
  BY <1>13 DEF CheckpointStart, Phases
<1>14. ASSUME NEW chunk \in SUBSET hand, CheckpointAppend(chunk) PROVE Phases'
  BY <1>14 DEF CheckpointAppend, Phases
<1>15. ASSUME NEW s \in Stream, Retire(s) PROVE Phases'
  BY <1>15 DEF Retire, Phases
<1>16. CASE CheckpointDone
  BY <1>16 DEF CheckpointDone, Phases
<1>17. ASSUME NEW gone \in SUBSET sealed, Expire(gone) \/ EnforceBudget(gone)
       PROVE  Phases'
  BY <1>17 DEF Expire, EnforceBudget, Phases
<1>18. ASSUME NEW c \in Channel, NEW t \in 1 .. now, PurgeStore(c, t)
       PROVE  Phases'
  BY <1>18 DEF PurgeStore, Phases
<1>19. ASSUME NEW c \in Channel, PurgeOpen(c) \/ Block(c) \/ Unblock(c)
       PROVE  Phases'
  BY <1>19 DEF PurgeOpen, Block, Unblock, Phases, TypeOK
<1>20. ASSUME NEW r \in [key : Key, recv : 1 .. now, fid : Delivered],
              PeerFill({r})
       PROVE  Phases'
  BY <1>20 DEF PeerFill, Phases
<1>21. CASE StartAgain \/ Crash
  BY <1>0, <1>21 DEF StartAgain, Crash, Restart, Phases
<1> QED
  BY <1>1, <1>2, <1>3, <1>4, <1>5, <1>6, <1>7, <1>8, <1>9, <1>10, <1>11,
     <1>12, <1>13, <1>14, <1>15, <1>16, <1>17, <1>18, <1>19, <1>20, <1>21
  DEF Next, Coordinate, Environment

\* The two inductive facts every later proof starts from.
LEMMA PhasesInvariant == Spec => [](TypeOK /\ Phases)
<1>1. Init => Phases
  BY DEF Init, Phases, NoRow
<1> QED BY <1>1, TypeCorrect, PhasesStep, PTL DEF Spec

-----------------------------------------------------------------------------
\* No append, purge, block, fill or crash ever leaves a record in the store
\* that its channel's controls exclude.
LEMMA ControlsStep ==
    TypeOK /\ StoreRespectsControls /\ [Next]_vars => StoreRespectsControls'
<1> SUFFICES ASSUME TypeOK, StoreRespectsControls, [Next]_vars
             PROVE  StoreRespectsControls'
  OBVIOUS
<1> USE DEF durableVars, coordVars, inputVars
<1>a. HandRecords \in SUBSET Record
  BY DEF HandRecords, TypeOK
<1>b. ASSUME NEW rs \in SUBSET Record, AppendToStore(rs),
             blocked' = blocked, cutoff' = cutoff
      PROVE  StoreRespectsControls'
  <2>1. sealed' \subseteq sealed \cup Admitted(rs)
    BY <1>b, AppendFacts
  <2> QED BY <1>b, <2>1 DEF StoreRespectsControls, Admitted, ChannelOf
<1>c. ASSUME sealed' \subseteq sealed, blocked' \subseteq blocked,
             cutoff' = cutoff
      PROVE  StoreRespectsControls'
  BY <1>c DEF StoreRespectsControls, ChannelOf
<1>1. CASE \/ Tick \/ Shutdown \/ RecoverStart \/ RowReplayed \/ CheckpointStart
           \/ CheckpointDone \/ StartAgain \/ Crash \/ UNCHANGED vars
  BY <1>1, <1>c DEF Tick, Shutdown, RecoverStart, RowReplayed,
     CheckpointStart, CheckpointDone, StartAgain, Crash, Restart, vars
<1>2. ASSUME NEW s \in Stream, NEW rs \in SUBSET Arriving, Receive(s, rs)
      PROVE  StoreRespectsControls'
  BY <1>2, <1>c DEF Receive
<1>3. ASSUME NEW row \in inbox, Accept(row) PROVE StoreRespectsControls'
  BY <1>3, <1>c DEF Accept
<1>4. ASSUME NEW r \in cur.recs, Materialize(r) PROVE StoreRespectsControls'
  BY <1>4, <1>c DEF Materialize
<1>5. CASE MaterializeDone
  BY <1>5, <1>a, <1>b DEF MaterializeDone
<1>6. ASSUME NEW row \in todo, RecoverRow(row) PROVE StoreRespectsControls'
  BY <1>6, <1>c DEF RecoverRow
<1>7. CASE ReplayFlush
  BY <1>7, <1>a, <1>b DEF ReplayFlush
<1>8. CASE RecoverDone
  BY <1>8, <1>a, <1>b DEF RecoverDone
<1>9. ASSUME NEW due \in SUBSET OpenChannels, SealDue(due)
      PROVE  StoreRespectsControls'
  BY <1>9, <1>c DEF SealDue
<1>10. CASE SealAppend
  BY <1>10, <1>a, <1>b DEF SealAppend
<1>11. ASSUME NEW chunk \in SUBSET hand, CheckpointAppend(chunk)
       PROVE  StoreRespectsControls'
  <2>1. UNION chunk \in SUBSET Record
    BY DEF TypeOK
  <2> QED BY <1>11, <1>b, <2>1 DEF CheckpointAppend
<1>12. ASSUME NEW s \in Stream, Retire(s) PROVE StoreRespectsControls'
  BY <1>12, <1>c DEF Retire
<1>13. ASSUME NEW gone \in SUBSET sealed, Expire(gone) \/ EnforceBudget(gone)
       PROVE  StoreRespectsControls'
  BY <1>13, <1>c DEF Expire, EnforceBudget
<1>14. ASSUME NEW c \in Channel, NEW t \in 1 .. now, PurgeStore(c, t)
       PROVE  StoreRespectsControls'
  BY <1>14 DEF PurgeStore, StoreRespectsControls, ChannelOf, TypeOK
<1>15. ASSUME NEW c \in Channel, Block(c) PROVE StoreRespectsControls'
  BY <1>15 DEF Block, StoreRespectsControls, ChannelOf
<1>16. ASSUME NEW c \in Channel, PurgeOpen(c) \/ Unblock(c)
       PROVE  StoreRespectsControls'
  BY <1>16, <1>c DEF PurgeOpen, Unblock
<1>17. ASSUME NEW r \in [key : Key, recv : 1 .. now, fid : Delivered],
              PeerFill({r})
       PROVE  StoreRespectsControls'
  <2>1. now \in Nat /\ 1 .. now \subseteq Nat
    BY DEF TypeOK
  <2>2. {r} \in SUBSET Record
    BY KeyAssumption, <2>1 DEF Record, Fidelity
  <2> QED BY <1>17, <1>b, <2>2 DEF PeerFill
<1> QED
  BY <1>1, <1>2, <1>3, <1>4, <1>5, <1>6, <1>7, <1>8, <1>9, <1>10, <1>11,
     <1>12, <1>13, <1>14, <1>15, <1>16, <1>17
  DEF Next, Coordinate, Environment

\* The sealed store never holds a record of a blocked channel, nor one
\* received at or before its channel's purge cutoff.
THEOREM ControlsRespected == Spec => []StoreRespectsControls
<1>1. Init => StoreRespectsControls
  BY DEF Init, StoreRespectsControls
<1> QED BY <1>1, TypeCorrect, ControlsStep, PTL DEF Spec

-----------------------------------------------------------------------------
\* What is in memory comes from the journal: a step adds to it only from a row
\* it journals or replays, and rows are retired only when it is empty.
LEMMA MemoryStep ==
    TypeOK /\ Phases /\ MemoryIsJournaled /\ [Next]_vars => MemoryIsJournaled'
<1> DEFINE Memory == cur.recs \cup OpenRecords \cup HandRecords
<1> SUFFICES ASSUME TypeOK, Phases, MemoryIsJournaled, [Next]_vars
             PROVE  MemoryIsJournaled'
  OBVIOUS
<1> USE DEF durableVars, coordVars, inputVars
<1>0. NoRow.recs = {}
  BY DEF NoRow
<1>a. ASSUME Memory' \subseteq Memory, journal \subseteq journal'
      PROVE  MemoryIsJournaled'
  <2>1. JournalRecords \subseteq JournalRecords'
    BY <1>a DEF JournalRecords
  <2>2. KeysOf(Memory) \subseteq KeysOf(JournalRecords)
    BY DEF MemoryIsJournaled
  <2> HIDE DEF Memory
  <2>3. KeysOf(Memory') \subseteq KeysOf(JournalRecords')
    BY <1>a, <2>1, <2>2 DEF KeysOf
  <2> QED BY <2>3 DEF MemoryIsJournaled, Memory, KeysOf
<1>b. ASSUME NEW row \in journal', Memory' \subseteq Memory \cup row.recs,
             journal \subseteq journal'
      PROVE  MemoryIsJournaled'
  <2>1. JournalRecords \cup row.recs \subseteq JournalRecords'
    BY <1>b DEF JournalRecords
  <2>2. KeysOf(Memory) \subseteq KeysOf(JournalRecords)
    BY DEF MemoryIsJournaled
  <2> HIDE DEF Memory
  <2>3. KeysOf(Memory') \subseteq KeysOf(JournalRecords')
    BY <1>b, <2>1, <2>2 DEF KeysOf
  <2> QED BY <2>3 DEF MemoryIsJournaled, Memory, KeysOf
<1> USE DEF OpenRecords, HandRecords
<1>1. CASE Tick \/ Shutdown \/ UNCHANGED vars
  BY <1>1, <1>a DEF Tick, Shutdown, vars
<1>2. ASSUME NEW s \in Stream, NEW rs \in SUBSET Arriving, Receive(s, rs)
      PROVE  MemoryIsJournaled'
  BY <1>2, <1>a DEF Receive
<1>3. ASSUME NEW row \in inbox, Accept(row) PROVE MemoryIsJournaled'
  BY <1>3, <1>b DEF Accept
<1>4. ASSUME NEW r \in cur.recs, Materialize(r) PROVE MemoryIsJournaled'
  <2>1. r \in Record
    BY DEF TypeOK, Row
  <2>2. OpenRecords' \cup HandRecords'
            \subseteq OpenRecords \cup HandRecords \cup {r}
    BY <1>4, <2>1, OpenAppendFacts DEF Materialize
  <2>3. cur'.recs \subseteq cur.recs
    BY <1>4 DEF Materialize, TypeOK, Row
  <2> HIDE DEF OpenRecords, HandRecords
  <2> QED BY <1>4, <1>a, <2>2, <2>3 DEF Materialize
<1>5. CASE MaterializeDone
  BY <1>0, <1>5, <1>a DEF MaterializeDone
<1>6. CASE RecoverStart
  BY <1>0, <1>6, <1>a DEF RecoverStart
<1>7. ASSUME NEW row \in todo, RecoverRow(row) PROVE MemoryIsJournaled'
  BY <1>7, <1>b DEF RecoverRow, Phases
<1>8. CASE ReplayFlush \/ RowReplayed \/ RecoverDone
  BY <1>0, <1>8, <1>a DEF ReplayFlush, RowReplayed, RecoverDone
<1>9. ASSUME NEW due \in SUBSET OpenChannels, SealDue(due)
      PROVE  MemoryIsJournaled'
  <2>1. Memory' \subseteq Memory
    BY <1>9 DEF SealDue, OpenChannels, TypeOK
  <2> QED BY <1>9, <1>a, <2>1 DEF SealDue
<1>10. CASE SealAppend
  BY <1>10, <1>a DEF SealAppend
<1>11. CASE CheckpointStart
  <2>1. Memory' \subseteq Memory
    BY <1>11 DEF CheckpointStart, OpenChannels, TypeOK
  <2> QED BY <1>11, <1>a, <2>1 DEF CheckpointStart
<1>12. ASSUME NEW chunk \in SUBSET hand, CheckpointAppend(chunk)
       PROVE  MemoryIsJournaled'
  BY <1>12, <1>a DEF CheckpointAppend
<1>13. ASSUME NEW s \in Stream, Retire(s) PROVE MemoryIsJournaled'
  <2>1. Memory' = {}
    BY <1>13 DEF Retire, Phases
  <2> HIDE DEF OpenRecords, HandRecords
  <2> QED BY <2>1 DEF MemoryIsJournaled, KeysOf
<1>14. CASE CheckpointDone
  BY <1>14, <1>a DEF CheckpointDone
<1>15. ASSUME NEW gone \in SUBSET sealed, Expire(gone) \/ EnforceBudget(gone)
       PROVE  MemoryIsJournaled'
  BY <1>15, <1>a DEF Expire, EnforceBudget
<1>16. ASSUME NEW c \in Channel, NEW t \in 1 .. now, PurgeStore(c, t)
       PROVE  MemoryIsJournaled'
  BY <1>16, <1>a DEF PurgeStore
<1>17. ASSUME NEW c \in Channel, PurgeOpen(c) PROVE MemoryIsJournaled'
  <2>1. Memory' \subseteq Memory
    BY <1>17 DEF PurgeOpen, TypeOK
  <2> QED BY <1>17, <1>a, <2>1 DEF PurgeOpen
<1>18. ASSUME NEW c \in Channel, Block(c) \/ Unblock(c)
       PROVE  MemoryIsJournaled'
  BY <1>18, <1>a DEF Block, Unblock
<1>19. ASSUME NEW r \in [key : Key, recv : 1 .. now, fid : Delivered],
              PeerFill({r})
       PROVE  MemoryIsJournaled'
  BY <1>19, <1>a DEF PeerFill
<1>20. CASE StartAgain \/ Crash
  BY <1>0, <1>20, <1>a DEF StartAgain, Crash, Restart
<1> QED
  BY <1>1, <1>2, <1>3, <1>4, <1>5, <1>6, <1>7, <1>8, <1>9, <1>10, <1>11,
     <1>12, <1>13, <1>14, <1>15, <1>16, <1>17, <1>18, <1>19, <1>20
  DEF Next, Coordinate, Environment

\* A crash at any moment loses no message the coordinator has accepted and not
\* yet written to the store: it is in a journal row that a restart replays.
THEOREM CrashLosesNothing == Spec => []MemoryIsJournaled
<1>1. Init => MemoryIsJournaled
  BY DEF Init, MemoryIsJournaled, KeysOf, OpenRecords, HandRecords, NoRow
<1> QED BY <1>1, PhasesInvariant, MemoryStep, PTL DEF Spec

-----------------------------------------------------------------------------
\* Covering is a preorder on records.
LEMMA CoversPreorder ==
    /\ \A x \in Record : Covers(x, x)
    /\ \A x, y, z \in Record : Covers(x, y) /\ Covers(y, z) => Covers(x, z)
BY DEF Covers, Record, Fidelity

\* Except for a restart, no step loses a record between the batch in progress,
\* the open blocks, the blocks in hand and the store: it is kept, replaced by a
\* copy as good, or released.
LEMMA PipelineKept ==
    ASSUME TypeOK, Phases, [Next]_vars, pc' # "recover"
    PROVE  \A x \in Pipeline \cup released :
              \E q \in Pipeline' \cup released' : Covers(q, x)
<1> DEFINE Kept == \A x \in Pipeline \cup released :
                       \E q \in Pipeline' \cup released' : Covers(q, x)
<1> USE DEF durableVars, coordVars, inputVars
<1>0. NoRow.recs = {}
  BY DEF NoRow
<1>d. Pipeline \cup released \subseteq Record
  BY DEF Pipeline, OpenRecords, HandRecords, TypeOK, Row
<1>a. ASSUME Pipeline \cup released \subseteq Pipeline' \cup released'
      PROVE  Kept
  BY <1>a, <1>d, CoversPreorder
<1>b. ASSUME NEW rs \in SUBSET Record, AppendToStore(rs),
             cur.recs \cup OpenRecords \cup HandRecords
                 \subseteq cur'.recs \cup OpenRecords' \cup HandRecords' \cup rs
      PROVE  Kept
  <2>1. \A x \in sealed \cup rs : \E q \in sealed' \cup released' : Covers(q, x)
    BY <1>b, AppendFacts
  <2>2. released \subseteq released'
    BY <1>b, AppendFacts
  <2> QED BY <1>b, <1>d, <2>1, <2>2, CoversPreorder DEF Pipeline
<1>c. HandRecords \in SUBSET Record
  BY DEF HandRecords, TypeOK
<1>1. CASE Tick \/ Shutdown \/ UNCHANGED vars
  BY <1>1, <1>a DEF Tick, Shutdown, vars, Pipeline, OpenRecords, HandRecords
<1>2. ASSUME NEW s \in Stream, NEW rs \in SUBSET Arriving, Receive(s, rs)
      PROVE  Kept
  BY <1>2, <1>a DEF Receive, Pipeline, OpenRecords, HandRecords
<1>3. ASSUME NEW row \in inbox, Accept(row) PROVE Kept
  BY <1>3, <1>a DEF Accept, Phases, Pipeline, OpenRecords, HandRecords
<1>4. ASSUME NEW r \in cur.recs, Materialize(r) PROVE Kept
  <2>1. r \in Record
    BY DEF TypeOK, Row
  <2>2. \A x \in OpenRecords \cup HandRecords \cup {r} :
            \E q \in OpenRecords' \cup HandRecords' : Covers(q, x)
    BY <1>4, <2>1, OpenAppendFacts DEF Materialize
  <2>3. cur.recs \subseteq cur'.recs \cup {r}
    BY <1>4 DEF Materialize, TypeOK, Row
  <2>4. sealed' = sealed /\ released' = released
    BY <1>4 DEF Materialize
  <2> QED BY <1>d, <2>2, <2>3, <2>4, CoversPreorder DEF Pipeline
<1>5. CASE MaterializeDone
  BY <1>5, <1>b, <1>c DEF MaterializeDone, OpenRecords
<1>6. CASE RecoverStart
  BY <1>6, <1>a DEF RecoverStart, Phases, Pipeline, OpenRecords, HandRecords
<1>7. ASSUME NEW row \in todo, RecoverRow(row) PROVE Kept
  BY <1>0, <1>7, <1>a DEF RecoverRow, Pipeline, OpenRecords, HandRecords
<1>8. CASE ReplayFlush \/ RecoverDone \/ SealAppend
  BY <1>8, <1>b, <1>c DEF ReplayFlush, RecoverDone, SealAppend, OpenRecords
<1>9. CASE RowReplayed
  BY <1>9, <1>a DEF RowReplayed, Pipeline, OpenRecords, HandRecords
<1>10. ASSUME NEW due \in SUBSET OpenChannels, SealDue(due) PROVE Kept
  <2>1. hand = {} /\ hand' = {open[c] : c \in due}
    BY <1>10 DEF SealDue, Phases
  <2>2. OpenRecords \cup HandRecords \subseteq OpenRecords' \cup HandRecords'
    BY <1>10, <2>1 DEF SealDue, OpenRecords, HandRecords
  <2> QED BY <1>10, <1>a, <2>2 DEF SealDue, Pipeline
<1>11. CASE CheckpointStart
  <2>1. hand = {} /\ hand' = {open[c] : c \in OpenChannels}
    BY <1>11 DEF CheckpointStart, Phases
  <2>2. OpenRecords \cup HandRecords \subseteq OpenRecords' \cup HandRecords'
    BY <2>1 DEF OpenRecords, HandRecords, OpenChannels
  <2> QED BY <1>11, <1>a, <2>2 DEF CheckpointStart, Pipeline
<1>12. ASSUME NEW chunk \in SUBSET hand, CheckpointAppend(chunk) PROVE Kept
  <2>1. UNION chunk \in SUBSET Record
    BY DEF TypeOK
  <2>2. HandRecords \subseteq HandRecords' \cup UNION chunk
    BY <1>12 DEF CheckpointAppend, HandRecords
  <2> QED BY <1>12, <1>b, <2>1, <2>2 DEF CheckpointAppend, OpenRecords
<1>13. ASSUME NEW s \in Stream, Retire(s) PROVE Kept
  BY <1>13, <1>a DEF Retire, Pipeline, OpenRecords, HandRecords
<1>14. CASE CheckpointDone
  BY <1>14, <1>a DEF CheckpointDone, Pipeline, OpenRecords, HandRecords
<1>15. ASSUME NEW gone \in SUBSET sealed, Expire(gone) \/ EnforceBudget(gone)
       PROVE  Kept
  BY <1>15, <1>a
  DEF Expire, EnforceBudget, Pipeline, OpenRecords, HandRecords
<1>16. ASSUME NEW c \in Channel, NEW t \in 1 .. now, PurgeStore(c, t)
       PROVE  Kept
  BY <1>16, <1>a
  DEF PurgeStore, OfChannel, Pipeline, OpenRecords, HandRecords
<1>17. ASSUME NEW c \in Channel, PurgeOpen(c) PROVE Kept
  <2>1. OpenRecords \subseteq OpenRecords' \cup released'
    BY <1>17 DEF PurgeOpen, OpenRecords, TypeOK
  <2> QED BY <1>17, <1>a, <2>1 DEF PurgeOpen, Pipeline, HandRecords
<1>18. ASSUME NEW c \in Channel, Block(c) \/ Unblock(c) PROVE Kept
  BY <1>18, <1>a
  DEF Block, Unblock, OfChannel, Pipeline, OpenRecords, HandRecords
<1>19. ASSUME NEW r \in [key : Key, recv : 1 .. now, fid : Delivered],
              PeerFill({r})
       PROVE  Kept
  <2>1. now \in Nat /\ 1 .. now \subseteq Nat
    BY DEF TypeOK
  <2>2. {r} \in SUBSET Record
    BY KeyAssumption, <2>1 DEF Record, Fidelity
  <2> QED BY <1>19, <1>b, <2>2 DEF PeerFill, OpenRecords, HandRecords
<1>20. ~StartAgain /\ ~Crash
  BY DEF StartAgain, Crash, Restart
<1> QED
  BY <1>1, <1>2, <1>3, <1>4, <1>5, <1>6, <1>7, <1>8, <1>9, <1>10, <1>11,
     <1>12, <1>13, <1>14, <1>15, <1>16, <1>17, <1>18, <1>19, <1>20
  DEF Next, Coordinate, Environment

-----------------------------------------------------------------------------
\* Rows join the journal only as the batch in progress, and recovery gives up a
\* row only by making it the batch in progress.
LEMMA RowsPlaced ==
    ASSUME TypeOK, Phases, [Next]_vars, pc' # "recover",
           NEW row \in journal' \ todo'
    PROVE  \/ row \in journal \ todo /\ pc # "recover"
           \/ row.recs \subseteq cur'.recs
<1> USE DEF durableVars, coordVars, inputVars
<1>1. ASSUME journal' \ todo' \subseteq journal \ todo, pc # "recover"
      PROVE  row \in journal \ todo /\ pc # "recover"
  BY <1>1
<1>2. CASE Tick \/ Shutdown \/ UNCHANGED vars
  BY <1>2 DEF Tick, Shutdown, vars, Phases
<1>3. ASSUME NEW s \in Stream, NEW rs \in SUBSET Arriving, Receive(s, rs)
      PROVE  journal' = journal /\ todo' = todo /\ pc' = pc
  BY <1>3 DEF Receive
<1>4. ASSUME NEW new \in inbox, Accept(new)
      PROVE  /\ journal' = journal \cup {new} /\ todo' = todo
             /\ cur' = new /\ pc # "recover"
  BY <1>4 DEF Accept
<1>5. ASSUME NEW r \in cur.recs, Materialize(r)
      PROVE  journal' = journal /\ todo' = todo /\ pc' = pc
  BY <1>5 DEF Materialize
<1>6. CASE RecoverStart
  BY <1>6 DEF RecoverStart
<1>7. ASSUME NEW old \in todo, RecoverRow(old)
      PROVE  /\ journal' = journal /\ todo' = todo \ {old}
             /\ cur' = old /\ pc # "recover"
  BY <1>7 DEF RecoverRow
<1>8. CASE \/ MaterializeDone \/ ReplayFlush \/ RowReplayed \/ RecoverDone
           \/ SealAppend \/ CheckpointStart \/ CheckpointDone
  BY <1>1, <1>8 DEF MaterializeDone, ReplayFlush, RowReplayed, RecoverDone,
     SealAppend, CheckpointStart, CheckpointDone
<1>9. ASSUME NEW due \in SUBSET OpenChannels, SealDue(due)
      PROVE  journal' = journal /\ todo' = todo /\ pc # "recover"
  BY <1>9 DEF SealDue
<1>10. ASSUME NEW chunk \in SUBSET hand, CheckpointAppend(chunk)
       PROVE  journal' = journal /\ todo' = todo /\ pc # "recover"
  BY <1>10 DEF CheckpointAppend
<1>11. ASSUME NEW s \in Stream, Retire(s)
       PROVE  journal' \subseteq journal /\ todo' = todo /\ pc # "recover"
  BY <1>11 DEF Retire
<1>12. ASSUME NEW gone \in SUBSET sealed, Expire(gone) \/ EnforceBudget(gone)
       PROVE  journal' = journal /\ todo' = todo /\ pc # "recover"
  BY <1>12 DEF Expire, EnforceBudget
<1>13. ASSUME NEW c \in Channel, NEW t \in 1 .. now, PurgeStore(c, t)
       PROVE  journal' = journal /\ todo' = todo /\ pc' = pc
  BY <1>13 DEF PurgeStore
<1>14. ASSUME NEW c \in Channel, PurgeOpen(c) \/ Block(c) \/ Unblock(c)
       PROVE  journal' = journal /\ todo' = todo /\ pc' = pc
  BY <1>14 DEF PurgeOpen, Block, Unblock
<1>15. ASSUME NEW r \in [key : Key, recv : 1 .. now, fid : Delivered],
              PeerFill({r})
       PROVE  journal' = journal /\ todo' = todo /\ pc' = pc
  BY <1>15 DEF PeerFill
<1>16. ~StartAgain /\ ~Crash
  BY DEF StartAgain, Crash, Restart
<1> QED
  BY <1>1, <1>2, <1>3, <1>4, <1>5, <1>6, <1>7, <1>8, <1>9, <1>10, <1>11,
     <1>12, <1>13, <1>14, <1>15, <1>16
  DEF Next, Coordinate, Environment

\* Every step keeps the rows recovery is done with placed.
LEMMA PlacedStep ==
    TypeOK /\ Phases /\ JournalIsPlaced /\ [Next]_vars => JournalIsPlaced'
<1> SUFFICES ASSUME TypeOK, Phases, JournalIsPlaced, [Next]_vars,
                    pc' # "recover",
                    NEW row \in journal' \ todo', NEW r \in row.recs
             PROVE  \E q \in Pipeline' \cup released' : Covers(q, r)
  BY DEF JournalIsPlaced
<1>1. /\ row \in Row' /\ r \in Record
      /\ Pipeline \cup released \subseteq Record
      /\ Pipeline' \cup released' \subseteq Record
  <2>1. TypeOK'
    BY TypeStep
  <2> QED
    BY <2>1 DEF TypeOK, Row, Pipeline, OpenRecords, HandRecords
<1>2. CASE row \in journal \ todo /\ pc # "recover"
  <2>1. PICK p \in Pipeline \cup released : Covers(p, r)
    BY <1>2 DEF JournalIsPlaced
  <2>2. PICK q \in Pipeline' \cup released' : Covers(q, p)
    BY PipelineKept
  <2> QED BY <1>1, <2>1, <2>2, CoversPreorder
<1>3. CASE row.recs \subseteq cur'.recs
  BY <1>1, <1>3, CoversPreorder DEF Pipeline
<1> QED BY <1>2, <1>3, RowsPlaced

\* Whenever a row is retired or kept, each message of it is in the pipeline or
\* the store in a copy as good, or was discarded on purpose.
THEOREM JournaledIsPlaced == Spec => []JournalIsPlaced
<1>1. Init => JournalIsPlaced
  BY DEF Init, JournalIsPlaced
<1> QED BY <1>1, PhasesInvariant, PlacedStep, PTL DEF Spec

-----------------------------------------------------------------------------
\* Every step of the data path is a step of DurableCache or leaves its two
\* variables alone.  Journaling is Accept, retiring is Replace, and what appends,
\* retention and the owners' requests do is Discard.
LEMMA CacheStep ==
    ASSUME TypeOK, Phases, JournalIsPlaced, [Next]_vars
    PROVE  [Cache!Next]_(Cache!cacheVars)
<1> DEFINE durable == JournalRecords \cup sealed
           Goal == [Cache!Next]_(Cache!cacheVars)
<1> USE DEF durableVars, coordVars, inputVars
<1>d. durable \subseteq Record /\ released \subseteq Record
  BY DEF JournalRecords, TypeOK, Row
<1>a. ASSUME journal' = journal, sealed' = sealed, released' = released
      PROVE  Goal
  BY <1>a DEF Cache!cacheVars, JournalRecords
<1>b. ASSUME journal' = journal, released \subseteq released',
             sealed \subseteq sealed' \cup released'
      PROVE  Goal
  <2>1. \A x \in durable : \E q \in durable' \cup released' : Cache!AsGood(q, x)
    BY <1>b, <1>d, CoversPreorder DEF Cache!AsGood, Covers, JournalRecords
  <2> QED BY <1>b, <2>1 DEF Cache!Next, Cache!Discard
<1>c. ASSUME NEW rs \in SUBSET Record, AppendToStore(rs), journal' = journal
      PROVE  Goal
  <2>1. JournalRecords' = JournalRecords
    BY <1>c DEF JournalRecords
  <2>2. /\ \A x \in sealed : \E q \in sealed' \cup released' : Covers(q, x)
        /\ released \subseteq released'
    BY <1>c, AppendFacts
  <2>3. \A x \in durable : \E q \in durable' \cup released' : Cache!AsGood(q, x)
    BY <1>d, <2>1, <2>2, CoversPreorder DEF Cache!AsGood, Covers
  <2> QED BY <2>2, <2>3 DEF Cache!Next, Cache!Discard
<1>e. HandRecords \in SUBSET Record
  BY DEF HandRecords, TypeOK
<1>1. CASE \/ Tick \/ Shutdown \/ RecoverStart \/ RowReplayed \/ CheckpointStart
           \/ CheckpointDone \/ StartAgain \/ Crash \/ UNCHANGED vars
  BY <1>1, <1>a DEF Tick, Shutdown, RecoverStart, RowReplayed,
     CheckpointStart, CheckpointDone, StartAgain, Crash, Restart, vars
<1>2. ASSUME NEW s \in Stream, NEW rs \in SUBSET Arriving, Receive(s, rs)
      PROVE  Goal
  BY <1>2, <1>a DEF Receive
<1>3. ASSUME NEW row \in inbox, Accept(row) PROVE Goal
  <2>1. durable \subseteq durable' /\ released' = released
    BY <1>3 DEF Accept, JournalRecords
  <2> QED BY <2>1 DEF Cache!Next, Cache!Accept
<1>4. ASSUME NEW r \in cur.recs, Materialize(r) PROVE Goal
  BY <1>4, <1>a DEF Materialize
<1>5. CASE MaterializeDone \/ ReplayFlush \/ RecoverDone \/ SealAppend
  BY <1>5, <1>c, <1>e DEF MaterializeDone, ReplayFlush, RecoverDone, SealAppend
<1>6. ASSUME NEW row \in todo, RecoverRow(row) PROVE Goal
  BY <1>6, <1>a DEF RecoverRow
<1>7. ASSUME NEW due \in SUBSET OpenChannels, SealDue(due) PROVE Goal
  BY <1>7, <1>a DEF SealDue
<1>8. ASSUME NEW chunk \in SUBSET hand, CheckpointAppend(chunk) PROVE Goal
  <2>1. UNION chunk \in SUBSET Record
    BY DEF TypeOK
  <2> QED BY <1>8, <1>c, <2>1 DEF CheckpointAppend
<1>9. ASSUME NEW s \in Stream, Retire(s) PROVE Goal
  <2>1. pc \in {"checkpoint", "final"} /\ hand = {} /\ todo = {} /\ cur.recs = {}
        /\ \A c \in Channel : open[c] = {}
    BY <1>9 DEF Retire, Phases
  <2>2. Pipeline = sealed
    BY <2>1 DEF Pipeline, OpenRecords, HandRecords
  <2>3. \A x \in JournalRecords : \E q \in sealed \cup released : Covers(q, x)
    BY <2>1, <2>2 DEF JournalIsPlaced, JournalRecords
  <2>4. sealed' = sealed /\ released' = released
    BY <1>9 DEF Retire
  <2>5. \A x \in durable : \E q \in durable' \cup released : Cache!AsGood(q, x)
    BY <1>d, <2>3, <2>4, CoversPreorder DEF Cache!AsGood, Covers
  <2> QED BY <2>4, <2>5 DEF Cache!Next, Cache!Replace
<1>10. ASSUME NEW gone \in SUBSET sealed, Expire(gone) \/ EnforceBudget(gone)
       PROVE  Goal
  BY <1>10, <1>b DEF Expire, EnforceBudget
<1>11. ASSUME NEW c \in Channel, NEW t \in 1 .. now, PurgeStore(c, t)
       PROVE  Goal
  BY <1>11, <1>b DEF PurgeStore, OfChannel
<1>12. ASSUME NEW c \in Channel, PurgeOpen(c) \/ Block(c) \/ Unblock(c)
       PROVE  Goal
  BY <1>12, <1>b DEF PurgeOpen, Block, Unblock, OfChannel
<1>13. ASSUME NEW r \in [key : Key, recv : 1 .. now, fid : Delivered],
              PeerFill({r})
       PROVE  Goal
  <2>1. now \in Nat /\ 1 .. now \subseteq Nat
    BY DEF TypeOK
  <2>2. {r} \in SUBSET Record
    BY KeyAssumption, <2>1 DEF Record, Fidelity
  <2> QED BY <1>13, <1>c, <2>2 DEF PeerFill
<1> QED
  BY <1>1, <1>2, <1>3, <1>4, <1>5, <1>6, <1>7, <1>8, <1>9, <1>10, <1>11,
     <1>12, <1>13
  DEF Next, Coordinate, Environment

\* The data path implements the durable cache: an acknowledged message stays in
\* the files, in that copy or a better one, until it is discarded on purpose.
THEOREM Refinement == Spec => ImplementsDurableCache
<1>1. Init => Cache!Init
  BY DEF Init, Cache!Init, JournalRecords
<1>2. TypeOK /\ Phases /\ JournalIsPlaced /\ [Next]_vars
         => [Cache!Next]_(Cache!cacheVars)
  BY CacheStep
<1> QED
  BY <1>1, <1>2, PhasesInvariant, JournaledIsPlaced, PTL
  DEF Spec, ImplementsDurableCache, Cache!Spec
-----------------------------------------------------------------------------
(***************************************************************************)
(* Why a graceful stop leaves nothing behind.  Sequence numbers start at   *)
(* one, so a stream with through = 0 has no row that counts as processed.  *)
(* A row of the journal is still to be replayed, is the one in progress,   *)
(* or is processed; a checkpoint runs when nothing is to be replayed or in *)
(* progress, and ends when every stream is at 0.  The last one starts with *)
(* the queues drained, and none is filled after it.                        *)
(***************************************************************************)
InProgress(row) == row.stream = cur.stream /\ row.last <= cur.last
IsProcessed(row) == row.last <= through[row.stream]

Draining ==
    /\ \A s \in Stream : nextSeq[s] >= 1
    /\ \A row \in inbox \cup journal : row.last >= 1
    /\ pc \notin {"materialize", "replay"} => cur = NoRow
    /\ pc # "recover" =>
         \A row \in journal : row \in todo \/ InProgress(row) \/ IsProcessed(row)
    /\ pc \in {"final", "stopped"} => inbox = {}
    /\ pc = "stopped" => journal = {} /\ \A c \in Channel : open[c] = {}

\* The steps that leave the rows, where they stand and the phase alone.
LEMMA DrainingKept ==
    ASSUME Draining, UNCHANGED <<pc, journal, todo, cur, through, nextSeq>>,
           inbox' \subseteq inbox,
           pc = "stopped" => \A c \in Channel : open'[c] = {}
    PROVE  Draining'
<1>1. /\ \A s \in Stream : nextSeq'[s] >= 1
      /\ \A row \in inbox' \cup journal' : row.last >= 1
      /\ pc' \notin {"materialize", "replay"} => cur' = NoRow
      /\ pc' \in {"final", "stopped"} => inbox' = {}
      /\ pc' = "stopped" => journal' = {} /\ \A c \in Channel : open'[c] = {}
  BY DEF Draining
<1>2. pc' # "recover" =>
         \A row \in journal' :
            row \in todo' \/ InProgress(row)' \/ IsProcessed(row)'
  BY DEF Draining, InProgress, IsProcessed
<1> QED BY <1>1, <1>2 DEF Draining

\* A row that is processed, or becomes so with the one in progress, stays so.
LEMMA ProcessedKept ==
    ASSUME TypeOK, Processed(cur)
    PROVE  \A row \in Row :
              InProgress(row) \/ IsProcessed(row) => IsProcessed(row)'
<1>1. /\ through \in [Stream -> Nat] /\ cur.stream \in Stream /\ cur.last \in Nat
  BY DEF TypeOK, Row
<1>2. \A s \in Stream : through'[s] \in Nat /\ through[s] <= through'[s]
  BY <1>1 DEF Processed
<1>3. cur.last <= through'[cur.stream]
  BY <1>1 DEF Processed
<1> SUFFICES ASSUME NEW row \in Row, InProgress(row) \/ IsProcessed(row)
             PROVE  row.last <= through'[row.stream]
  BY DEF IsProcessed
<1>4. row.stream \in Stream /\ row.last \in Nat
  BY DEF Row
<1> QED BY <1>1, <1>2, <1>3, <1>4 DEF InProgress, IsProcessed

LEMMA DrainingStep ==
    TypeOK /\ Phases /\ Draining /\ [Next]_vars => Draining'
<1> SUFFICES ASSUME TypeOK, Phases, Draining, [Next]_vars PROVE Draining'
  OBVIOUS
<1> USE DEF durableVars, coordVars, inputVars
<1>0. NoRow.last = 0
  BY DEF NoRow
<1>a. \A row \in journal : row \in Row /\ row.last \in Nat \ {0}
  BY DEF TypeOK, Row, Draining
<1>b. ASSUME cur = NoRow, pc # "recover"
      PROVE  \A row \in journal : row \in todo \/ IsProcessed(row)
  BY <1>0, <1>a, <1>b DEF Draining, InProgress
<1>1. CASE Tick \/ Shutdown \/ UNCHANGED vars
  BY <1>1, DrainingKept DEF Tick, Shutdown, vars, Draining
<1>2. ASSUME NEW s \in Stream, NEW rs \in SUBSET Arriving, Receive(s, rs)
      PROVE  Draining'
  <2>1. Cardinality(rs) \in Nat \ {0}
    BY <1>2, FS_CardinalityType, FS_EmptySet DEF Receive
  <2>2. nextSeq \in [Stream -> Nat] /\ \A t \in Stream : nextSeq[t] >= 1
    BY DEF TypeOK, Draining
  <2>3. \A t \in Stream : nextSeq'[t] >= 1
    BY <1>2, <2>1, <2>2 DEF Receive
  <2>4. nextSeq[s] + Cardinality(rs) - 1 >= 1
    BY <2>1, <2>2
  <2>5. \A row \in inbox' \cup journal' : row.last >= 1
    BY <1>2, <2>4 DEF Receive, Draining
  <2>6. /\ pc' \notin {"final", "stopped"}
        /\ UNCHANGED <<pc, journal, todo, cur, through>>
    BY <1>2 DEF Receive
  <2>7. pc' # "recover" =>
           \A row \in journal' :
              row \in todo' \/ InProgress(row)' \/ IsProcessed(row)'
    BY <2>6 DEF Draining, InProgress, IsProcessed
  <2> QED BY <2>3, <2>5, <2>6, <2>7 DEF Draining
<1>3. ASSUME NEW row \in inbox, Accept(row) PROVE Draining'
  <2>1. /\ pc = "idle" /\ pc' = "materialize" /\ cur' = row
        /\ inbox' \subseteq inbox /\ journal' = journal \cup {row}
        /\ UNCHANGED <<todo, through, nextSeq>>
    BY <1>3 DEF Accept
  <2>2. row \in Row
    BY DEF TypeOK
  <2>3. \A old \in journal : old \in todo' \/ IsProcessed(old)'
    BY <1>b, <2>1 DEF Draining, IsProcessed
  <2>4. InProgress(row)'
    BY <2>1, <2>2 DEF InProgress, Row
  <2> QED BY <2>1, <2>3, <2>4 DEF Draining
<1>4. ASSUME NEW r \in cur.recs, Materialize(r) PROVE Draining'
  <2>1. /\ cur'.stream = cur.stream /\ cur'.last = cur.last
        /\ pc' = pc /\ pc \in {"materialize", "replay"}
        /\ UNCHANGED <<inbox, journal, todo, through, nextSeq>>
    BY <1>4 DEF Materialize, TypeOK, Row
  <2>2. \A row \in journal' :
            row \in todo' \/ InProgress(row)' \/ IsProcessed(row)'
    BY <2>1 DEF Draining, InProgress, IsProcessed
  <2> QED BY <2>1, <2>2 DEF Draining
<1>5. CASE MaterializeDone \/ RowReplayed
  <2>1. /\ Processed(cur) /\ cur' = NoRow /\ pc' \in {"idle", "replay"}
        /\ pc \in {"materialize", "replay"}
        /\ UNCHANGED <<inbox, journal, todo, nextSeq>>
    BY <1>5 DEF MaterializeDone, RowReplayed
  <2>2. \A row \in journal : row \in todo \/ InProgress(row) \/ IsProcessed(row)
    BY <2>1 DEF Draining
  <2>3. \A row \in journal' : row \in todo' \/ IsProcessed(row)'
    BY <1>a, <2>1, <2>2, ProcessedKept
  <2> QED BY <2>1, <2>3 DEF Draining
<1>6. CASE RecoverStart
  BY <1>6 DEF RecoverStart, Draining
<1>7. ASSUME NEW row \in todo, RecoverRow(row) PROVE Draining'
  <2>1. /\ pc = "replay" /\ pc' = pc /\ cur = NoRow /\ cur' = row
        /\ todo' = todo \ {row}
        /\ UNCHANGED <<inbox, journal, through, nextSeq>>
    BY <1>7 DEF RecoverRow
  <2>2. InProgress(row)'
    BY <2>1 DEF InProgress, TypeOK, Row
  <2>3. \A old \in journal' :
            old \in todo' \/ InProgress(old)' \/ IsProcessed(old)'
    BY <1>b, <2>1, <2>2 DEF IsProcessed
  <2> QED BY <2>1, <2>3 DEF Draining
<1>8. CASE ReplayFlush
  BY <1>8, DrainingKept DEF ReplayFlush
<1>c. ASSUME pc # "recover", pc' \notin {"recover", "stopped"}, cur = NoRow,
             UNCHANGED <<inbox, journal, cur, todo, through, nextSeq>>,
             pc' = "final" => inbox = {}
      PROVE  Draining'
  <2>1. \A row \in journal' : row \in todo' \/ IsProcessed(row)'
    BY <1>b, <1>c DEF IsProcessed
  <2> QED BY <1>c, <2>1 DEF Draining
<1>9. CASE RecoverDone
  BY <1>9, <1>c DEF RecoverDone
<1>10. ASSUME NEW due \in SUBSET OpenChannels, SealDue(due) PROVE Draining'
  BY <1>10, <1>c DEF SealDue, Draining
<1>11. CASE SealAppend \/ CheckpointStart
  BY <1>11, <1>c DEF SealAppend, CheckpointStart, Draining
<1>12. ASSUME NEW chunk \in SUBSET hand, CheckpointAppend(chunk) PROVE Draining'
  BY <1>12, DrainingKept DEF CheckpointAppend
<1>13. ASSUME NEW s \in Stream, Retire(s) PROVE Draining'
  <2>1. /\ pc \in {"checkpoint", "final"} /\ pc' = pc
        /\ UNCHANGED <<inbox, cur, todo, nextSeq>>
        /\ journal' = {row \in journal : ~(row.stream = s /\ row.last <= through[s])}
        /\ through' = [through EXCEPT ![s] = 0]
    BY <1>13 DEF Retire
  <2>2. cur = NoRow /\ todo = {}
    BY <2>1 DEF Draining, Phases
  <2>3. \A row \in journal' : row \in journal /\ row.stream # s /\ IsProcessed(row)
    BY <1>b, <2>1, <2>2 DEF IsProcessed
  <2>4. \A row \in journal' : IsProcessed(row)'
    BY <1>a, <2>1, <2>3 DEF IsProcessed, TypeOK, Row
  <2>5. journal' \subseteq journal
    BY <2>1
  <2> QED BY <2>1, <2>2, <2>4, <2>5 DEF Draining
<1>14. CASE CheckpointDone
  <2>1. /\ pc \in {"checkpoint", "final"} /\ \A s \in Stream : through[s] = 0
        /\ pc' = IF pc = "final" THEN "stopped" ELSE "expire"
        /\ UNCHANGED <<inbox, journal, cur, todo, through, nextSeq, open>>
    BY <1>14 DEF CheckpointDone
  <2>2. cur = NoRow /\ todo = {} /\ \A c \in Channel : open[c] = {}
    BY <2>1 DEF Draining, Phases
  <2>3. journal = {}
    BY <1>a, <1>b, <2>1, <2>2 DEF IsProcessed, Row
  <2> QED BY <2>1, <2>2, <2>3 DEF Draining
<1>15. ASSUME NEW gone \in SUBSET sealed, Expire(gone) \/ EnforceBudget(gone)
       PROVE  Draining'
  BY <1>15, <1>c DEF Expire, EnforceBudget, Draining
<1>16. ASSUME NEW c \in Channel, NEW t \in 1 .. now, PurgeStore(c, t)
       PROVE  Draining'
  BY <1>16, DrainingKept DEF PurgeStore, Draining
<1>17. ASSUME NEW c \in Channel, PurgeOpen(c) PROVE Draining'
  <2>1. open' = [open EXCEPT ![c] = {}] /\ open \in [Channel -> SUBSET Record]
    BY <1>17 DEF PurgeOpen, TypeOK
  <2>2. pc = "stopped" => \A d \in Channel : open'[d] = {}
    BY <2>1 DEF Draining
  <2> QED BY <1>17, <2>2, DrainingKept DEF PurgeOpen
<1>18. ASSUME NEW c \in Channel, Block(c) \/ Unblock(c) PROVE Draining'
  BY <1>18, DrainingKept DEF Block, Unblock, Draining
<1>19. ASSUME NEW r \in [key : Key, recv : 1 .. now, fid : Delivered],
              PeerFill({r})
       PROVE  Draining'
  BY <1>19, DrainingKept DEF PeerFill, Draining
<1>20. CASE StartAgain \/ Crash
  BY <1>20 DEF StartAgain, Crash, Restart, Draining
<1> QED
  BY <1>1, <1>2, <1>3, <1>4, <1>5, <1>6, <1>7, <1>8, <1>9, <1>10, <1>11,
     <1>12, <1>13, <1>14, <1>15, <1>16, <1>17, <1>18, <1>19, <1>20
  DEF Next, Coordinate, Environment

\* A graceful stop leaves no queued batch, no open block and no journal row,
\* after any history of crashes, seals, purges and checkpoints (the
\* cancellation branch of run in ingest_runtime.rs).
THEOREM StopIsDrained == Spec => []ShutdownDrains
<1>1. Init => Draining
  BY DEF Init, Draining
<1>2. Draining => ShutdownDrains
  BY DEF Draining, ShutdownDrains, OpenRecords
<1> QED BY <1>1, <1>2, PhasesInvariant, DrainingStep, PTL DEF Spec
=============================================================================
