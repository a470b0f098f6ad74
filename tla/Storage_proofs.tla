--------------------------- MODULE Storage_proofs ---------------------------
(***************************************************************************)
(* The storage actor.  The sealed block store, for any channels, batches,  *)
(* bounds and budgets: its rows are typed, its counters exact, no event is *)
(* stored twice, retention takes what expired, a plan of an eviction keeps *)
(* the floors and the order of the tiers, and its blocks implement a set   *)
(* of records.  The open blocks, for any events, limits and ages: their    *)
(* counters are exact, their bounds kept.  The journal's offset, for any   *)
(* batches: it never passes a gap.                                         *)
(***************************************************************************)
EXTENDS BlockStore, OpenTail, JournalOffsets, FiniteSetTheorems, WellFoundedInduction, TLAPS

\* Blocks and what is true of a set of them in every state.
Block == [id : 1 .. MaxBlockId, channel : StoreChannels, sequence : Nat,
          records : {R \in SUBSET Record : R # {}}]
UniqueIds(B) == \A a, b \in B : a.id = b.id => a = b
UniqueSequences(B) ==
  \A a, b \in B : a.channel = b.channel /\ a.sequence = b.sequence => a = b
UniqueEvents(B) ==
  \A a, b \in B : \A r \in a.records, s \in b.records :
    a.channel = b.channel /\ r.at = s.at => a = b /\ r = s
UniqueTimes(R) == \A r, s \in R : r.at = s.at => r = s
Pairs(B) == UNION {{b} \X b.records : b \in B}

LEMMA StoreNumbers ==
  /\ MaxStoreClock \in Nat \ {0} /\ BlockMessages \in Nat \ {0} /\ MaxBlockId \in Nat
  /\ MaxPasses \in Nat \ {0} /\ Ttl \in Nat /\ Coalesce \in Nat
  BY StoreAssumption

LEMMA RecordFields ==
  ASSUME NEW r \in Record
  PROVE  r.at \in 1 .. MaxStoreClock /\ r.at \in Nat \ {0} /\ r.fidelity \in {0, 1}
  BY StoreNumbers DEF Record, Fidelities

LEMMA RecordsAreFinite ==
  ASSUME NEW R, R \subseteq Record
  PROVE  IsFiniteSet(R)
<1> USE StoreNumbers
<1> DEFINE f == [r \in R |-> 2 * r.at + r.fidelity]
           T == 0 .. 2 * MaxStoreClock + 1
<1>1. ASSUME NEW r \in R PROVE f[r] \in T
  <2>1. r.at \in 1 .. MaxStoreClock /\ r.fidelity \in {0, 1}
    BY RecordFields
  <2> QED BY <2>1
<1>2. ASSUME NEW r \in R, NEW s \in R, f[r] = f[s] PROVE r = s
  <2>1. r.at \in Nat /\ s.at \in Nat /\ r.fidelity \in {0, 1} /\ s.fidelity \in {0, 1}
    BY RecordFields
  <2>2. r.at = s.at /\ r.fidelity = s.fidelity
    BY <1>2, <2>1
  <2>3. r \in Record /\ s \in Record
    OBVIOUS
  <2> QED BY <2>2, <2>3 DEF Record
<1>3. f \in Injection(R, T)
  <2>1. f \in [R -> T]
    BY <1>1
  <2> HIDE DEF f, T
  <2> QED BY <1>2, <2>1 DEF Injection, IsInjective
<1>4. IsFiniteSet(T)
  BY FS_Interval
<1> HIDE DEF f, T
<1> QED BY <1>3, <1>4, FS_Injection

LEMMA BlocksAreFinite ==
  ASSUME NEW B, B \subseteq Block, UniqueIds(B)
  PROVE  IsFiniteSet(B)
<1> USE StoreNumbers
<1> DEFINE f == [b \in B |-> b.id]
           T == 1 .. MaxBlockId
<1>1. f \in Injection(B, T)
  <2>1. f \in [B -> T]
    BY DEF Block
  <2>2. \A a, b \in B : f[a] = f[b] => a = b
    BY DEF UniqueIds
  <2> QED BY <2>1, <2>2 DEF Injection, IsInjective
<1>2. IsFiniteSet(T)
  BY FS_Interval
<1> HIDE DEF f, T
<1> QED BY <1>1, <1>2, FS_Injection

LEMMA MessagesAreCounted ==
  ASSUME NEW B, B \subseteq Block, IsFiniteSet(B)
  PROVE  IsFiniteSet(Pairs(B)) /\ Messages(B) = Cardinality(Pairs(B)) /\ Messages(B) \in Nat
<1>1. Pairs(B) \subseteq B \X Record
  BY DEF Pairs, Block
<1>2. IsFiniteSet(B \X Record)
  BY RecordsAreFinite, FS_Product
<1>3. IsFiniteSet(Pairs(B))
  BY <1>1, <1>2, FS_Subset
<1> QED BY <1>3, FS_CardinalityType DEF Messages, Pairs

LEMMA MessagesSplit ==
  ASSUME NEW A, NEW B, A \subseteq Block, B \subseteq Block,
         IsFiniteSet(A), IsFiniteSet(B), A \cap B = {}
  PROVE  /\ IsFiniteSet(A \cup B)
         /\ Cardinality(A \cup B) = Cardinality(A) + Cardinality(B)
         /\ Cardinality(A) \in Nat /\ Cardinality(B) \in Nat
         /\ Messages(A \cup B) = Messages(A) + Messages(B)
         /\ Messages(A) \in Nat /\ Messages(B) \in Nat
<1>1. /\ IsFiniteSet(A \cup B)
      /\ Cardinality(A \cup B) = Cardinality(A) + Cardinality(B) - Cardinality({})
      /\ Cardinality(A) \in Nat /\ Cardinality(B) \in Nat
  BY FS_Union, FS_CardinalityType
<1>2. Pairs(A \cup B) = Pairs(A) \cup Pairs(B) /\ Pairs(A) \cap Pairs(B) = {}
  BY DEF Pairs
<1>3. /\ Messages(A) = Cardinality(Pairs(A)) /\ Messages(B) = Cardinality(Pairs(B))
      /\ IsFiniteSet(Pairs(A)) /\ IsFiniteSet(Pairs(B))
      /\ Messages(A) \in Nat /\ Messages(B) \in Nat
  BY MessagesAreCounted
<1>4. Messages(A \cup B) = Cardinality(Pairs(A) \cup Pairs(B))
  BY <1>1, <1>2, MessagesAreCounted
<1>5. Messages(A \cup B) = Messages(A) + Messages(B) - Cardinality({})
  BY <1>2, <1>3, <1>4, FS_Union
<1>6. Cardinality({}) = 0
  BY FS_EmptySet
<1> QED BY <1>1, <1>3, <1>5, <1>6

\* What the counters do when blocks go.
LEMMA MessagesLess ==
  ASSUME NEW B, NEW D, B \subseteq Block, IsFiniteSet(B), D \subseteq B
  PROVE  /\ Messages(B \ D) = Less(Messages(B), Messages(D))
         /\ Cardinality(B \ D) = Less(Cardinality(B), Cardinality(D))
         /\ Messages(B \ D) \in Nat /\ Cardinality(B \ D) \in Nat
         /\ Messages(D) \in Nat /\ Messages(B) \in Nat
<1>1. IsFiniteSet(D) /\ IsFiniteSet(B \ D)
  BY FS_Subset
<1>2. (B \ D) \cup D = B /\ (B \ D) \cap D = {} /\ B \ D \subseteq Block /\ D \subseteq Block
  OBVIOUS
<1>3. /\ Cardinality(B) = Cardinality(B \ D) + Cardinality(D)
      /\ Cardinality(B \ D) \in Nat /\ Cardinality(D) \in Nat
      /\ Messages(B) = Messages(B \ D) + Messages(D)
      /\ Messages(B \ D) \in Nat /\ Messages(D) \in Nat
  <2>1. \A S : S = (B \ D) \cup D =>
          /\ Cardinality(S) = Cardinality(B \ D) + Cardinality(D)
          /\ Cardinality(B \ D) \in Nat /\ Cardinality(D) \in Nat
          /\ Messages(S) = Messages(B \ D) + Messages(D)
          /\ Messages(B \ D) \in Nat /\ Messages(D) \in Nat
    BY <1>1, <1>2, MessagesSplit
  <2> QED BY <1>2, <2>1, Zenon
<1> QED BY <1>3 DEF Less

LEMMA NoBlocks == Messages({}) = 0 /\ Cardinality({}) = 0
<1>1. Pairs({}) = {}
  BY DEF Pairs
<1> QED BY <1>1, FS_EmptySet, MessagesAreCounted

\* An empty count of messages is an empty set of blocks.
LEMMA NoMessages ==
  ASSUME NEW B, B \subseteq Block, IsFiniteSet(B), Messages(B) = 0
  PROVE  B = {}
<1>1. Pairs(B) = {}
  BY MessagesAreCounted, FS_EmptySet
<1>2. ASSUME NEW b \in B PROVE FALSE
  <2>1. PICK r : r \in b.records
    BY DEF Block
  <2>2. <<b, r>> \in Pairs(B)
    BY <2>1 DEF Pairs
  <2> QED BY <1>1, <2>2
<1> QED BY <1>2
\* The block with the better copies of what it holds.
Up(b, batch) == [b EXCEPT !.records = Best(@ \cup {r \in batch : r.at \in Times(b.records)})]

LEMMA BestCopies ==
  ASSUME NEW R, R \subseteq Record
  PROVE  /\ Best(R) \subseteq R /\ Times(Best(R)) = Times(R) /\ UniqueTimes(Best(R))
<1>1. Best(R) \subseteq R
  BY DEF Best
<1>2. UniqueTimes(Best(R))
  <2> SUFFICES ASSUME NEW r \in Best(R), NEW s \in Best(R), r.at = s.at PROVE r = s
    BY DEF UniqueTimes
  <2>1. r \in Record /\ s \in Record /\ r.fidelity \in {0, 1} /\ s.fidelity \in {0, 1}
    BY <1>1, RecordFields
  <2>2. s.fidelity <= r.fidelity /\ r.fidelity <= s.fidelity
    BY DEF Best
  <2> QED BY <2>1, <2>2 DEF Record
<1>3. \A r \in R : \E s \in Best(R) : s.at = r.at
  <2> SUFFICES ASSUME NEW r \in R PROVE \E s \in Best(R) : s.at = r.at
    OBVIOUS
  <2>1. \A s \in R : s.fidelity \in {0, 1}
    BY RecordFields
  <2>2. CASE \E s \in R : s.at = r.at /\ s.fidelity = 1
    BY <2>1, <2>2 DEF Best
  <2>3. CASE ~\E s \in R : s.at = r.at /\ s.fidelity = 1
    BY <2>1, <2>3 DEF Best
  <2> QED BY <2>2, <2>3
<1>4. Times(Best(R)) = Times(R)
  <2>1. \A t : t \in Times(R) <=> \E r \in R : t = r.at
    BY DEF Times
  <2>2. \A t : t \in Times(Best(R)) <=> \E r \in Best(R) : t = r.at
    BY DEF Times
  <2>3. \A t : t \in Times(R) <=> t \in Times(Best(R))
    BY <1>1, <1>3, <2>1, <2>2
  <2> QED BY <2>3
<1> QED BY <1>1, <1>2, <1>4

LEMMA UpgradeKeeps ==
  ASSUME NEW b \in Block, NEW batch, batch \subseteq Record
  PROVE  /\ Up(b, batch) \in Block
         /\ Up(b, batch).id = b.id /\ Up(b, batch).channel = b.channel
         /\ Up(b, batch).sequence = b.sequence
         /\ Times(Up(b, batch).records) = Times(b.records)
         /\ UniqueTimes(Up(b, batch).records)
<1> DEFINE more == {r \in batch : r.at \in Times(b.records)}
           R == b.records \cup more
<1>1. b.records \subseteq Record /\ b.records # {} /\ R \subseteq Record
  BY DEF Block
<1>2. Times(R) = Times(b.records)
  BY DEF Times
<1>3. /\ Best(R) \subseteq R /\ Times(Best(R)) = Times(R) /\ UniqueTimes(Best(R))
  BY <1>1, BestCopies
<1>4. Best(R) # {}
  BY <1>1, <1>2, <1>3 DEF Times
<1>5. Up(b, batch) = [b EXCEPT !.records = Best(R)]
  BY DEF Up
<1> HIDE DEF R
<1> QED BY <1>1, <1>2, <1>3, <1>4, <1>5 DEF Block

\* Two sets of records of the same times count the same.
LEMMA SameTimes ==
  ASSUME NEW R, NEW S, R \subseteq Record, S \subseteq Record,
         UniqueTimes(R), UniqueTimes(S), Times(R) = Times(S)
  PROVE  Cardinality(R) = Cardinality(S)
<1> DEFINE f == [r \in R |-> CHOOSE s \in S : s.at = r.at]
<1>1. \A r \in R : f[r] \in S /\ f[r].at = r.at
  BY DEF Times
<1>2. f \in [R -> S]
  BY <1>1
<1>3. \A s \in S : \E r \in R : f[r] = s
  <2> SUFFICES ASSUME NEW s \in S PROVE \E r \in R : f[r] = s
    OBVIOUS
  <2>1. PICK r \in R : r.at = s.at
    BY DEF Times
  <2> HIDE DEF f
  <2> QED BY <1>1, <2>1 DEF UniqueTimes
<1> HIDE DEF f
<1>4. \A r, q \in R : f[r] = f[q] => r = q
  BY <1>1 DEF UniqueTimes
<1>5. f \in Bijection(R, S)
  BY <1>2, <1>3, <1>4 DEF Bijection, Injection, Surjection, IsInjective
<1> QED BY <1>5, RecordsAreFinite, FS_Bijection DEF ExistsBijection

\* Better copies change neither the blocks nor how many messages they hold.
LEMMA UpgradesCountTheSame ==
  ASSUME NEW B, B \subseteq Block, IsFiniteSet(B), UniqueIds(B), UniqueEvents(B),
         NEW batch, batch \subseteq Record
  PROVE  LET U == Upgraded(B, batch)
         IN /\ U = {Up(b, batch) : b \in B}
            /\ U \subseteq Block /\ IsFiniteSet(U) /\ UniqueIds(U)
            /\ Cardinality(U) = Cardinality(B) /\ Messages(U) = Messages(B)
<1> DEFINE U == {Up(b, batch) : b \in B}
<1>1. U = Upgraded(B, batch)
  BY DEF Upgraded, Up
<1>2. \A b \in B : /\ Up(b, batch) \in Block /\ Up(b, batch).id = b.id
                   /\ Times(Up(b, batch).records) = Times(b.records)
                   /\ UniqueTimes(Up(b, batch).records)
  BY UpgradeKeeps
<1>3. U \subseteq Block /\ UniqueIds(U)
  BY <1>2 DEF UniqueIds
<1>4. IsFiniteSet(U)
  BY <1>3, BlocksAreFinite
<1>5. Cardinality(U) = Cardinality(B)
  <2> DEFINE f == [b \in B |-> Up(b, batch)]
  <2>1. \A a, b \in B : f[a] = f[b] => a = b
    BY <1>2 DEF UniqueIds
  <2>2. f \in [B -> U] /\ \A u \in U : \E b \in B : f[b] = u
    OBVIOUS
  <2> HIDE DEF f, U
  <2>3. f \in Bijection(B, U)
    BY <2>1, <2>2 DEF Bijection, Injection, Surjection, IsInjective
  <2> QED BY <2>3, FS_Bijection DEF ExistsBijection
<1>6. Messages(U) = Messages(B)
  <2> DEFINE g == [p \in Pairs(B) |->
                     <<Up(p[1], batch), CHOOSE s \in Up(p[1], batch).records : s.at = p[2].at>>]
  <2>1. ASSUME NEW b \in B, NEW r \in b.records
        PROVE  /\ <<b, r>> \in Pairs(B)
               /\ g[<<b, r>>] \in Pairs(U) /\ g[<<b, r>>][1] = Up(b, batch)
               /\ g[<<b, r>>][2] \in Up(b, batch).records /\ g[<<b, r>>][2].at = r.at
    <3> DEFINE s == CHOOSE x \in Up(b, batch).records : x.at = r.at
    <3>1. <<b, r>> \in Pairs(B)
      BY DEF Pairs
    <3>2. g[<<b, r>>] = <<Up(b, batch), s>>
      BY <3>1
    <3>3. s \in Up(b, batch).records /\ s.at = r.at
      <4>1. r.at \in Times(Up(b, batch).records)
        BY <1>2 DEF Times
      <4> QED BY <4>1 DEF Times
    <3> HIDE DEF s, g
    <3>4. <<Up(b, batch), s>> \in Pairs(U)
      BY <3>3 DEF Pairs
    <3> QED BY <3>1, <3>2, <3>3, <3>4
  <2>2. \A p \in Pairs(B) : \E b \in B : \E r \in b.records : p = <<b, r>>
    BY DEF Pairs
  <2>3. \A q \in Pairs(U) : \E b \in B : \E s \in Up(b, batch).records : q = <<Up(b, batch), s>>
    BY DEF Pairs
  <2>4. g = [p \in Pairs(B) |-> g[p]]
    OBVIOUS
  <2> HIDE DEF g, U
  <2>5. g \in [Pairs(B) -> Pairs(U)]
    BY <2>1, <2>2, <2>4
  <2>6. ASSUME NEW p \in Pairs(B), NEW q \in Pairs(B), g[p] = g[q] PROVE p = q
    <3>1. PICK a \in B : \E r \in a.records : p = <<a, r>>
      BY <2>2
    <3>2. PICK b \in B : \E s \in b.records : q = <<b, s>>
      BY <2>2
    <3>3. PICK r \in a.records, s \in b.records : p = <<a, r>> /\ q = <<b, s>>
      BY <3>1, <3>2
    <3>4. Up(a, batch) = Up(b, batch) /\ r.at = s.at
      BY <2>1, <2>6, <3>3
    <3>5. a = b
      BY <1>2, <3>4 DEF UniqueIds
    <3> QED BY <3>3, <3>4, <3>5 DEF UniqueEvents
  <2>7. ASSUME NEW q \in Pairs(U) PROVE \E p \in Pairs(B) : g[p] = q
    <3>1. PICK b \in B : \E s \in Up(b, batch).records : q = <<Up(b, batch), s>>
      BY <2>3
    <3>2. PICK s \in Up(b, batch).records : q = <<Up(b, batch), s>>
      BY <3>1
    <3>3. PICK r \in b.records : r.at = s.at
      BY <1>2, <3>2 DEF Times
    <3>4. g[<<b, r>>][2] = s
      BY <1>2, <2>1, <3>2, <3>3 DEF UniqueTimes
    <3>5. g[<<b, r>>] = q
      <4>1. PICK x, y : g[<<b, r>>] = <<x, y>>
        BY <2>1, <2>3
      <4> QED BY <2>1, <3>2, <3>4, <4>1
    <3> QED BY <2>1, <3>5
  <2>8. g \in Bijection(Pairs(B), Pairs(U))
    BY <2>5, <2>6, <2>7 DEF Bijection, Injection, Surjection, IsInjective
  <2>9. Cardinality(Pairs(U)) = Cardinality(Pairs(B))
    BY <2>8, MessagesAreCounted, FS_Bijection DEF ExistsBijection
  <2> QED BY <1>3, <1>4, <2>9, MessagesAreCounted
<1> QED BY <1>1, <1>3, <1>4, <1>5, <1>6
\* New events are ordered by time and cut into chunks of at most BlockMessages.
Rank(F, r) == Cardinality({s \in F : s.at < r.at})
Chunk(F, r) == Rank(F, r) \div BlockMessages
Chunks(F) == {Chunk(F, r) : r \in F}
InChunk(F, k) == {r \in F : Chunk(F, r) = k}

LEMMA RanksCount ==
  ASSUME NEW F, F \subseteq Record, UniqueTimes(F)
  PROVE  /\ \A r \in F : Rank(F, r) \in 0 .. Cardinality(F) - 1
         /\ \A r, s \in F : Rank(F, r) = Rank(F, s) => r = s
         /\ \A n \in 0 .. Cardinality(F) - 1 : \E r \in F : Rank(F, r) = n
<1> DEFINE Below(r) == {s \in F : s.at < r.at}
<1>1. IsFiniteSet(F) /\ Cardinality(F) \in Nat
  BY RecordsAreFinite, FS_CardinalityType
<1>2. \A r \in F : r.at \in Nat
  BY RecordFields
<1>3. ASSUME NEW r \in F PROVE Rank(F, r) \in 0 .. Cardinality(F) - 1
  <2>1. Below(r) \in SUBSET F /\ Below(r) # F
    BY <1>2
  <2>2. IsFiniteSet(Below(r)) /\ Cardinality(Below(r)) <= Cardinality(F)
        /\ Cardinality(Below(r)) # Cardinality(F) /\ Cardinality(Below(r)) \in Nat
    BY <1>1, <2>1, FS_Subset, FS_CardinalityType
  <2> QED BY <1>1, <2>2 DEF Rank
<1>4. ASSUME NEW r \in F, NEW s \in F, r.at < s.at PROVE Rank(F, r) # Rank(F, s)
  <2>1. Below(r) \in SUBSET Below(s) /\ r \in Below(s) /\ r \notin Below(r)
    BY <1>2, <1>4
  <2>2. IsFiniteSet(Below(s))
    BY <1>1, FS_Subset
  <2>3. Cardinality(Below(r)) # Cardinality(Below(s))
    BY <2>1, <2>2, FS_Subset
  <2> QED BY <2>3 DEF Rank
<1>5. ASSUME NEW r \in F, NEW s \in F, Rank(F, r) = Rank(F, s) PROVE r = s
  <2>1. ~(r.at < s.at) /\ ~(s.at < r.at)
    BY <1>4, <1>5
  <2>2. r.at = s.at
    BY <1>2, <2>1
  <2> QED BY <2>2 DEF UniqueTimes
<1> DEFINE f == [r \in F |-> Rank(F, r)]
           T == 0 .. Cardinality(F) - 1
<1>6. f \in Injection(F, T)
  <2>1. f \in [F -> T]
    BY <1>3
  <2> HIDE DEF T
  <2> QED BY <1>5, <2>1 DEF Injection, IsInjective
<1>7. IsFiniteSet(T) /\ Cardinality(T) = Cardinality(F)
  BY <1>1, FS_Interval
<1>8. f \in Surjection(F, T)
  <2> HIDE DEF f, T
  <2> QED BY <1>6, <1>7, FS_Injection
<1>9. \A n \in T : \E r \in F : f[r] = n
  <2> HIDE DEF f, T
  <2> QED BY <1>8 DEF Surjection
<1> QED BY <1>3, <1>5, <1>9

LEMMA ChunksCount ==
  ASSUME NEW F, F \subseteq Record, UniqueTimes(F)
  PROVE  /\ IsFiniteSet(Chunks(F)) /\ Cardinality(Chunks(F)) \in Nat
         /\ \A k \in Chunks(F) : /\ k \in Nat /\ k < Cardinality(Chunks(F))
                                 /\ InChunk(F, k) # {}
                                 /\ Cardinality(InChunk(F, k)) <= BlockMessages
<1> USE StoreNumbers
<1>1. Cardinality(F) \in Nat /\ \A r \in F : Rank(F, r) \in Nat /\ Rank(F, r) < Cardinality(F)
  BY RanksCount, RecordsAreFinite, FS_CardinalityType
<1>2. \A r \in F : /\ Chunk(F, r) \in Nat
                   /\ BlockMessages * Chunk(F, r) <= Rank(F, r)
                   /\ Rank(F, r) - BlockMessages * Chunk(F, r) \in 0 .. BlockMessages - 1
                   /\ Chunk(F, r) <= Rank(F, r)
  BY <1>1 DEF Chunk
<1>3. IsFiniteSet(Chunks(F))
  <2>1. Chunks(F) \in SUBSET (0 .. Cardinality(F))
    BY <1>1, <1>2 DEF Chunks
  <2>2. IsFiniteSet(0 .. Cardinality(F))
    BY <1>1, FS_Interval
  <2> QED BY <2>1, <2>2, FS_Subset
<1>4. ASSUME NEW r \in F PROVE Chunk(F, r) < Cardinality(Chunks(F))
  <2> DEFINE k == Chunk(F, r)
  <2>1. ASSUME NEW j \in 0 .. k PROVE j \in Chunks(F)
    <3>1. BlockMessages * j <= BlockMessages * k /\ BlockMessages * j \in Nat
      BY <1>2
    <3>2. BlockMessages * j \in 0 .. Cardinality(F) - 1
      <4>1. BlockMessages * k <= Rank(F, r) /\ Rank(F, r) < Cardinality(F)
        BY <1>1, <1>2
      <4>2. BlockMessages * k \in Nat /\ Rank(F, r) \in Nat
        BY <1>1, <1>2
      <4> HIDE DEF k
      <4> QED BY <1>1, <3>1, <4>1, <4>2
    <3>3. PICK s \in F : Rank(F, s) = BlockMessages * j
      BY <3>2, RanksCount
    <3>4. (BlockMessages * j) \div BlockMessages = j
      <4>1. j \in Nat
        BY <1>2
      <4> QED BY <4>1
    <3>5. Chunk(F, s) = j
      BY <3>3, <3>4 DEF Chunk
    <3> QED BY <3>5 DEF Chunks
  <2>2. 0 .. k \in SUBSET Chunks(F)
    BY <2>1
  <2>3. Cardinality(0 .. k) = k + 1
    BY <1>2, FS_Interval
  <2>4. k + 1 <= Cardinality(Chunks(F)) /\ Cardinality(Chunks(F)) \in Nat
    <3> HIDE DEF k
    <3> QED BY <1>3, <2>2, <2>3, FS_Subset, FS_CardinalityType
  <2> QED BY <1>2, <2>4
<1>5. ASSUME NEW k \in Chunks(F) PROVE Cardinality(InChunk(F, k)) <= BlockMessages
  <2> DEFINE f == [r \in InChunk(F, k) |-> Rank(F, r) - BlockMessages * k]
             T == 0 .. BlockMessages - 1
  <2>1. f \in [InChunk(F, k) -> T]
    BY <1>2 DEF InChunk
  <2>2. ASSUME NEW r \in InChunk(F, k), NEW s \in InChunk(F, k), f[r] = f[s] PROVE r = s
    <3>1. r \in F /\ s \in F /\ Rank(F, r) \in Nat /\ Rank(F, s) \in Nat
      BY <1>1 DEF InChunk
    <3>2. k \in Nat
      BY <1>2 DEF Chunks
    <3>3. \A m \in Int : Rank(F, r) - m = Rank(F, s) - m => Rank(F, r) = Rank(F, s)
      BY <3>1
    <3>4. BlockMessages * k \in Int
      BY <3>2
    <3>5. Rank(F, r) = Rank(F, s)
      BY <2>2, <3>3, <3>4
    <3> QED BY <3>1, <3>5, RanksCount
  <2>3. IsFiniteSet(T) /\ Cardinality(T) = BlockMessages
    BY FS_Interval
  <2> HIDE DEF f, T
  <2>4. f \in Injection(InChunk(F, k), T)
    BY <2>1, <2>2 DEF Injection, IsInjective
  <2> QED BY <2>3, <2>4, FS_Injection
<1>6. \A k \in Chunks(F) : InChunk(F, k) # {}
  BY DEF Chunks, InChunk
<1> QED BY <1>2, <1>3, <1>4, <1>5, <1>6, FS_CardinalityType DEF Chunks

\* New blocks take the ids and sequences that follow, and share no event.
NewBlock(F, c, id, sequence, k) ==
  [id |-> id + k, channel |-> c, sequence |-> sequence + k, records |-> InChunk(F, k)]
NewBlocks(F, c, id, sequence) == {NewBlock(F, c, id, sequence, k) : k \in Chunks(F)}

LEMMA CreatedAreNew ==
  ASSUME NEW c, NEW F
  PROVE  Created(c, F) = NewBlocks(F, c, NextId, WithRow(c)[c].next)
<1> DEFINE chunk == [r \in F |-> Cardinality({s \in F : s.at < r.at}) \div BlockMessages]
<1>1. \A r \in F : chunk[r] = Chunk(F, r)
  BY DEF Chunk, Rank
<1>2. \A k : {r \in F : chunk[r] = k} = InChunk(F, k)
  BY <1>1 DEF InChunk
<1>3. {chunk[r] : r \in F} = Chunks(F)
  BY <1>1 DEF Chunks
<1>4. Created(c, F) = {[id |-> NextId + k, channel |-> c, sequence |-> WithRow(c)[c].next + k,
                        records |-> {r \in F : chunk[r] = k}] : k \in {chunk[r] : r \in F}}
  BY DEF Created
<1> HIDE DEF chunk
<1> QED BY <1>2, <1>3, <1>4 DEF NewBlocks, NewBlock

LEMMA NewBlocksAreSound ==
  ASSUME NEW F, F \subseteq Record, UniqueTimes(F), NEW c \in StoreChannels,
         NEW id \in Nat \ {0}, NEW sequence \in Nat,
         \A b \in NewBlocks(F, c, id, sequence) : b.id <= MaxBlockId
  PROVE  LET N == NewBlocks(F, c, id, sequence)
         IN /\ N \subseteq Block /\ IsFiniteSet(N) /\ Cardinality(N) \in Nat
            /\ \A b \in N : /\ b.id >= id /\ b.channel = c /\ b.records \subseteq F
                            /\ b.sequence >= sequence
                            /\ b.sequence < sequence + Cardinality(N)
                            /\ Cardinality(b.records) <= BlockMessages
            /\ \A a, b \in N : /\ a.id = b.id => a = b
                               /\ a.sequence = b.sequence => a = b
                               /\ a.records \cap b.records # {} => a = b
<1> USE StoreNumbers
<1> DEFINE N == NewBlocks(F, c, id, sequence)
           B(k) == NewBlock(F, c, id, sequence, k)
<1>1. \A k \in Chunks(F) : /\ k \in Nat /\ k < Cardinality(Chunks(F))
                           /\ InChunk(F, k) # {} /\ InChunk(F, k) \subseteq F
                           /\ Cardinality(InChunk(F, k)) <= BlockMessages
  BY ChunksCount DEF InChunk
<1>2. \A b \in N : \E k \in Chunks(F) : b = B(k)
  BY DEF NewBlocks
<1>3. \A k \in Chunks(F) : B(k) \in N /\ B(k).id \in Nat /\ B(k).id <= MaxBlockId
  BY <1>1 DEF NewBlocks, NewBlock
<1>4. \A j, k \in Chunks(F) : B(j).id = B(k).id \/ B(j).sequence = B(k).sequence => j = k
  BY <1>1 DEF NewBlock
<1>5. \A j, k \in Chunks(F) : B(j).records \cap B(k).records # {} => j = k
  BY DEF NewBlock, InChunk
<1>6. \A k \in Chunks(F) :
        /\ B(k) \in Block /\ B(k).id >= id /\ B(k).channel = c /\ B(k).records \subseteq F
        /\ B(k).sequence >= sequence /\ B(k).sequence < sequence + Cardinality(Chunks(F))
        /\ Cardinality(B(k).records) <= BlockMessages
  <2> SUFFICES ASSUME NEW k \in Chunks(F)
               PROVE  /\ B(k) \in Block /\ B(k).id >= id /\ B(k).channel = c
                      /\ B(k).records \subseteq F /\ B(k).sequence >= sequence
                      /\ B(k).sequence < sequence + Cardinality(Chunks(F))
                      /\ Cardinality(B(k).records) <= BlockMessages
    OBVIOUS
  <2>1. /\ B(k).id = id + k /\ B(k).channel = c /\ B(k).sequence = sequence + k
        /\ B(k).records = InChunk(F, k)
    BY DEF NewBlock
  <2>2. k \in Nat /\ Cardinality(Chunks(F)) \in Nat /\ id + k \in 1 .. MaxBlockId
        /\ sequence + k \in Nat /\ k < Cardinality(Chunks(F))
    BY <1>1, <1>3, <2>1, ChunksCount
  <2>3. InChunk(F, k) \in {R \in SUBSET Record : R # {}}
    BY <1>1
  <2>4. B(k) \in Block
    BY <2>2, <2>3 DEF Block, NewBlock
  <2> HIDE DEF B
  <2> QED BY <1>1, <2>1, <2>2, <2>4
<1>7. Cardinality(N) = Cardinality(Chunks(F)) /\ IsFiniteSet(N)
  <2> DEFINE f == [k \in Chunks(F) |-> B(k)]
  <2>1. \A j, k \in Chunks(F) : f[j] = f[k] => j = k
    BY <1>4
  <2>2. f \in [Chunks(F) -> N] /\ \A b \in N : \E k \in Chunks(F) : f[k] = b
    BY <1>2, <1>3
  <2> HIDE DEF f, N
  <2>3. f \in Bijection(Chunks(F), N)
    BY <2>1, <2>2 DEF Bijection, Injection, Surjection, IsInjective
  <2> QED BY <2>3, ChunksCount, FS_Bijection DEF ExistsBijection
<1> HIDE DEF N, B
<1>8. N \subseteq Block
  BY <1>2, <1>6
<1>9. \A b \in N : /\ b.id >= id /\ b.channel = c /\ b.records \subseteq F
                   /\ b.sequence >= sequence /\ b.sequence < sequence + Cardinality(N)
                   /\ Cardinality(b.records) <= BlockMessages
  BY <1>2, <1>6, <1>7
<1>10. \A a, b \in N : /\ a.id = b.id => a = b
                       /\ a.sequence = b.sequence => a = b
                       /\ a.records \cap b.records # {} => a = b
  BY <1>2, <1>4, <1>5
<1> QED BY <1>7, <1>8, <1>9, <1>10, ChunksCount DEF N
-----------------------------------------------------------------------------
LEMMA Extremes ==
  ASSUME NEW lo \in Int, NEW hi \in Int, NEW S, S \subseteq lo .. hi, S # {}
  PROVE  /\ \E m \in S : \A o \in S : o <= m
         /\ \E m \in S : \A o \in S : m <= o
<1>1. ASSUME NEW D \in SUBSET Nat, D # {} PROVE \E d \in D : \A e \in D : d <= e
  <2>1. PICK d \in D : \A e \in D : ~(<<e, d>> \in OpToRel(<, Nat))
    BY <1>1, NatLessThanWellFounded, WFMin, Zenon
  <2>2. \A x, y \in Nat : x < y => <<x, y>> \in OpToRel(<, Nat)
    BY Zenon DEF OpToRel
  <2>3. \A e \in D : ~(e < d)
    BY <2>1, <2>2
  <2> QED BY <2>3
<1>2. \E m \in S : \A o \in S : o <= m
  <2> DEFINE D == {hi - o : o \in S}
  <2>1. D \in SUBSET Nat /\ D # {}
    <3>1. \A o \in S : hi - o \in Nat
      OBVIOUS
    <3>2. D # {}
      BY Zenon
    <3> QED BY <3>1, <3>2
  <2>2. PICK d \in D : \A e \in D : d <= e
    BY <1>1, <2>1
  <2>3. PICK m \in S : d = hi - m
    BY <2>2
  <2>4. \A o \in S : hi - m <= hi - o
    BY <2>2, <2>3
  <2> HIDE DEF D
  <2> QED BY <2>4
<1>3. \E m \in S : \A o \in S : m <= o
  <2> DEFINE D == {o - lo : o \in S}
  <2>1. D \in SUBSET Nat /\ D # {}
    <3>1. \A o \in S : o - lo \in Nat
      OBVIOUS
    <3>2. D # {}
      BY Zenon
    <3> QED BY <3>1, <3>2
  <2>2. PICK d \in D : \A e \in D : d <= e
    BY <1>1, <2>1
  <2>3. PICK m \in S : d = m - lo
    BY <2>2
  <2>4. \A o \in S : m - lo <= o - lo
    BY <2>2, <2>3
  <2> HIDE DEF D
  <2> QED BY <2>4
<1> QED BY <1>2, <1>3

LEMMA TimesAreBounded ==
  ASSUME NEW R, R \subseteq Record, R # {}
  PROVE  /\ Newest(R) \in Times(R) /\ Min(Times(R)) \in Times(R)
         /\ \A r \in R : Min(Times(R)) <= r.at /\ r.at <= Newest(R)
         /\ Newest(R) \in Nat /\ Min(Times(R)) \in Nat
<1>1. Times(R) \subseteq 1 .. MaxStoreClock /\ Times(R) # {}
  BY RecordFields DEF Times
<1>2. \A r \in R : r.at \in Times(R)
  BY DEF Times
<1>3. /\ \E m \in Times(R) : \A t \in Times(R) : m >= t
      /\ \E m \in Times(R) : \A t \in Times(R) : m <= t
  <2>1. 1 \in Int /\ MaxStoreClock \in Int
    BY StoreNumbers
  <2>2. /\ \E m \in Times(R) : \A t \in Times(R) : t <= m
        /\ \E m \in Times(R) : \A t \in Times(R) : m <= t
    BY <1>1, <2>1, Extremes
  <2>3. \A t \in Times(R) : t \in Int
    BY <1>1, <2>1
  <2> QED BY <2>2, <2>3
<1>4. Newest(R) \in Times(R) /\ \A t \in Times(R) : Newest(R) >= t
  BY <1>3 DEF Newest, Max
<1>5. Min(Times(R)) \in Times(R) /\ \A t \in Times(R) : Min(Times(R)) <= t
  BY <1>3 DEF Min
<1> QED BY <1>1, <1>2, <1>4, <1>5, StoreNumbers

\* The store's tables: the blocks, the channel rows and the totals row.
ChannelRow == [next : Nat, retained : Nat, requested : Nat]
OfIn(B, c) == {b \in B : b.channel = c}
Stored(B, ch, t) ==
  /\ B \subseteq Block /\ \A b \in B : Cardinality(b.records) <= BlockMessages
  /\ UniqueEvents(B) /\ UniqueIds(B) /\ UniqueSequences(B)
  /\ DOMAIN ch \subseteq StoreChannels /\ ch \in [DOMAIN ch -> ChannelRow]
  /\ t = [blocks |-> Cardinality(B), messages |-> Messages(B)]
  /\ \A b \in B : b.channel \in DOMAIN ch /\ b.sequence < ch[b.channel].next
  /\ \A c \in DOMAIN ch : ch[c].retained = Messages(OfIn(B, c))

\* The totals after blocks D went.
Reduced(t, D) ==
  [blocks |-> Less(t.blocks, Cardinality(D)), messages |-> Less(t.messages, Messages(D))]

LEMMA StoredIsFinite ==
  ASSUME NEW B, NEW ch, NEW t, Stored(B, ch, t)
  PROVE  IsFiniteSet(B) /\ \A c : OfIn(B, c) \subseteq Block /\ IsFiniteSet(OfIn(B, c))
<1>1. IsFiniteSet(B) /\ B \subseteq Block
  BY BlocksAreFinite DEF Stored
<1>2. \A c : OfIn(B, c) \in SUBSET B
  BY DEF OfIn
<1> QED BY <1>1, <1>2, FS_Subset

\* Blocks are deleted one by one, by expiry, a trim or an eviction.
LEMMA DeletingKeeps ==
  ASSUME NEW B, NEW ch, NEW t, Stored(B, ch, t), NEW D, D \subseteq B
  PROVE  Stored(B \ D,
                [c \in DOMAIN ch |-> [ch[c] EXCEPT !.retained = Less(@, Messages(OfIn(D, c)))]],
                Reduced(t, D))
<1> DEFINE ch2 == [c \in DOMAIN ch |-> [ch[c] EXCEPT !.retained = Less(@, Messages(OfIn(D, c)))]]
<1>1. B \subseteq Block /\ IsFiniteSet(B)
  BY StoredIsFinite DEF Stored
<1>2. Reduced(t, D) = [blocks |-> Cardinality(B \ D), messages |-> Messages(B \ D)]
  BY <1>1, MessagesLess DEF Stored, Reduced
<1>3. ASSUME NEW c \in DOMAIN ch
      PROVE  /\ ch2[c] \in ChannelRow /\ ch2[c].next = ch[c].next
             /\ ch2[c].retained = Messages(OfIn(B \ D, c))
  <2>1. OfIn(D, c) \subseteq OfIn(B, c) /\ OfIn(B \ D, c) = OfIn(B, c) \ OfIn(D, c)
    BY DEF OfIn
  <2>2. Less(ch[c].retained, Messages(OfIn(D, c))) = Messages(OfIn(B \ D, c))
        /\ Messages(OfIn(B \ D, c)) \in Nat
    <3>1. OfIn(B, c) \subseteq Block /\ IsFiniteSet(OfIn(B, c))
      BY StoredIsFinite
    <3>2. ch[c].retained = Messages(OfIn(B, c))
      BY DEF Stored
    <3>3. /\ Messages(OfIn(B, c) \ OfIn(D, c)) = Less(Messages(OfIn(B, c)), Messages(OfIn(D, c)))
          /\ Messages(OfIn(B, c) \ OfIn(D, c)) \in Nat
      BY <2>1, <3>1, MessagesLess
    <3> QED BY <2>1, <3>2, <3>3
  <2>3. ch[c] \in ChannelRow
    BY DEF Stored
  <2>4. ch2[c] = [ch[c] EXCEPT !.retained = Messages(OfIn(B \ D, c))]
    BY <2>2
  <2> QED BY <2>2, <2>3, <2>4 DEF ChannelRow
<1>4. DOMAIN ch2 = DOMAIN ch /\ ch2 \in [DOMAIN ch -> ChannelRow]
  BY <1>3
<1> HIDE DEF ch2
<1>5. UniqueEvents(B \ D) /\ UniqueIds(B \ D) /\ UniqueSequences(B \ D)
  BY DEF Stored, UniqueEvents, UniqueIds, UniqueSequences
<1>6. Stored(B \ D, ch2, Reduced(t, D))
  BY <1>1, <1>2, <1>3, <1>4, <1>5 DEF Stored
<1> QED BY <1>6 DEF ch2

\* A channel goes with its row, by a purge or a block.
LEMMA DroppingKeeps ==
  ASSUME NEW B, NEW ch, NEW t, Stored(B, ch, t), NEW S, NEW D, D = {b \in B : b.channel \in S}
  PROVE  Stored(B \ D, Without(ch, S), Reduced(t, D))
<1> DEFINE ch2 == Without(ch, S)
<1>1. B \subseteq Block /\ IsFiniteSet(B) /\ D \subseteq B
  BY StoredIsFinite DEF Stored
<1>2. Reduced(t, D) = [blocks |-> Cardinality(B \ D), messages |-> Messages(B \ D)]
  BY <1>1, MessagesLess DEF Stored, Reduced
<1>3. DOMAIN ch2 = DOMAIN ch \ S /\ \A c \in DOMAIN ch2 : ch2[c] = ch[c]
  BY DEF Without
<1>4. ch2 \in [DOMAIN ch2 -> ChannelRow]
  BY DEF Without, Stored
<1>5. \A c \in DOMAIN ch2 : OfIn(B \ D, c) = OfIn(B, c)
  BY <1>3 DEF OfIn
<1> HIDE DEF ch2
<1>6. UniqueEvents(B \ D) /\ UniqueIds(B \ D) /\ UniqueSequences(B \ D)
  BY DEF Stored, UniqueEvents, UniqueIds, UniqueSequences
<1>7. Stored(B \ D, ch2, Reduced(t, D))
  BY <1>1, <1>2, <1>3, <1>4, <1>5, <1>6 DEF Stored
<1> QED BY <1>7 DEF ch2
\* Better copies taken into the blocks O of one channel.
LEMMA UpgradingKeeps ==
  ASSUME NEW B, NEW ch, NEW t, Stored(B, ch, t), NEW c, NEW O, O \subseteq OfIn(B, c),
         NEW batch, batch \subseteq Record
  PROVE  LET U == Upgraded(O, batch)
         IN /\ Stored((B \ O) \cup U, ch, t)
            /\ \A u \in U : u.channel = c
            /\ \A u \in U : \E b \in O : u = Up(b, batch)
<1> DEFINE U == Upgraded(O, batch)
           C == (B \ O) \cup U
<1>1. /\ IsFiniteSet(B) /\ B \subseteq Block /\ O \subseteq B /\ IsFiniteSet(O) /\ O \subseteq Block
      /\ IsFiniteSet(B \ O) /\ B \ O \subseteq Block
      /\ UniqueIds(O) /\ UniqueEvents(O) /\ UniqueIds(B) /\ UniqueEvents(B) /\ UniqueSequences(B)
      /\ \A b \in O : b.channel = c
  <2>1. IsFiniteSet(B) /\ B \subseteq Block /\ O \in SUBSET B
    BY StoredIsFinite DEF Stored, OfIn
  <2>2. IsFiniteSet(O) /\ IsFiniteSet(B \ O)
    BY <2>1, FS_Subset
  <2> QED BY <2>1, <2>2 DEF Stored, OfIn, UniqueIds, UniqueEvents
<1>2. /\ U = {Up(b, batch) : b \in O} /\ U \subseteq Block /\ IsFiniteSet(U) /\ UniqueIds(U)
      /\ Cardinality(U) = Cardinality(O) /\ Messages(U) = Messages(O)
  BY <1>1, UpgradesCountTheSame
<1> HIDE DEF U
<1> DEFINE old(u) == CHOOSE b \in O : u = Up(b, batch)
<1>3. ASSUME NEW u \in U
      PROVE  /\ old(u) \in O /\ u.id = old(u).id /\ u.channel = c /\ u.sequence = old(u).sequence
             /\ old(u).channel = c
             /\ Times(u.records) = Times(old(u).records) /\ UniqueTimes(u.records)
             /\ u = Up(old(u), batch)
  <2>1. old(u) \in O /\ u = Up(old(u), batch)
    BY <1>2
  <2> HIDE DEF old
  <2> QED BY <1>1, <2>1, UpgradeKeeps
<1> HIDE DEF old
<1>4. UniqueIds(C) /\ UniqueSequences(C)
  <2>1. \A u \in U, b \in B \ O : u.id # b.id /\ ~(u.channel = b.channel /\ u.sequence = b.sequence)
    BY <1>1, <1>3 DEF UniqueIds, UniqueSequences
  <2>2. \A u, v \in U : u.sequence = v.sequence => u = v
    BY <1>1, <1>3 DEF UniqueSequences
  <2> QED BY <1>1, <1>2, <2>1, <2>2 DEF UniqueIds, UniqueSequences
<1>5. UniqueEvents(C)
  <2>1. ASSUME NEW u \in U, NEW r \in u.records PROVE \E q \in old(u).records : q.at = r.at
    BY <1>3, <2>1 DEF Times
  <2>2. \A u \in U, b \in B \ O : \A r \in u.records, s \in b.records :
          ~(u.channel = b.channel /\ r.at = s.at)
    BY <1>1, <1>3, <2>1 DEF UniqueEvents
  <2>3. ASSUME NEW u \in U, NEW v \in U, NEW r \in u.records, NEW s \in v.records, r.at = s.at
        PROVE  u = v /\ r = s
    <3>1. old(u) = old(v)
      BY <1>1, <1>3, <2>1, <2>3 DEF UniqueEvents
    <3>2. u = v
      BY <1>3, <3>1
    <3> QED BY <1>3, <2>3, <3>2 DEF UniqueTimes
  <2>4. \A a, b \in B \ O : \A r \in a.records, s \in b.records :
          a.channel = b.channel /\ r.at = s.at => a = b /\ r = s
    BY <1>1 DEF UniqueEvents
  <2> QED BY <2>2, <2>3, <2>4 DEF UniqueEvents
<1>6. C \subseteq Block /\ \A b \in C : Cardinality(b.records) <= BlockMessages
  <2>1. ASSUME NEW u \in U PROVE Cardinality(u.records) <= BlockMessages
    <3>1. /\ u.records \subseteq Record /\ old(u).records \subseteq Record
          /\ UniqueTimes(old(u).records)
      BY <1>1, <1>2, <1>3 DEF Block, UniqueEvents, UniqueTimes
    <3>2. Cardinality(u.records) = Cardinality(old(u).records)
      BY <1>3, <3>1, SameTimes
    <3> QED BY <1>1, <1>3, <3>2 DEF Stored
  <2> QED BY <1>1, <1>2, <2>1 DEF Stored
<1>7. U \cap (B \ O) = {}
  BY <1>1, <1>3 DEF UniqueIds
<1>8. ASSUME NEW A, A \subseteq B, O \subseteq A
      PROVE  /\ Cardinality((A \ O) \cup U) = Cardinality(A)
             /\ Messages((A \ O) \cup U) = Messages(A)
  <2>1. IsFiniteSet(A \ O) /\ A \ O \subseteq Block
    BY <1>1, <1>8, FS_Subset
  <2>2. /\ Cardinality((A \ O) \cup U) = Cardinality(A \ O) + Cardinality(U)
        /\ Messages((A \ O) \cup U) = Messages(A \ O) + Messages(U)
    BY <1>2, <1>7, <1>8, <2>1, MessagesSplit
  <2>3. /\ Cardinality((A \ O) \cup O) = Cardinality(A \ O) + Cardinality(O)
        /\ Messages((A \ O) \cup O) = Messages(A \ O) + Messages(O)
    BY <1>1, <2>1, MessagesSplit
  <2>4. (A \ O) \cup O = A
    BY <1>8
  <2> QED BY <1>2, <2>2, <2>3, <2>4
<1>9. t = [blocks |-> Cardinality(C), messages |-> Messages(C)]
  BY <1>1, <1>8 DEF Stored
<1>10. \A d \in DOMAIN ch : ch[d].retained = Messages(OfIn(C, d))
  <2> SUFFICES ASSUME NEW d \in DOMAIN ch PROVE Messages(OfIn(C, d)) = Messages(OfIn(B, d))
    BY DEF Stored
  <2>1. CASE d = c
    <3>1. OfIn(C, c) = (OfIn(B, c) \ O) \cup U
      BY <1>1, <1>3 DEF OfIn
    <3>2. OfIn(B, c) \subseteq B /\ O \subseteq OfIn(B, c)
      BY DEF OfIn
    <3> QED BY <1>8, <2>1, <3>1, <3>2
  <2>2. CASE d # c
    <3>1. OfIn(C, d) = OfIn(B, d)
      BY <1>1, <1>3, <2>2 DEF OfIn
    <3> QED BY <3>1
  <2> QED BY <2>1, <2>2
<1>11. \A b \in C : b.channel \in DOMAIN ch /\ b.sequence < ch[b.channel].next
  <2>1. \A b \in B : b.channel \in DOMAIN ch /\ b.sequence < ch[b.channel].next
    BY DEF Stored
  <2> QED BY <1>1, <1>3, <2>1
<1>12. Stored(C, ch, t)
  <2>1. DOMAIN ch \subseteq StoreChannels /\ ch \in [DOMAIN ch -> ChannelRow]
    BY DEF Stored
  <2> HIDE DEF C
  <2> QED BY <1>4, <1>5, <1>6, <1>9, <1>10, <1>11, <2>1 DEF Stored
<1>13. \A u \in U : \E b \in O : u = Up(b, batch)
  BY <1>3
<1> QED BY <1>3, <1>12, <1>13 DEF U

\* New blocks N of one channel.
LEMMA AddingKeeps ==
  ASSUME NEW B, NEW ch, NEW t, Stored(B, ch, t), NEW c \in DOMAIN ch,
         NEW N, N \subseteq Block, IsFiniteSet(N), UniqueIds(N), UniqueSequences(N), UniqueEvents(N),
         \A b \in N : /\ b.channel = c /\ Cardinality(b.records) <= BlockMessages
                      /\ b.sequence >= ch[c].next /\ b.sequence < ch[c].next + Cardinality(N)
                      /\ \A a \in B : a.id < b.id,
         \A a \in OfIn(B, c), b \in N : \A r \in a.records, s \in b.records : r.at # s.at
  PROVE  Stored(B \cup N,
                [ch EXCEPT ![c].next = @ + Cardinality(N), ![c].retained = @ + Messages(N)],
                [blocks |-> t.blocks + Cardinality(N), messages |-> t.messages + Messages(N)])
<1> DEFINE ch2 == [ch EXCEPT ![c].next = @ + Cardinality(N), ![c].retained = @ + Messages(N)]
           t2 == [blocks |-> t.blocks + Cardinality(N), messages |-> t.messages + Messages(N)]
<1>1. /\ IsFiniteSet(B) /\ B \subseteq Block /\ UniqueIds(B) /\ UniqueEvents(B) /\ UniqueSequences(B)
      /\ \A b \in B : b.channel \in DOMAIN ch /\ b.sequence < ch[b.channel].next
  BY StoredIsFinite DEF Stored
<1>2. ch[c].next \in Nat /\ ch[c].retained \in Nat /\ Cardinality(N) \in Nat /\ Messages(N) \in Nat
  BY MessagesAreCounted, FS_CardinalityType DEF Stored, ChannelRow
<1>3. B \cap N = {} /\ UniqueIds(B \cup N)
  <2>1. \A a \in B, b \in N : a.id # b.id
    BY <1>1 DEF Block
  <2> QED BY <1>1, <2>1 DEF UniqueIds
<1>4. UniqueSequences(B \cup N)
  <2>1. \A a \in B, b \in N : ~(a.channel = b.channel /\ a.sequence = b.sequence)
    BY <1>1, <1>2 DEF Block
  <2> QED BY <1>1, <2>1 DEF UniqueSequences
<1>5. UniqueEvents(B \cup N)
  <2>1. \A a \in B, b \in N : \A r \in a.records, s \in b.records :
          ~(a.channel = b.channel /\ r.at = s.at)
    BY DEF OfIn
  <2>2. \A a \in B, b \in N : \A r \in a.records, s \in b.records :
          ~(b.channel = a.channel /\ s.at = r.at)
    BY <2>1
  <2> SUFFICES ASSUME NEW a \in B \cup N, NEW b \in B \cup N, NEW r \in a.records,
                      NEW s \in b.records, a.channel = b.channel, r.at = s.at
               PROVE  a = b /\ r = s
    BY DEF UniqueEvents
  <2>3. (a \in B /\ b \in B) \/ (a \in N /\ b \in N)
    BY <2>1, <2>2
  <2> QED BY <1>1, <2>3 DEF UniqueEvents
<1>6. t2 = [blocks |-> Cardinality(B \cup N), messages |-> Messages(B \cup N)]
  BY <1>1, <1>3, MessagesSplit DEF Stored
<1>7. /\ DOMAIN ch2 = DOMAIN ch
      /\ \A d \in DOMAIN ch \ {c} : ch2[d] = ch[d]
      /\ ch2[c] = [ch[c] EXCEPT !.next = @ + Cardinality(N), !.retained = @ + Messages(N)]
  BY DEF Stored
<1>8. ch[c] \in ChannelRow /\ ch2[c] \in ChannelRow /\ ch2[c].next = ch[c].next + Cardinality(N)
      /\ ch2[c].retained = ch[c].retained + Messages(N)
  <2>1. ch[c] \in ChannelRow
    BY DEF Stored
  <2> HIDE DEF ch2
  <2>2. ch2[c].next = ch[c].next + Cardinality(N) /\ ch2[c].retained = ch[c].retained + Messages(N)
    BY <1>7, <2>1 DEF ChannelRow
  <2>3. ch[c].next + Cardinality(N) \in Nat /\ ch[c].retained + Messages(N) \in Nat
    BY <1>2
  <2>4. ch2[c] \in ChannelRow
    BY <1>7, <2>1, <2>3 DEF ChannelRow
  <2> QED BY <2>1, <2>2, <2>4
<1>9. ch2 \in [DOMAIN ch2 -> ChannelRow]
  <2>1. ch2 = [d \in DOMAIN ch2 |-> ch2[d]]
    BY DEF Stored
  <2> HIDE DEF ch2
  <2> QED BY <1>7, <1>8, <2>1 DEF Stored
<1> HIDE DEF ch2, t2
<1>10. \A d \in DOMAIN ch2 : ch2[d].retained = Messages(OfIn(B \cup N, d))
  <2> SUFFICES ASSUME NEW d \in DOMAIN ch2 PROVE ch2[d].retained = Messages(OfIn(B \cup N, d))
    OBVIOUS
  <2>1. CASE d = c
    <3>1. OfIn(B \cup N, c) = OfIn(B, c) \cup N /\ OfIn(B, c) \cap N = {}
      BY <1>3 DEF OfIn
    <3>2. OfIn(B, c) \subseteq Block /\ IsFiniteSet(OfIn(B, c))
      BY StoredIsFinite
    <3>3. Messages(OfIn(B, c) \cup N) = Messages(OfIn(B, c)) + Messages(N)
      BY <3>1, <3>2, MessagesSplit
    <3> QED BY <1>8, <2>1, <3>1, <3>3 DEF Stored
  <2>2. CASE d # c
    <3>1. OfIn(B \cup N, d) = OfIn(B, d)
      BY <2>2 DEF OfIn
    <3> QED BY <1>7, <2>2, <3>1 DEF Stored
  <2> QED BY <2>1, <2>2
<1>11. \A b \in B \cup N : b.channel \in DOMAIN ch2 /\ b.sequence < ch2[b.channel].next
  <2>1. \A b \in N : b.channel \in DOMAIN ch2 /\ b.sequence < ch2[b.channel].next
    BY <1>7, <1>8
  <2>2. \A b \in B : b.channel = c => b.sequence < ch2[b.channel].next
    BY <1>1, <1>2, <1>8 DEF Block
  <2> QED BY <1>1, <1>7, <2>1, <2>2
<1>12. Stored(B \cup N, ch2, t2)
  BY <1>1, <1>3, <1>4, <1>5, <1>6, <1>7, <1>9, <1>10, <1>11 DEF Stored
<1> QED BY <1>12 DEF ch2, t2

\* A channel row is written with the channel's first batch or request.
LEMMA RowKeeps ==
  ASSUME NEW c \in StoreChannels, Stored(blocks, channels, totals)
  PROVE  /\ Stored(blocks, WithRow(c), totals) /\ DOMAIN WithRow(c) = DOMAIN channels \cup {c}
<1>1. CASE c \in DOMAIN channels
  <2>1. WithRow(c) = channels
    BY <1>1 DEF WithRow, Stored
  <2> QED BY <1>1, <2>1
<1>2. CASE c \notin DOMAIN channels
  <2>1. /\ DOMAIN WithRow(c) = DOMAIN channels \cup {c}
        /\ WithRow(c)[c] = NoRow /\ \A d \in DOMAIN channels : WithRow(c)[d] = channels[d]
        /\ WithRow(c) = [d \in DOMAIN WithRow(c) |-> WithRow(c)[d]]
    BY <1>2 DEF WithRow
  <2>2. NoRow \in ChannelRow /\ NoRow.retained = 0
    BY DEF NoRow, ChannelRow
  <2>3. WithRow(c) \in [DOMAIN WithRow(c) -> ChannelRow]
    BY <2>1, <2>2 DEF Stored
  <2>4. Messages(OfIn(blocks, c)) = 0
    <3>1. OfIn(blocks, c) = {}
      BY <1>2 DEF Stored, OfIn
    <3> QED BY <3>1, NoBlocks
  <2> QED BY <2>1, <2>2, <2>3, <2>4 DEF Stored
<1> QED BY <1>1, <1>2

\* The blocks of a channel with a batch merged into them, what is trimmed, and the
\* counters in between.
Fresh(c, R) == {r \in Best(R) : \A b \in Overlapping(c, R) : r.at \notin Times(b.records)}
Added(c, R) == Created(c, Fresh(c, R))
Enlarged(c, R) == Upgraded(Overlapping(c, R), R)
Grown(c, R) == ((blocks \ Overlapping(c, R)) \cup Enlarged(c, R)) \cup Added(c, R)
GrownOf(c, R) == (Of(c) \ Overlapping(c, R)) \cup Enlarged(c, R) \cup Added(c, R)
Retaining(c, R) == WithRow(c)[c].retained + Messages(Added(c, R))
Dropped(c, R) ==
  IF Added(c, R) = {} THEN {} ELSE Trimmed(GrownOf(c, R), Retaining(c, R))
GrownRows(c, R) ==
  [WithRow(c) EXCEPT ![c].next = @ + Cardinality(Added(c, R)),
                     ![c].retained = @ + Messages(Added(c, R))]
GrownTotals(c, R) == [blocks |-> totals.blocks + Cardinality(Added(c, R)),
                      messages |-> totals.messages + Messages(Added(c, R))]

LEMMA StoreGrows ==
  ASSUME NEW c \in StoreChannels, NEW R, R \subseteq Record, R # {},
         Stored(blocks, channels, totals), Store(c, R)
  PROVE  /\ /\ Stored(blocks, WithRow(c), totals)
            /\ c \in DOMAIN WithRow(c) /\ WithRow(c)[c] \in ChannelRow
         /\ Stored(Grown(c, R), GrownRows(c, R), GrownTotals(c, R))
         /\ Overlapping(c, R) \subseteq OfIn(blocks, c)
         /\ Fresh(c, R) \subseteq R /\ Fresh(c, R) \subseteq Best(R)
         /\ Added(c, R) \subseteq Block /\ IsFiniteSet(Added(c, R))
         /\ \A b \in Added(c, R) : b.channel = c /\ b.records \subseteq Fresh(c, R)
         /\ \A u \in Enlarged(c, R) : \E b \in Overlapping(c, R) : u = Up(b, R)
         /\ \A a \in OfIn((blocks \ Overlapping(c, R)) \cup Enlarged(c, R), c), b \in Added(c, R) :
              \A r \in a.records, s \in b.records : r.at # s.at
         /\ blocks' = Grown(c, R) \ Dropped(c, R)
         /\ Dropped(c, R) \subseteq GrownOf(c, R) /\ GrownOf(c, R) = OfIn(Grown(c, R), c)
         /\ totals' = Counted(Added(c, R), Dropped(c, R))
         /\ channels' = [WithRow(c) EXCEPT
                           ![c].next = @ + Cardinality(Added(c, R)),
                           ![c].retained = Less(Retaining(c, R), Messages(Dropped(c, R)))]
         /\ physical' = Max({physical, Messages(blocks \cup Added(c, R))})
<1> DEFINE O == Overlapping(c, R)
           F == {r \in Best(R) : \A b \in O : r.at \notin Times(b.records)}
           N == Created(c, F)
           U == Upgraded(O, R)
           mine == (Of(c) \ O) \cup U \cup N
           ch1 == WithRow(c)
           retained == ch1[c].retained + Messages(N)
           T == IF N = {} THEN {} ELSE Trimmed(mine, retained)
           B1 == (blocks \ O) \cup U
           B2 == B1 \cup N
           ch2 == [ch1 EXCEPT ![c].next = @ + Cardinality(N), ![c].retained = @ + Messages(N)]
           t2 == [blocks |-> totals.blocks + Cardinality(N),
                  messages |-> totals.messages + Messages(N)]
<1>1. /\ \A b \in N : b.id <= MaxBlockId
      /\ blocks' = (blocks \ Of(c)) \cup (mine \ T)
      /\ totals' = Counted(N, T)
      /\ channels' = [ch1 EXCEPT ![c].next = @ + Cardinality(N),
                                 ![c].retained = Less(retained, Messages(T))]
      /\ physical' = Max({physical, Messages(blocks \cup N)})
  <2>1. WriteBlocks(c, N, mine, retained, T)
    BY Zenon DEF Store
  <2> HIDE DEF N, mine, retained, T
  <2> QED BY <2>1 DEF WriteBlocks
<1>2. T \subseteq mine /\ O \subseteq OfIn(blocks, c) /\ Of(c) = OfIn(blocks, c)
  BY DEF Trimmed, Overlapping, Of, OfIn
<1> HIDE DEF T
<1>3. blocks \subseteq Block /\ IsFiniteSet(blocks)
  BY StoredIsFinite DEF Stored
<1>4. Stored(blocks, ch1, totals) /\ c \in DOMAIN ch1
  BY RowKeeps
<1>5. /\ Stored(B1, ch1, totals)
      /\ \A u \in U : u.channel = c
      /\ \A u \in U : \E b \in O : u = Up(b, R)
  BY <1>2, <1>4, UpgradingKeeps
<1>6. ch1[c] \in ChannelRow /\ ch1[c].next \in Nat /\ ch1[c].retained \in Nat
  BY <1>4 DEF Stored, ChannelRow
<1>7. NextId \in Nat \ {0} /\ \A b \in blocks : b.id < NextId
  <2> DEFINE ids == {b.id : b \in blocks} \cup {0}
  <2>1. ids \subseteq 0 .. MaxBlockId /\ ids # {}
    BY <1>3, StoreNumbers DEF Block
  <2>2. \E m \in ids : \A o \in ids : m >= o
    <3>1. 0 \in Int /\ MaxBlockId \in Int
      BY StoreNumbers
    <3>2. \E m \in ids : \A o \in ids : o <= m
      <4> HIDE DEF ids
      <4> QED BY <2>1, <3>1, Extremes
    <3>3. \A o \in ids : o \in Int
      BY <2>1, StoreNumbers
    <3> HIDE DEF ids
    <3> QED BY <3>2, <3>3
  <2>3. Max(ids) \in ids /\ \A o \in ids : Max(ids) >= o
    BY <2>2 DEF Max
  <2>4. NextId = 1 + Max(ids) /\ \A b \in blocks : b.id \in ids
    BY DEF NextId
  <2> HIDE DEF ids
  <2>5. \A i \in ids : i \in Nat
    BY <2>1, StoreNumbers
  <2>6. Max(ids) \in Nat
    BY <2>3, <2>5
  <2>7. \A b \in blocks : b.id \in Nat /\ Max(ids) >= b.id
    BY <2>3, <2>4, <2>5
  <2>8. NextId \in Nat \ {0}
    BY <2>4, <2>6
  <2> QED BY <2>4, <2>6, <2>7, <2>8
<1>8. F \subseteq Best(R) /\ Best(R) \subseteq R /\ F \subseteq Record /\ UniqueTimes(F)
  BY BestCopies DEF UniqueTimes
<1>9. /\ N \subseteq Block /\ IsFiniteSet(N) /\ Cardinality(N) \in Nat
      /\ \A b \in N : /\ b.id >= NextId /\ b.channel = c /\ b.records \subseteq F
                      /\ b.sequence >= ch1[c].next
                      /\ b.sequence < ch1[c].next + Cardinality(N)
                      /\ Cardinality(b.records) <= BlockMessages
      /\ \A a, b \in N : /\ a.id = b.id => a = b
                         /\ a.sequence = b.sequence => a = b
                         /\ a.records \cap b.records # {} => a = b
  <2>1. N = NewBlocks(F, c, NextId, ch1[c].next)
    BY CreatedAreNew
  <2>2. \A b \in NewBlocks(F, c, NextId, ch1[c].next) : b.id <= MaxBlockId
    BY <1>1, <2>1
  <2> HIDE DEF N, F, ch1
  <2> QED BY <1>6, <1>7, <1>8, <2>1, <2>2, NewBlocksAreSound
<1> HIDE DEF N
<1>10. ASSUME NEW a \in OfIn(B1, c), NEW b \in N, NEW r \in a.records, NEW s \in b.records
       PROVE  r.at # s.at
  <2>1. s \in F /\ s \in R
    BY <1>8, <1>9
  <2>2. CASE a \in U
    <3>1. PICK o \in O : a = Up(o, R)
      BY <1>5, <2>2
    <3>2. r.at \in Times(o.records)
      <4>1. o \in Block
        BY <1>2, <1>3 DEF OfIn
      <4>2. Times(a.records) = Times(o.records)
        BY <3>1, <4>1, UpgradeKeeps
      <4> QED BY <4>2 DEF Times
    <3> QED BY <2>1, <3>2
  <2>3. CASE a \in Of(c) \ O
    <3>1. a \in blocks /\ a.records \subseteq Record /\ a.records # {}
      BY <1>3, <2>3 DEF Of, Block
    <3>2. ~(Latest(a) >= Min(Times(R)) /\ Min(Times(a.records)) <= Newest(R))
      BY <2>3 DEF Overlapping
    <3>3. /\ Min(Times(R)) <= s.at /\ s.at <= Newest(R)
          /\ Min(Times(R)) \in Nat /\ Newest(R) \in Nat
      BY <2>1, TimesAreBounded
    <3>4. /\ Min(Times(a.records)) <= r.at /\ r.at <= Latest(a)
          /\ Min(Times(a.records)) \in Nat /\ Latest(a) \in Nat
      BY <3>1, TimesAreBounded DEF Latest
    <3>5. r.at \in Nat /\ s.at \in Nat
      BY <2>1, <3>1, RecordFields
    <3> QED BY <3>2, <3>3, <3>4, <3>5
  <2> QED BY <2>2, <2>3 DEF OfIn, Of
<1>11. UniqueIds(N) /\ UniqueSequences(N) /\ UniqueEvents(N)
  <2>1. UniqueIds(N) /\ UniqueSequences(N)
    BY <1>9 DEF UniqueIds, UniqueSequences
  <2>2. ASSUME NEW a \in N, NEW b \in N, NEW r \in a.records, NEW s \in b.records, r.at = s.at
        PROVE  a = b /\ r = s
    <3>1. r = s
      BY <1>8, <1>9, <2>2 DEF UniqueTimes
    <3> QED BY <1>9, <3>1
  <2> QED BY <2>1, <2>2 DEF UniqueEvents
<1>12. \A a \in B1, b \in N : a.id < b.id
  <2>1. \A u \in U : \E b \in O : u.id = b.id
    <3>1. \A b \in O : Up(b, R).id = b.id
      BY <1>2, <1>3, UpgradeKeeps DEF OfIn
    <3> QED BY <1>5, <3>1
  <2>2. \A a \in B1 : \E b \in blocks : a.id = b.id
    BY <1>2, <2>1 DEF OfIn
  <2>3. \A b \in blocks : b.id \in Nat
    BY <1>3 DEF Block
  <2>4. \A b \in N : b.id \in Nat
    BY <1>9 DEF Block
  <2> QED BY <1>7, <1>9, <2>2, <2>3, <2>4
<1>13. Stored(B2, ch2, t2)
  <2> HIDE DEF B1, ch1
  <2> QED BY <1>4, <1>5, <1>9, <1>10, <1>11, <1>12, AddingKeeps
<1>14. blocks' = B2 \ T /\ mine = OfIn(B2, c)
  <2>1. \A b \in mine : b.channel = c
    BY <1>5, <1>9 DEF Of
  <2>2. \A b \in blocks : b \in Of(c) <=> b.channel = c
    BY DEF Of
  <2>3. mine \subseteq B2 /\ B2 = (blocks \ Of(c)) \cup mine
    BY <1>2 DEF OfIn
  <2> HIDE DEF mine, B2
  <2> QED BY <1>1, <1>2, <2>1, <2>2, <2>3 DEF OfIn
<1>15. F \subseteq R
  BY <1>8
<1> QED BY <1>1, <1>2, <1>4, <1>5, <1>6, <1>8, <1>9, <1>10, <1>13, <1>14, <1>15, Zenon
       DEF N, T, Fresh, Added, Enlarged, Grown, GrownOf, Retaining, Dropped, GrownRows,
           GrownTotals

LEMMA StoreKeeps ==
  ASSUME NEW c \in StoreChannels, NEW R, R \subseteq Record, R # {},
         Stored(blocks, channels, totals), physical \in Nat, Store(c, R)
  PROVE  Stored(blocks', channels', totals') /\ physical' \in Nat
<1> DEFINE N == Added(c, R)
           mine == GrownOf(c, R)
           ch1 == WithRow(c)
           retained == Retaining(c, R)
           T == Dropped(c, R)
           B2 == Grown(c, R)
           ch2 == GrownRows(c, R)
           t2 == GrownTotals(c, R)
<1>1. /\ Stored(blocks, ch1, totals) /\ c \in DOMAIN ch1 /\ ch1[c] \in ChannelRow
      /\ Stored(B2, ch2, t2)
      /\ N \subseteq Block /\ IsFiniteSet(N)
      /\ blocks' = B2 \ T /\ T \subseteq mine /\ mine = OfIn(B2, c)
      /\ totals' = Counted(N, T)
      /\ channels' = [ch1 EXCEPT ![c].next = @ + Cardinality(N),
                                 ![c].retained = Less(retained, Messages(T))]
      /\ physical' = Max({physical, Messages(blocks \cup N)})
  BY StoreGrows
<1>2. T \subseteq B2 /\ \A b \in T : b.channel = c
  <2> HIDE DEF B2, mine
  <2> QED BY <1>1 DEF OfIn
<1>3. blocks \subseteq Block /\ IsFiniteSet(blocks)
  BY StoredIsFinite DEF Stored
<1> DEFINE ch3 == [d \in DOMAIN ch2 |->
                     [ch2[d] EXCEPT !.retained = Less(@, Messages(OfIn(T, d)))]]
<1>4. /\ DOMAIN ch2 = DOMAIN ch1 /\ \A d \in DOMAIN ch1 \ {c} : ch2[d] = ch1[d]
      /\ ch2[c] = [ch1[c] EXCEPT !.next = @ + Cardinality(N), !.retained = @ + Messages(N)]
  BY <1>1 DEF Stored, GrownRows
<1>5. /\ DOMAIN channels' = DOMAIN ch1 /\ \A d \in DOMAIN ch1 \ {c} : channels'[d] = ch1[d]
      /\ channels'[c] = [ch1[c] EXCEPT !.next = @ + Cardinality(N),
                                       !.retained = Less(retained, Messages(T))]
      /\ channels' = [d \in DOMAIN ch1 |-> channels'[d]]
  BY <1>1 DEF Stored
<1>6. channels' = ch3
  <2>1. ASSUME NEW d \in DOMAIN ch1, d # c PROVE ch3[d] = channels'[d]
    <3>1. OfIn(T, d) = {}
      BY <1>1, <1>2, <2>1 DEF OfIn
    <3>2. ch1[d] \in ChannelRow
      BY <1>1 DEF Stored
    <3>3. ch3[d] = [ch1[d] EXCEPT !.retained = Less(@, Messages(OfIn(T, d)))]
      BY <1>4, <2>1
    <3> HIDE DEF ch3, ch1
    <3>4. Less(ch1[d].retained, 0) = ch1[d].retained
      BY <3>2 DEF ChannelRow, Less
    <3>5. [ch1[d] EXCEPT !.retained = ch1[d].retained] = ch1[d]
      BY <3>2 DEF ChannelRow
    <3> QED BY <1>5, <2>1, <3>1, <3>3, <3>4, <3>5, NoBlocks
  <2>2. ch3[c] = channels'[c]
    <3>1. OfIn(T, c) = T
      BY <1>1, <1>2 DEF OfIn
    <3>2. ch3[c] = [ch2[c] EXCEPT !.retained = Less(@, Messages(T))]
      BY <1>1, <1>4, <3>1
    <3>3. ch1[c] \in ChannelRow
      BY <1>1
    <3>4. retained = ch1[c].retained + Messages(N)
      BY DEF Retaining
    <3> HIDE DEF ch1, ch2, ch3, retained
    <3> QED BY <1>4, <1>5, <3>2, <3>3, <3>4 DEF ChannelRow
  <2>3. DOMAIN ch3 = DOMAIN ch1 /\ ch3 = [d \in DOMAIN ch1 |-> ch3[d]]
    BY <1>4
  <2> HIDE DEF ch1, ch2, ch3
  <2> QED BY <1>1, <1>5, <2>1, <2>2, <2>3
<1>7. totals' = Reduced(t2, T)
  BY <1>1 DEF Counted, Reduced, GrownTotals
<1>8. Stored(blocks', channels', totals')
  <2>1. Stored(B2 \ T, ch3, Reduced(t2, T))
    <3> HIDE DEF B2, ch2, t2
    <3> QED BY <1>1, <1>1, <1>2, DeletingKeeps
  <2> HIDE DEF B2, ch3, t2
  <2> QED BY <1>1, <1>2, <1>6, <1>7, <2>1
<1>9. physical' \in Nat
  <2>1. Messages(blocks \cup N) \in Nat
    <3>1. IsFiniteSet(blocks \cup N)
      BY <1>3, <1>1, FS_Union
    <3> QED BY <1>3, <1>1, <3>1, MessagesAreCounted
  <2>2. \A m, n \in Nat : Max({m, n}) \in Nat
    BY DEF Max
  <2> QED BY <1>1, <2>1, <2>2
<1> QED BY <1>8, <1>9
-----------------------------------------------------------------------------
\* The rest of the state, with the passes a plan may still take.
Places ==
  /\ excluded \subseteq Blockable /\ always \subseteq Pinnable
  /\ expiring \in 0 .. MaxStoreClock /\ physical \in Nat
  /\ stopped \in BOOLEAN /\ wall \in 1 .. MaxStoreClock
  /\ plan # NoPlan => /\ plan.stage \in {"plan", "evict", "measure"}
                      /\ plan.pass \in 0 .. MaxPasses
                      /\ plan.stage # "measure" => plan.pass # MaxPasses

StoreInv == Stored(blocks, channels, totals) /\ Places

LEMMA StoreInvSuffices ==
  ASSUME StoreInv PROVE StoreTypeOK /\ CountersAreExact /\ EventsAreUnique
<1> USE DEF StoreInv
<1>1. EventsAreUnique
  BY DEF Stored, UniqueEvents, EventsAreUnique
<1>2. CountersAreExact
  BY DEF Stored, UniqueIds, UniqueSequences, OfIn, Of, CountersAreExact
<1>3. /\ \A b \in blocks : /\ b.id \in 1 .. MaxBlockId /\ b.channel \in StoreChannels
                           /\ b.sequence \in Nat /\ b.records # {} /\ b.records \subseteq Record
                           /\ Cardinality(b.records) <= BlockMessages
      /\ DOMAIN channels \subseteq StoreChannels
      /\ \A c \in DOMAIN channels : channels[c] \in [next : Nat, retained : Nat, requested : Nat]
  BY DEF Stored, Block, ChannelRow
<1>4. totals \in [blocks : Nat, messages : Nat]
  <2>1. Cardinality(blocks) \in Nat /\ Messages(blocks) \in Nat
    BY StoredIsFinite, MessagesAreCounted, FS_CardinalityType DEF Stored
  <2> QED BY <2>1 DEF Stored
<1> QED BY <1>1, <1>2, <1>3, <1>4 DEF StoreTypeOK, Places

\* Messages of the whole store, as the file's size is measured.
LEMMA SizeIsNatural ==
  ASSUME NEW B, NEW ch, NEW t, Stored(B, ch, t) PROVE Messages(B) \in Nat
  BY StoredIsFinite, MessagesAreCounted DEF Stored

\* A request changes no counter.
LEMMA RequestingKeeps ==
  ASSUME NEW c \in StoreChannels, NEW time \in Nat, Stored(blocks, channels, totals)
  PROVE  Stored(blocks, [WithRow(c) EXCEPT ![c].requested = time], totals)
<1> DEFINE ch1 == WithRow(c)
           ch2 == [ch1 EXCEPT ![c].requested = time]
<1>1. Stored(blocks, ch1, totals) /\ c \in DOMAIN ch1
  BY RowKeeps
<1> HIDE DEF ch1
<1>2. /\ DOMAIN ch2 = DOMAIN ch1 /\ \A d \in DOMAIN ch1 \ {c} : ch2[d] = ch1[d]
      /\ ch2[c] = [ch1[c] EXCEPT !.requested = time]
      /\ ch2 = [d \in DOMAIN ch1 |-> ch2[d]]
  BY <1>1 DEF Stored
<1> HIDE DEF ch2
<1>3. ch1 \in [DOMAIN ch1 -> ChannelRow]
  BY <1>1 DEF Stored
<1>4. \A d \in DOMAIN ch1 : /\ ch2[d] \in ChannelRow /\ ch2[d].next = ch1[d].next
                            /\ ch2[d].retained = ch1[d].retained
  BY <1>2, <1>3 DEF ChannelRow
<1>5. ch2 \in [DOMAIN ch2 -> ChannelRow]
  BY <1>2, <1>4
<1> QED BY <1>1, <1>2, <1>4, <1>5 DEF Stored, ch1, ch2

LEMMA DroppedIsStored ==
  ASSUME NEW S, Stored(blocks, channels, totals), DropChannels(S)
  PROVE  /\ Stored(blocks', channels', totals')
         /\ blocks \ blocks' = {b \in blocks : b.channel \in S}
<1> DEFINE D == {b \in blocks : b.channel \in S}
<1>1. UNION {Of(c) : c \in S} = D
  BY DEF Of
<1>2. blocks' = blocks \ D /\ totals' = Counted({}, D) /\ channels' = Without(channels, S)
  BY <1>1 DEF DropChannels
<1>3. Stored(blocks \ D, Without(channels, S), Reduced(totals, D))
  BY DroppingKeeps
<1>4. totals' = Reduced(totals, D)
  <2>1. /\ totals.blocks \in Nat /\ totals.messages \in Nat
    BY StoredIsFinite, SizeIsNatural, FS_CardinalityType DEF Stored
  <2> HIDE DEF D
  <2> QED BY <1>2, <2>1, NoBlocks DEF Counted, Reduced
<1> QED BY <1>2, <1>3, <1>4

LEMMA ReleasedIsStored ==
  ASSUME NEW D, D \subseteq blocks, Stored(blocks, channels, totals)
  PROVE  Stored(blocks \ D, Released(D), Counted({}, D))
<1>1. Released(D) = [c \in DOMAIN channels |->
                       [channels[c] EXCEPT !.retained = Less(@, Messages(OfIn(D, c)))]]
  BY DEF Released, OfIn
<1>2. Counted({}, D) = Reduced(totals, D)
  <2>1. /\ totals.blocks \in Nat /\ totals.messages \in Nat
    BY StoredIsFinite, SizeIsNatural, FS_CardinalityType DEF Stored
  <2> QED BY <2>1, NoBlocks DEF Counted, Reduced
<1> QED BY <1>1, <1>2, DeletingKeeps

LEMMA StoreStep == StoreInv /\ [StoreNext]_storeVars => StoreInv'
<1> SUFFICES ASSUME StoreInv, [StoreNext]_storeVars PROVE StoreInv'
  OBVIOUS
<1> USE StoreNumbers
<1> DEFINE Tables == Stored(blocks, channels, totals)
<1>1. Tables /\ Places
  BY DEF StoreInv
<1>2. ASSUME NEW c \in StoreChannels, AppendBatch(c) PROVE StoreInv'
  <2>1. PICK batch \in Batches : batch.channel = c /\ Store(c, batch.records)
    BY <1>2 DEF AppendBatch
  <2>2. batch.records \subseteq Record /\ batch.records # {}
    BY StoreAssumption
  <2>3. Tables' /\ physical' \in Nat
    BY <1>1, <2>1, <2>2, StoreKeeps DEF Places
  <2> QED BY <1>1, <1>2, <2>3 DEF AppendBatch, StoreInv, Places
<1>3. ASSUME NEW c \in StoreChannels, TouchChannelRequested(c) PROVE StoreInv'
  <2>1. wall \in Nat
    BY <1>1 DEF Places
  <2>2. Tables'
    BY <1>1, <1>3, <2>1, RequestingKeeps DEF TouchChannelRequested
  <2> QED BY <1>1, <1>3, <2>2 DEF TouchChannelRequested, StoreInv, Places
<1>4. ASSUME NEW c \in StoreChannels, PurgeChannel(c) PROVE StoreInv'
  <2>1. Tables'
    BY <1>1, <1>4, DroppedIsStored DEF PurgeChannel
  <2> QED BY <1>1, <1>4, <2>1 DEF PurgeChannel, StoreInv, Places
<1>5. ASSUME NEW c \in Blockable, NEW b \in BOOLEAN, SetChannelBlocked(c, b) PROVE StoreInv'
  <2>1. Tables'
    BY <1>1, <1>5, DroppedIsStored DEF SetChannelBlocked
  <2>2. excluded' \subseteq Blockable
    BY <1>1, <1>5 DEF SetChannelBlocked, Places
  <2> QED BY <1>1, <1>5, <2>1, <2>2 DEF SetChannelBlocked, StoreInv, Places
<1>6. ASSUME NEW S \in SUBSET Pinnable, SyncAlwaysJoinChannels(S) PROVE StoreInv'
  BY <1>1, <1>6 DEF SyncAlwaysJoinChannels, StoreInv, Places
<1>7. CASE StartExpiry
  <2>1. expiring' \in 0 .. MaxStoreClock
    BY <1>1, <1>7 DEF StartExpiry, Since, Less, Places
  <2> QED BY <1>1, <1>7, <2>1 DEF StartExpiry, StoreInv, Places
<1>8. CASE ExpireBlocks
  <2>1. PICK D \in SUBSET blocks : /\ blocks' = blocks \ D /\ totals' = Counted({}, D)
                                   /\ channels' = Released(D)
    BY <1>8 DEF ExpireBlocks, Expired
  <2>2. Tables'
    BY <1>1, <2>1, ReleasedIsStored
  <2> QED BY <1>1, <1>8, <2>2 DEF ExpireBlocks, StoreInv, Places
<1>9. CASE FinishExpiry
  <2>1. Tables'
    BY <1>1, <1>9, DroppedIsStored DEF FinishExpiry
  <2>2. physical' \in Nat /\ expiring' = 0
    BY <1>1, <1>9, <2>1, SizeIsNatural DEF FinishExpiry, Places
  <2> QED BY <1>1, <1>9, <2>1, <2>2 DEF FinishExpiry, StoreInv, Places
<1>10. CASE MaintainSpace
  <2>1. physical' \in Nat
    BY <1>1, <1>10, SizeIsNatural DEF MaintainSpace
  <2> QED BY <1>1, <1>10, <2>1 DEF MaintainSpace, StoreInv, Places
<1>11. CASE Measure
  <2>1. UNCHANGED <<blocks, channels, totals, excluded, always, expiring, physical, wall>>
    BY <1>11 DEF Measure
  <2>2. CASE plan = NoPlan /\ plan' = [stage |-> "plan", pass |-> 0, current |-> physical]
             /\ stopped' = stopped
    BY <1>1, <2>1, <2>2 DEF StoreInv, Places
  <2>3. CASE plan # NoPlan /\ plan.stage = "measure" /\ plan.pass < MaxPasses
             /\ plan' = [stage |-> "plan", pass |-> plan.pass, current |-> physical]
             /\ stopped' = stopped
    BY <1>1, <2>1, <2>3 DEF StoreInv, Places
  <2>4. CASE plan' = NoPlan /\ stopped' = (physical >= plan.high)
    BY <1>1, <2>1, <2>4 DEF StoreInv, Places
  <2> QED BY <1>11, <2>2, <2>3, <2>4, Zenon DEF Measure
<1>12. ASSUME NEW c \in Ceilings, PlanEviction(c) PROVE StoreInv'
  <2>1. Tables'
    BY <1>1, <1>12 DEF PlanEviction
  <2>2. PICK chosen : \/ plan' = NoPlan /\ (stopped' = stopped \/ stopped' = TRUE)
                      \/ /\ plan' = [stage |-> "evict", pass |-> plan.pass, high |-> c.high,
                                     ids |-> chosen.ids, emergency |-> plan.current >= c.emergency,
                                     wanted |-> {d \in DOMAIN channels : Tier(d) >= 2}]
                         /\ stopped' = stopped
    BY <1>12 DEF PlanEviction
  <2>3. plan # NoPlan /\ plan.stage = "plan"
    BY <1>12 DEF PlanEviction
  <2>4. /\ plan' # NoPlan => plan'.stage = "evict" /\ plan'.pass = plan.pass
        /\ stopped' \in BOOLEAN
    <3>1. plan' # NoPlan => plan'.stage = "evict" /\ plan'.pass = plan.pass
      <4>1. PICK ids, emergency, wanted :
              plan' # NoPlan =>
                plan' = [stage |-> "evict", pass |-> plan.pass, high |-> c.high, ids |-> ids,
                         emergency |-> emergency, wanted |-> wanted]
        BY <2>2, Zenon
      <4> QED BY <4>1
    <3>2. stopped' \in BOOLEAN
      BY <1>1, <2>2, Zenon DEF Places
    <3> QED BY <3>1, <3>2
  <2>5. UNCHANGED <<excluded, always, expiring, physical, wall>>
    BY <1>12 DEF PlanEviction
  <2> QED BY <1>1, <2>1, <2>3, <2>4, <2>5 DEF StoreInv, Places
<1>13. CASE EvictBlocks
  <2>1. PICK D \in SUBSET blocks : /\ blocks' = blocks \ D /\ totals' = Counted({}, D)
                                   /\ channels' = Released(D)
    BY <1>13 DEF EvictBlocks
  <2>2. Tables'
    BY <1>1, <2>1, ReleasedIsStored
  <2>3. physical' \in Nat
    BY <1>1, <1>13, <2>2, SizeIsNatural DEF EvictBlocks, Places
  <2>4. plan'.stage = "measure" /\ plan'.pass \in 0 .. MaxPasses
    BY <1>1, <1>13 DEF EvictBlocks, Places
  <2> QED BY <1>1, <1>13, <2>2, <2>3, <2>4 DEF EvictBlocks, StoreInv, Places
<1>14. CASE RestartStore
  <2>1. PICK S \in SUBSET Blockable : excluded' = S /\ DropChannels(S)
    BY <1>14 DEF RestartStore, SyncBlockedChannels
  <2>2. Tables'
    BY <1>1, <2>1, DroppedIsStored
  <2>3. /\ expiring' = 0 /\ plan' = NoPlan /\ stopped' = FALSE
        /\ UNCHANGED <<always, physical, wall>>
    BY <1>14 DEF RestartStore
  <2>4. stopped' \in BOOLEAN
    BY <2>3, Zenon
  <2>5. Places'
    BY <1>1, <2>1, <2>3, <2>4 DEF Places
  <2> QED BY <2>2, <2>5 DEF StoreInv
<1>15. CASE PassTime
  <2>1. wall' \in 1 .. MaxStoreClock
    BY <1>1, <1>15 DEF PassTime, Places
  <2> QED BY <1>1, <1>15, <2>1 DEF PassTime, StoreInv, Places
<1>16. CASE UNCHANGED storeVars
  BY <1>1, <1>16 DEF storeVars, StoreInv, Places
<1> QED BY <1>2, <1>3, <1>4, <1>5, <1>6, <1>7, <1>8, <1>9, <1>10, <1>11, <1>12, <1>13, <1>14,
           <1>15, <1>16 DEF StoreNext

LEMMA StoreInitially == StoreInit => StoreInv
<1> SUFFICES ASSUME StoreInit PROVE StoreInv
  OBVIOUS
<1>1. DOMAIN channels = {} /\ channels = [c \in {} |-> NoRow]
  BY DEF StoreInit
<1>2. channels \in [DOMAIN channels -> ChannelRow]
  BY <1>1
<1>3. Stored(blocks, channels, totals)
  BY <1>1, <1>2, NoBlocks
  DEF StoreInit, Stored, UniqueEvents, UniqueIds, UniqueSequences
<1>4. /\ excluded = {} /\ always = {} /\ expiring = 0 /\ plan = NoPlan /\ physical = 0
      /\ stopped = FALSE /\ wall = 1
  BY DEF StoreInit
<1>5. stopped \in BOOLEAN
  BY <1>4, Zenon
<1>6. Places
  BY <1>4, <1>5, StoreNumbers DEF Places
<1> QED BY <1>3, <1>6 DEF StoreInv

LEMMA StoreInvariant == StoreSpec => []StoreInv
<1> QED BY StoreInitially, StoreStep, PTL DEF StoreSpec

\* For any channels, batches, bounds and ceilings: the rows of the store stay type
\* correct, and a block never holds more than BlockMessages records.
THEOREM StoreIsTyped == StoreSpec => []StoreTypeOK
<1>1. StoreInv => StoreTypeOK
  BY StoreInvSuffices
<1> QED BY <1>1, StoreInvariant, PTL

\* What the triggers and the statements of a batch count is what the blocks hold,
\* through every append, upgrade, trim, expiry, purge, block, eviction and restart.
THEOREM CountersFollowBlocks == StoreSpec => []CountersAreExact
<1>1. StoreInv => CountersAreExact
  BY StoreInvSuffices
<1> QED BY <1>1, StoreInvariant, PTL

\* However batches replay and overlap, an event is in one block and once in it.
THEOREM EventsAppearOnce == StoreSpec => []EventsAreUnique
<1>1. StoreInv => EventsAreUnique
  BY StoreInvSuffices
<1> QED BY <1>1, StoreInvariant, PTL

\* Retention takes expired blocks only: the row it deletes last has none, because
\* the counter that says so is exact.
THEOREM RetentionTakesExpired == StoreSpec => ExpiryTakesOnlyExpired
<1>1. ASSUME StoreInv, [StoreNext]_storeVars, expiring > 0, NEW b \in blocks \ blocks'
      PROVE  Latest(b) < expiring \/ b.channel \in excluded'
  <2>1. Stored(blocks, channels, totals)
    BY <1>1 DEF StoreInv
  <2>2. expiring # 0
    BY <1>1
  <2>3. ~WriterFree /\ blocks' # blocks
    BY <1>1, <2>2 DEF WriterFree
  <2>4. ExpireBlocks \/ FinishExpiry \/ RestartStore
    BY <1>1, <2>3, Zenon
    DEF StoreNext, AppendBatch, TouchChannelRequested, PurgeChannel, SetChannelBlocked,
        SyncAlwaysJoinChannels, StartExpiry, MaintainSpace, Measure, PlanEviction, EvictBlocks,
        PassTime, storeVars
  <2>5. CASE ExpireBlocks
    <3>1. b \in Expired
      BY <1>1, <2>5 DEF ExpireBlocks
    <3> QED BY <3>1 DEF Expired
  <2>6. CASE FinishExpiry
    <3>1. b \in blocks /\ b.channel \in Idle
      BY <1>1, <2>1, <2>6, DroppedIsStored DEF FinishExpiry
    <3>2. b.channel \in DOMAIN channels /\ Messages(OfIn(blocks, b.channel)) = 0
      BY <2>1, <3>1 DEF Idle, Stored
    <3>3. OfIn(blocks, b.channel) = {}
      BY <2>1, <3>2, StoredIsFinite, NoMessages
    <3> QED BY <3>1, <3>3 DEF OfIn
  <2>7. CASE RestartStore
    <3>1. PICK S \in SUBSET Blockable : excluded' = S /\ DropChannels(S)
      BY <2>7 DEF RestartStore, SyncBlockedChannels
    <3> QED BY <1>1, <2>1, <3>1, DroppedIsStored
  <2> QED BY <2>4, <2>5, <2>6, <2>7
<1>2. StoreInv /\ [StoreNext]_storeVars =>
        [expiring > 0 =>
           \A b \in blocks \ blocks' : (Latest(b) < expiring \/ b.channel \in excluded')]_storeVars
  BY <1>1
<1> QED BY <1>2, StoreInvariant, PTL DEF StoreSpec, ExpiryTakesOnlyExpired
-----------------------------------------------------------------------------
(* The plan of an eviction *)

\* Among sets of blocks, one with the fewest members.
LEMMA Fewest ==
  ASSUME NEW S, IsFiniteSet(S), NEW P, P \subseteq SUBSET S, P # {}
  PROVE  \E s \in P : \A t \in P : Cardinality(s) <= Cardinality(t)
<1> DEFINE D == {Cardinality(s) : s \in P}
           N == Cardinality(S)
<1>1. N \in Nat /\ \A s \in SUBSET S : IsFiniteSet(s) /\ Cardinality(s) \in Nat /\ Cardinality(s) <= N
  BY FS_Subset, FS_CardinalityType
<1>2. D \subseteq 0 .. N /\ D # {} /\ 0 \in Int /\ N \in Int
  <2> HIDE DEF N
  <2> QED BY <1>1
<1>3. PICK d \in D : \A e \in D : d <= e
  <2> HIDE DEF D, N
  <2> QED BY <1>2, Extremes
<1> QED BY <1>3

LEMMA OneLess ==
  ASSUME NEW S, IsFiniteSet(S), NEW s \in SUBSET S, NEW x \in s
  PROVE  /\ s \ {x} \in SUBSET S
         /\ Cardinality(s) \in Nat /\ Cardinality(s \ {x}) = Cardinality(s) - 1
<1>1. IsFiniteSet(s)
  BY FS_Subset
<1> QED BY <1>1, FS_RemoveElement, FS_CardinalityType

\* The order in which plan_pressure_eviction considers blocks.
LEMMA KeysAreNumbers ==
  ASSUME StoreInv, NEW b \in blocks
  PROVE  /\ Tier(b.channel) \in 0 .. 3 /\ channels[b.channel].requested \in Nat
         /\ Latest(b) \in Nat /\ b.id \in Nat /\ b.channel \in DOMAIN channels
         /\ FloorOf(b.channel) \in Nat /\ (Tier(b.channel) = 0 => FloorOf(b.channel) = 0)
<1>1. /\ b \in Block /\ b.channel \in DOMAIN channels
      /\ channels[b.channel] \in ChannelRow
  BY DEF StoreInv, Stored
<1>2. b.id \in Nat /\ b.records \subseteq Record /\ b.records # {}
  BY <1>1, StoreNumbers DEF Block
<1>3. Tier(b.channel) \in 0 .. 3
  BY DEF Tier
<1>4. Floor \in Nat
  BY StoreAssumption
<1> QED BY <1>1, <1>2, <1>3, <1>4, TimesAreBounded DEF ChannelRow, Latest, FloorOf

LEMMA BeforeByKey ==
  ASSUME NEW a, NEW b
  PROVE  Before(a, b) <=>
           LET k == channels[a.channel].requested
               l == channels[b.channel].requested
           IN \/ Tier(a.channel) < Tier(b.channel)
              \/ /\ Tier(a.channel) = Tier(b.channel)
                 /\ \/ k < l
                    \/ /\ k = l
                       /\ \/ Latest(a) < Latest(b)
                          \/ Latest(a) = Latest(b) /\ a.id < b.id
<1> DEFINE ka == <<Tier(a.channel), channels[a.channel].requested, Latest(a), a.id>>
           kb == <<Tier(b.channel), channels[b.channel].requested, Latest(b), b.id>>
<1>1. Before(a, b) <=> \E i \in 1 .. 4 : ka[i] < kb[i] /\ \A j \in 1 .. i - 1 : ka[j] = kb[j]
  BY DEF Before
<1>2. \A i \in 1 .. 4 : i = 1 \/ i = 2 \/ i = 3 \/ i = 4
  OBVIOUS
<1>3. /\ 1 .. 1 - 1 = {} /\ 1 .. 2 - 1 = {1} /\ 1 .. 3 - 1 = {1, 2} /\ 1 .. 4 - 1 = {1, 2, 3}
      /\ 1 .. 4 = {1, 2, 3, 4}
  OBVIOUS
<1>4. Before(a, b) <=>
        \/ ka[1] < kb[1]
        \/ ka[2] < kb[2] /\ ka[1] = kb[1]
        \/ ka[3] < kb[3] /\ ka[1] = kb[1] /\ ka[2] = kb[2]
        \/ ka[4] < kb[4] /\ ka[1] = kb[1] /\ ka[2] = kb[2] /\ ka[3] = kb[3]
  <2> HIDE DEF ka, kb
  <2> QED BY <1>1, <1>3
<1> QED BY <1>4

LEMMA BeforeIsAnOrder ==
  ASSUME StoreInv, NEW a \in blocks, NEW b \in blocks, NEW c \in blocks
  PROVE  /\ Before(a, b) /\ Before(b, c) => Before(a, c)
         /\ a # b => Before(a, b) \/ Before(b, a)
         /\ Before(a, b) => ~Before(b, a)
         /\ Tier(a.channel) < Tier(b.channel) => Before(a, b)
<1>1. a # b => a.id # b.id
  BY DEF StoreInv, Stored, UniqueIds
<1> QED BY <1>1, KeysAreNumbers, BeforeByKey

LEMMA FinalIsLast ==
  ASSUME StoreInv, NEW s \in SUBSET blocks, s # {}
  PROVE  Final(s) \in s /\ \A o \in s \ {Final(s)} : Before(o, Final(s))
<1> DEFINE Has(t) == \E b \in t : \A o \in t \ {b} : Before(o, b)
           P == {t \in SUBSET blocks : t # {} /\ ~Has(t)}
<1>1. IsFiniteSet(blocks)
  BY StoredIsFinite DEF StoreInv
<1>2. P = {}
  <2> SUFFICES ASSUME P # {} PROVE FALSE
    OBVIOUS
  <2>1. PICK t \in P : \A u \in P : Cardinality(t) <= Cardinality(u)
    <3> HIDE DEF Has
    <3>1. P \subseteq SUBSET blocks
      OBVIOUS
    <3> HIDE DEF P
    <3> QED BY <1>1, <3>1, Fewest
  <2>2. PICK x \in t : TRUE
    OBVIOUS
  <2> DEFINE u == t \ {x}
  <2>3. u \in SUBSET blocks /\ Cardinality(t) \in Nat /\ Cardinality(u) = Cardinality(t) - 1
    <3>1. t \in SUBSET blocks
      OBVIOUS
    <3> HIDE DEF P
    <3> QED BY <1>1, <2>2, <3>1, OneLess
  <2>4. u \notin P
    <3> HIDE DEF P, u
    <3> QED BY <2>1, <2>3
  <2>5. CASE u = {}
    <3>1. t = {x}
      BY <2>2, <2>5
    <3>2. Has({x})
      OBVIOUS
    <3> QED BY <3>1, <3>2
  <2>6. CASE u # {}
    <3>1. PICK b \in u : \A o \in u \ {b} : Before(o, b)
      BY <2>3, <2>4, <2>6
    <3>2. b \in blocks /\ x \in blocks /\ b # x /\ u \subseteq blocks
      OBVIOUS
    <3>3. CASE Before(x, b)
      <4>1. \A o \in t \ {b} : o = x \/ o \in u \ {b}
        OBVIOUS
      <4>2. Has(t)
        BY <3>1, <3>3, <4>1
      <4> QED BY <4>2
    <3>4. CASE Before(b, x)
      <4>1. \A o \in t \ {x} : o = b \/ o \in u \ {b}
        OBVIOUS
      <4>2. \A o \in t \ {x} : Before(o, x)
        <5> HIDE DEF P, u
        <5> QED BY <3>1, <3>2, <3>4, <4>1, BeforeIsAnOrder
      <4>3. Has(t)
        BY <2>2, <4>2
      <4> QED BY <4>3
    <3> QED BY <3>2, <3>3, <3>4, BeforeIsAnOrder
  <2> QED BY <2>5, <2>6
<1>3. Has(s)
  BY <1>2
<1> QED BY <1>3, Zenon DEF Final
\* The loop over the candidates, and the loop over the deferred blocks, written as
\* functions of the blocks considered so far.
Considered(crossing, b, acc, target) ==
  IF crossing THEN Cross(b, acc, target) ELSE Consider(b, acc, target)
Planned(f, S, base, crossing, target) ==
  f = [s \in SUBSET S |-> IF s = {} THEN base
                          ELSE Considered(crossing, Final(s), f[s \ {Final(s)}], target)]

LEMMA LoopIsDefined ==
  ASSUME StoreInv, NEW S \in SUBSET blocks, NEW base, NEW crossing \in BOOLEAN, NEW target
  PROVE  \E f : Planned(f, S, base, crossing, target)
<1> DEFINE Is(f, s) == f[s] = IF s = {} THEN base
                              ELSE Considered(crossing, Final(s), f[s \ {Final(s)}], target)
           Upto(f, n) == /\ f = [s \in SUBSET S |-> f[s]]
                         /\ \A s \in SUBSET S : Cardinality(s) <= n => Is(f, s)
           N == Cardinality(S)
           D == {n \in 0 .. N : ~\E f : Upto(f, n)}
<1>1. /\ IsFiniteSet(S) /\ N \in Nat
      /\ \A s \in SUBSET S : Cardinality(s) \in 0 .. N /\ IsFiniteSet(s)
  <2>1. IsFiniteSet(blocks)
    BY StoredIsFinite DEF StoreInv
  <2>2. IsFiniteSet(S)
    BY <2>1, FS_Subset
  <2> QED BY <2>2, FS_Subset, FS_CardinalityType
<1>2. \A s \in SUBSET S : s # {} =>
        /\ Final(s) \in s /\ s \ {Final(s)} \in SUBSET S
        /\ Cardinality(s) \in Nat /\ Cardinality(s \ {Final(s)}) = Cardinality(s) - 1
  BY <1>1, FinalIsLast, OneLess
<1>3. \A s \in SUBSET S : Cardinality(s) <= 0 => s = {}
  <2> TAKE s \in SUBSET S
  <2> HAVE Cardinality(s) <= 0
  <2>1. Cardinality(s) = 0
    BY <1>1
  <2> QED BY <1>1, <2>1, FS_EmptySet
<1>4. \E f : Upto(f, 0)
  <2> DEFINE f == [s \in SUBSET S |-> base]
  <2>1. f = [s \in SUBSET S |-> f[s]] /\ f[{}] = base
    OBVIOUS
  <2>2. \A s \in SUBSET S : Cardinality(s) <= 0 => Is(f, s)
    <3> HIDE DEF f
    <3> QED BY <1>3, <2>1
  <2>3. Upto(f, 0)
    <3> HIDE DEF f, Is
    <3> QED BY <2>1, <2>2
  <2> HIDE DEF Upto, f
  <2> QED BY <2>3
<1>5. ASSUME NEW n \in 1 .. N, NEW f, Upto(f, n - 1)
      PROVE  \E g : Upto(g, n)
  <2> DEFINE Value(s) == Considered(crossing, Final(s), f[s \ {Final(s)}], target)
             g == [s \in SUBSET S |-> IF Cardinality(s) = n THEN Value(s) ELSE f[s]]
  <2>1. g = [s \in SUBSET S |-> g[s]]
    OBVIOUS
  <2>2. /\ \A s \in SUBSET S : Cardinality(s) = n => g[s] = Value(s)
        /\ \A s \in SUBSET S : Cardinality(s) # n => g[s] = f[s]
    OBVIOUS
  <2> HIDE DEF g
  <2>3. ASSUME NEW s \in SUBSET S, Cardinality(s) <= n PROVE Is(g, s)
    <3>1. CASE s = {}
      <4>1. Cardinality(s) = 0
        BY <3>1, FS_EmptySet
      <4>2. Is(f, s)
        <5>1. Cardinality(s) <= n - 1
          BY <4>1
        <5> HIDE DEF Is
        <5> QED BY <1>5, <5>1
      <4>3. g[s] = f[s]
        BY <2>2, <4>1
      <4> QED BY <3>1, <4>2, <4>3
    <3>2. CASE s # {}
      <4> DEFINE r == s \ {Final(s)}
      <4>1. r \in SUBSET S /\ Cardinality(s) \in Nat /\ Cardinality(r) = Cardinality(s) - 1
        BY <1>2, <3>2
      <4>2. g[r] = f[r]
        <5>1. Cardinality(r) # n
          BY <2>3, <4>1
        <5> HIDE DEF r
        <5> QED BY <2>2, <4>1, <5>1
      <4>3. CASE Cardinality(s) = n
        <5>1. g[s] = Considered(crossing, Final(s), f[r], target)
          BY <2>2, <4>3
        <5> QED BY <3>2, <4>2, <5>1
      <4>4. CASE Cardinality(s) # n
        <5>1. g[s] = f[s]
          BY <2>2, <4>4
        <5>2. Is(f, s)
          <6>1. Cardinality(s) <= n - 1
            BY <2>3, <4>1, <4>4
          <6> HIDE DEF Is
          <6> QED BY <1>5, <6>1
        <5>3. f[s] = Considered(crossing, Final(s), f[r], target)
          BY <3>2, <5>2
        <5> QED BY <3>2, <4>2, <5>1, <5>3
      <4> QED BY <4>3, <4>4
    <3> QED BY <3>1, <3>2
  <2>4. Upto(g, n)
    <3> HIDE DEF Is
    <3> QED BY <2>1, <2>3
  <2> HIDE DEF Upto
  <2> QED BY <2>4
<1>6. D = {}
  <2> SUFFICES ASSUME D # {} PROVE FALSE
    OBVIOUS
  <2> HIDE DEF N, Upto
  <2>1. D \subseteq 0 .. N /\ 0 \in Int /\ N \in Int
    BY <1>1
  <2>2. PICK n \in D : \A o \in D : n <= o
    <3> HIDE DEF D
    <3> QED BY <2>1, Extremes
  <2>3. n \in 1 .. N /\ n - 1 \in 0 .. N /\ n - 1 \notin D
    BY <1>4, <2>1, <2>2
  <2>4. PICK f : Upto(f, n - 1)
    BY <2>3
  <2>5. \E g : Upto(g, n)
    BY <1>5, <2>3, <2>4
  <2> QED BY <2>2, <2>5
<1>7. PICK f : Upto(f, N)
  <2> HIDE DEF Upto
  <2>1. N \in 0 .. N
    BY <1>1
  <2> QED BY <1>6, <2>1
<1>8. f = [s \in SUBSET S |-> f[s]] /\ \A s \in SUBSET S : Is(f, s)
  <2>1. \A s \in SUBSET S : Cardinality(s) <= N
    BY <1>1
  <2> HIDE DEF Is, N
  <2> QED BY <1>7, <2>1
<1>9. Planned(f, S, base, crossing, target)
  BY <1>8 DEF Planned
<1> QED BY <1>9
\* The blocks a channel keeps, and a plan while it is made.
Kept(c, ids) == Messages({b \in Of(c) : b.id \notin ids})

PlanShape(acc) ==
  acc \in [current : {acc.current}, bytes : {acc.bytes}, ids : SUBSET Nat,
           deferred : SUBSET blocks, retained : [DOMAIN channels -> Nat]]

\* After the blocks s, which come before the others.
PlanSound(acc, s, target) ==
  /\ PlanShape(acc)
  /\ acc.ids \subseteq {b.id : b \in s} /\ acc.deferred \subseteq s
  /\ \A c \in DOMAIN channels : acc.retained[c] = Kept(c, acc.ids)
  /\ \A b \in s : b.id \in acc.ids => acc.retained[b.channel] >= FloorOf(b.channel)
  /\ \A b \in acc.deferred : Tier(b.channel) # 0
  /\ ~(acc.bytes <= target) => \A o \in s : Tier(o.channel) = 0 => o.id \in acc.ids
  /\ (\E b \in s : Tier(b.channel) # 0 /\ (b.id \in acc.ids \/ b \in acc.deferred))
       => \A o \in blocks : Tier(o.channel) = 0 => o.id \in acc.ids

LEMMA OneBlockCounts ==
  ASSUME NEW b \in Block
  PROVE  Messages({b}) = Cardinality(b.records) /\ Cardinality(b.records) \in Nat
<1>1. b.records \subseteq Record
  BY DEF Block
<1>2. IsFiniteSet(b.records) /\ Cardinality(b.records) \in Nat
  BY <1>1, RecordsAreFinite, FS_CardinalityType
<1>3. UNION {{x} \X x.records : x \in {b}} = {b} \X b.records
  OBVIOUS
<1>4. Cardinality({b} \X b.records) = Cardinality({b}) * Cardinality(b.records)
  BY <1>2, FS_Singleton, FS_Product
<1>5. Cardinality({b}) = 1
  BY FS_Singleton
<1>6. Messages({b}) = Cardinality({b} \X b.records)
  BY <1>3 DEF Messages
<1>7. \A n \in Nat : 1 * n = n
  OBVIOUS
<1> QED BY <1>2, <1>4, <1>5, <1>6, <1>7

\* Taking a block takes its records from what its channel keeps, and from no other.
LEMMA TakingCounts ==
  ASSUME StoreInv, NEW b \in blocks, NEW ids, b.id \notin ids
  PROVE  /\ Kept(b.channel, ids \cup {b.id}) = Less(Kept(b.channel, ids), Cardinality(b.records))
         /\ Kept(b.channel, ids \cup {b.id}) \in Nat
         /\ \A c : c # b.channel => Kept(c, ids \cup {b.id}) = Kept(c, ids)
<1> DEFINE A(c) == {o \in Of(c) : o.id \notin ids}
<1>1. b \in Block /\ \A o \in blocks : o.id = b.id => o = b
  BY DEF StoreInv, Stored, UniqueIds
<1>2. {o \in Of(b.channel) : o.id \notin ids \cup {b.id}} = A(b.channel) \ {b}
  BY <1>1 DEF Of
<1>3. ASSUME NEW c, c # b.channel
      PROVE  {o \in Of(c) : o.id \notin ids \cup {b.id}} = A(c)
  BY <1>1, <1>3 DEF Of
<1>4. A(b.channel) \subseteq Block /\ IsFiniteSet(A(b.channel)) /\ b \in A(b.channel)
  <2>1. A(b.channel) \in SUBSET blocks /\ b \in A(b.channel)
    BY DEF Of
  <2>2. IsFiniteSet(blocks) /\ blocks \subseteq Block
    BY StoredIsFinite DEF StoreInv, Stored
  <2> HIDE DEF A
  <2> QED BY <2>1, <2>2, FS_Subset
<1>5. /\ Messages(A(b.channel) \ {b}) = Less(Messages(A(b.channel)), Messages({b}))
      /\ Messages(A(b.channel) \ {b}) \in Nat
  <2> HIDE DEF A
  <2>1. {b} \subseteq A(b.channel)
    BY <1>4
  <2> QED BY <1>4, <2>1, MessagesLess
<1>6. \A c : c # b.channel => Kept(c, ids \cup {b.id}) = Kept(c, ids)
  BY <1>3 DEF Kept
<1>7. Kept(b.channel, ids) = Messages(A(b.channel))
  BY DEF Kept
<1>8. Kept(b.channel, ids \cup {b.id}) = Messages(A(b.channel) \ {b})
  BY <1>2 DEF Kept
<1> HIDE DEF A
<1> QED BY <1>1, <1>5, <1>6, <1>7, <1>8, OneBlockCounts
\* A block is considered after the blocks s, all that come before it.
LEMMA ConsideringKeeps ==
  ASSUME StoreInv, NEW s \in SUBSET blocks, NEW x \in blocks \ s, NEW acc, NEW target,
         \A o \in blocks : Before(o, x) => o \in s,
         PlanSound(acc, s, target)
  PROVE  PlanSound(Consider(x, acc, target), s \cup {x}, target)
<1> DEFINE d == Consider(x, acc, target)
           t == s \cup {x}
           left == Less(acc.retained[x.channel], Cardinality(x.records))
           Sparse == \A o \in blocks : Tier(o.channel) = 0 => o.id \in acc.ids
<1> SUFFICES PlanSound(d, t, target)
  OBVIOUS
<1>1. /\ x.channel \in DOMAIN channels /\ Tier(x.channel) \in 0 .. 3
      /\ FloorOf(x.channel) \in Nat /\ (Tier(x.channel) = 0 => FloorOf(x.channel) = 0)
      /\ x.id \in Nat
  BY KeysAreNumbers
<1>2. x.id \notin acc.ids
  <2>1. \A b \in s : b.id # x.id
    BY DEF StoreInv, Stored, UniqueIds
  <2> QED BY <2>1 DEF PlanSound
<1>3. /\ left = Kept(x.channel, acc.ids \cup {x.id}) /\ left \in Nat
      /\ \A c : c # x.channel => Kept(c, acc.ids \cup {x.id}) = Kept(c, acc.ids)
  <2>1. acc.retained[x.channel] = Kept(x.channel, acc.ids)
    BY <1>1 DEF PlanSound
  <2>2. /\ Kept(x.channel, acc.ids \cup {x.id})
             = Less(Kept(x.channel, acc.ids), Cardinality(x.records))
        /\ Kept(x.channel, acc.ids \cup {x.id}) \in Nat
        /\ \A c : c # x.channel => Kept(c, acc.ids \cup {x.id}) = Kept(c, acc.ids)
    BY <1>2, TakingCounts
  <2> QED BY <2>1, <2>2
<1>4. CASE acc.bytes <= target
  <2>1. d = acc
    BY <1>4 DEF Consider
  <2>2. x \notin acc.deferred
    BY DEF PlanSound
  <2> HIDE DEF d
  <2>3. /\ acc.ids \subseteq {b.id : b \in t} /\ acc.deferred \subseteq t
        /\ \A b \in t : b.id \in acc.ids => acc.retained[b.channel] >= FloorOf(b.channel)
        /\ (\E b \in t : Tier(b.channel) # 0 /\ (b.id \in acc.ids \/ b \in acc.deferred))
             => \A o \in blocks : Tier(o.channel) = 0 => o.id \in acc.ids
    BY <1>2, <2>2 DEF PlanSound
  <2> HIDE DEF t
  <2>4. PlanSound(acc, t, target)
    BY <1>4, <2>3, Zenon DEF PlanSound
  <2> QED BY <2>1, <2>4
<1>5. CASE ~(acc.bytes <= target)
  <2>1. \A o \in s : Tier(o.channel) = 0 => o.id \in acc.ids
    BY <1>5 DEF PlanSound
  <2>2. Tier(x.channel) # 0 => Sparse
    <3>1. ASSUME Tier(x.channel) # 0, NEW o \in blocks, Tier(o.channel) = 0 PROVE o \in s
      <4>1. Before(o, x)
        BY <1>1, <3>1, BeforeIsAnOrder
      <4> QED BY <4>1
    <3> QED BY <2>1, <3>1
  <2>3. CASE left < FloorOf(x.channel)
    <3>1. d = [acc EXCEPT !.deferred = @ \cup {x}]
      BY <1>5, <2>3 DEF Consider
    <3>2. Tier(x.channel) # 0
      BY <1>1, <1>3, <2>3
    <3>3. /\ d.ids = acc.ids /\ d.retained = acc.retained /\ d.bytes = acc.bytes
          /\ d.current = acc.current
          /\ d.deferred = acc.deferred \cup {x} /\ PlanShape(d)
      BY <3>1 DEF PlanSound, PlanShape
    <3>4. Sparse
      BY <2>2, <3>2
    <3> HIDE DEF d, left, Sparse
    <3>5. /\ d.ids \subseteq {b.id : b \in t} /\ d.deferred \subseteq t
          /\ \A c \in DOMAIN channels : d.retained[c] = Kept(c, d.ids)
          /\ \A b \in t : b.id \in d.ids => d.retained[b.channel] >= FloorOf(b.channel)
          /\ \A b \in d.deferred : Tier(b.channel) # 0
      BY <1>2, <3>2, <3>3 DEF PlanSound
    <3>6. \A o \in blocks : Tier(o.channel) = 0 => o.id \in d.ids
      BY <3>3, <3>4 DEF Sparse
    <3>7. t \subseteq blocks
      OBVIOUS
    <3>8. \A o \in t : Tier(o.channel) = 0 => o.id \in d.ids
      BY <3>6, <3>7
    <3> HIDE DEF t
    <3> QED BY <3>3, <3>5, <3>6, <3>8, Zenon DEF PlanSound
  <2>4. CASE ~(left < FloorOf(x.channel))
    <3>1. d = [Take(x, acc) EXCEPT !.retained[x.channel] = left]
      BY <1>5, <2>4 DEF Consider
    <3>2. /\ d.ids = acc.ids \cup {x.id} /\ d.deferred = acc.deferred
          /\ d.retained = [acc.retained EXCEPT ![x.channel] = left]
          /\ PlanShape(d)
      <4>1. acc.retained \in [DOMAIN channels -> Nat]
        BY DEF PlanSound, PlanShape
      <4>2. [acc.retained EXCEPT ![x.channel] = left] \in [DOMAIN channels -> Nat]
        <5> HIDE DEF left
        <5> QED BY <1>1, <1>3, <4>1
      <4> DEFINE k == Take(x, acc)
      <4>3. /\ k.ids = acc.ids \cup {x.id} /\ k.deferred = acc.deferred
            /\ k.retained = acc.retained
            /\ k \in [current : {acc.current}, bytes : {k.bytes}, ids : SUBSET Nat,
                      deferred : SUBSET blocks, retained : [DOMAIN channels -> Nat]]
        BY <1>1 DEF PlanSound, PlanShape, Take
      <4> HIDE DEF left, k
      <4>4. d = [k EXCEPT !.retained = [@ EXCEPT ![x.channel] = left]]
        BY <3>1 DEF k
      <4> HIDE DEF d
      <4>5. /\ d.ids = k.ids /\ d.deferred = k.deferred /\ d.current = k.current
            /\ d.bytes = k.bytes /\ d.retained = [acc.retained EXCEPT ![x.channel] = left]
        BY <4>3, <4>4
      <4>6. PlanShape(d)
        BY <4>2, <4>3, <4>4, <4>5 DEF PlanShape
      <4> QED BY <4>3, <4>5, <4>6
    <3>3. /\ d.retained[x.channel] = left
          /\ \A c \in DOMAIN channels : c # x.channel => d.retained[c] = acc.retained[c]
      BY <1>1, <3>2 DEF PlanSound, PlanShape
    <3> HIDE DEF d, left
    <3>4. left >= FloorOf(x.channel)
      BY <1>1, <1>3, <2>4
    <3>5. \A c \in DOMAIN channels : d.retained[c] = Kept(c, d.ids)
      BY <1>1, <1>3, <3>2, <3>3 DEF PlanSound
    <3>6. d.ids \subseteq {b.id : b \in t} /\ d.deferred \subseteq t
          /\ \A b \in d.deferred : Tier(b.channel) # 0
      BY <3>2 DEF PlanSound
    <3>7. ASSUME NEW b \in t, b.id \in d.ids PROVE d.retained[b.channel] >= FloorOf(b.channel)
      <4>1. b.channel \in DOMAIN channels
        BY KeysAreNumbers
      <4>2. CASE b.channel = x.channel
        BY <3>3, <3>4, <4>2
      <4>3. CASE b.channel # x.channel
        <5>1. b \in s /\ b.id # x.id
          BY <4>3 DEF StoreInv, Stored, UniqueIds
        <5>2. acc.retained[b.channel] >= FloorOf(b.channel)
          BY <3>2, <3>7, <5>1 DEF PlanSound
        <5> QED BY <3>3, <4>1, <4>3, <5>2
      <4> QED BY <4>2, <4>3
    <3>8. \A o \in t : Tier(o.channel) = 0 => o.id \in d.ids
      BY <2>1, <3>2
    <3>9. (\E b \in t : Tier(b.channel) # 0 /\ (b.id \in d.ids \/ b \in d.deferred))
            => \A o \in blocks : Tier(o.channel) = 0 => o.id \in d.ids
      <4> SUFFICES ASSUME NEW b \in t, Tier(b.channel) # 0, b.id \in d.ids \/ b \in d.deferred
                   PROVE  Sparse
        BY <3>2
      <4>1. CASE b = x
        BY <2>2, <4>1
      <4>2. CASE b # x
        <5>1. b \in s /\ b.id # x.id
          BY <4>2 DEF StoreInv, Stored, UniqueIds
        <5>2. b.id \in acc.ids \/ b \in acc.deferred
          BY <3>2, <5>1
        <5> QED BY <5>1, <5>2 DEF PlanSound
      <4> QED BY <4>1, <4>2
    <3> HIDE DEF t
    <3> QED BY <3>2, <3>5, <3>6, <3>7, <3>8, <3>9, Zenon DEF PlanSound
  <2> QED BY <2>3, <2>4
<1> QED BY <1>4, <1>5
LEMMA PlanStartsSound ==
  ASSUME StoreInv, NEW current, NEW target
  PROVE  PlanSound(Unplanned(current), {}, target)
<1> DEFINE u == Unplanned(current)
<1>1. /\ u.ids = {} /\ u.deferred = {}
      /\ u.retained = [c \in DOMAIN channels |-> Messages(Of(c))]
      /\ u = [current |-> current, bytes |-> current, ids |-> {}, deferred |-> {},
              retained |-> [c \in DOMAIN channels |-> Messages(Of(c))]]
  BY DEF Unplanned
<1>2. ASSUME NEW c PROVE Kept(c, {}) = Messages(Of(c)) /\ Kept(c, {}) \in Nat
  <2>1. Of(c) = OfIn(blocks, c) /\ {b \in Of(c) : b.id \notin {}} = Of(c)
    BY DEF Of, OfIn
  <2>2. Messages(OfIn(blocks, c)) \in Nat
    BY StoredIsFinite, MessagesAreCounted DEF StoreInv
  <2> QED BY <2>1, <2>2 DEF Kept
<1>3. \A c \in DOMAIN channels : u.retained[c] = Kept(c, {}) /\ u.retained[c] \in Nat
  BY <1>1, <1>2
<1>4. PlanShape(u)
  <2>1. u.retained \in [DOMAIN channels -> Nat]
    BY <1>1, <1>3
  <2>2. u.current = current /\ u.bytes = current
    BY <1>1
  <2> HIDE DEF u
  <2> QED BY <1>1, <2>1, <2>2 DEF PlanShape
<1> HIDE DEF u
<1>5. PlanSound(u, {}, target)
  BY <1>1, <1>3, <1>4 DEF PlanSound
<1> QED BY <1>5 DEF u

\* However many blocks are considered, in their order.
LEMMA PlansAreSound ==
  ASSUME StoreInv, NEW current, NEW target, NEW f,
         Planned(f, blocks, Unplanned(current), FALSE, target)
  PROVE  PlanSound(f[blocks], blocks, target)
<1> DEFINE Down(s) == \A b \in s, o \in blocks : Before(o, b) => o \in s
           P == {s \in SUBSET blocks : Down(s) /\ ~PlanSound(f[s], s, target)}
<1>1. IsFiniteSet(blocks)
  BY StoredIsFinite DEF StoreInv
<1>2. \A s \in SUBSET blocks :
        f[s] = IF s = {} THEN Unplanned(current)
               ELSE Consider(Final(s), f[s \ {Final(s)}], target)
  BY DEF Planned, Considered
<1>3. P = {}
  <2> SUFFICES ASSUME P # {} PROVE FALSE
    OBVIOUS
  <2>1. PICK s \in P : \A r \in P : Cardinality(s) <= Cardinality(r)
    <3>1. P \subseteq SUBSET blocks
      OBVIOUS
    <3> HIDE DEF P
    <3> QED BY <1>1, <3>1, Fewest
  <2>2. s \in SUBSET blocks /\ Down(s) /\ ~PlanSound(f[s], s, target)
    OBVIOUS
  <2>3. s # {}
    <3> SUFFICES ASSUME s = {} PROVE FALSE
      OBVIOUS
    <3>1. f[s] = Unplanned(current)
      BY <1>2
    <3> QED BY <2>2, <3>1, PlanStartsSound
  <2> DEFINE x == Final(s)
             r == s \ {x}
  <2>4. x \in s /\ \A o \in r : Before(o, x)
    BY <2>2, <2>3, FinalIsLast
  <2>5. r \in SUBSET blocks /\ Cardinality(s) \in Nat /\ Cardinality(r) = Cardinality(s) - 1
    <3> HIDE DEF P, x
    <3> QED BY <1>1, <2>2, <2>4, OneLess
  <2>6. f[s] = Consider(x, f[r], target)
    BY <1>2, <2>2, <2>3
  <2>7. x \in blocks \ r /\ s = r \cup {x}
    BY <2>2, <2>4
  <2> HIDE DEF P, x
  <2>8. r \notin P
    <3> HIDE DEF r
    <3> QED BY <2>1, <2>5
  <2>9. \A o \in blocks : Before(o, x) => o \in r
    <3> TAKE o \in blocks
    <3> HAVE Before(o, x)
    <3>1. o \in s /\ x \in blocks
      BY <2>2, <2>4, <2>7
    <3>2. o # x
      BY <3>1, BeforeIsAnOrder
    <3> QED BY <3>1, <3>2
  <2>10. Down(r)
    <3> TAKE b \in r, o \in blocks
    <3> HAVE Before(o, b)
    <3>1. b \in blocks /\ x \in blocks /\ Before(b, x)
      BY <2>2, <2>4, <2>7
    <3>2. Before(o, x)
      BY <3>1, BeforeIsAnOrder
    <3> QED BY <2>9, <3>2
  <2>11. PlanSound(f[r], r, target)
    <3> HIDE DEF r, Down
    <3> QED BY <2>5, <2>8, <2>10 DEF P
  <2>12. PlanSound(Consider(x, f[r], target), r \cup {x}, target)
    <3> HIDE DEF r
    <3> QED BY <2>5, <2>7, <2>9, <2>11, ConsideringKeeps
  <2> QED BY <2>2, <2>6, <2>7, <2>12
<1>4. Down(blocks)
  OBVIOUS
<1> HIDE DEF Down
<1> QED BY <1>3, <1>4

\* The second loop only adds blocks the first one put off.
LEMMA CrossingAdds ==
  ASSUME StoreInv, NEW first, PlanShape(first), NEW target, NEW f,
         Planned(f, first.deferred, first, TRUE, target)
  PROVE  LET last == f[first.deferred]
         IN /\ first.ids \subseteq last.ids
            /\ last.ids \subseteq first.ids \cup {b.id : b \in first.deferred}
<1> DEFINE S == first.deferred
           Adds(s) == /\ PlanShape(f[s]) /\ first.ids \subseteq f[s].ids
                      /\ f[s].ids \subseteq first.ids \cup {b.id : b \in s}
           P == {s \in SUBSET S : ~Adds(s)}
<1>1. S \in SUBSET blocks
  BY DEF PlanShape
<1>2. IsFiniteSet(S)
  <2>1. IsFiniteSet(blocks)
    BY StoredIsFinite DEF StoreInv
  <2> QED BY <1>1, <2>1, FS_Subset
<1>3. \A s \in SUBSET S :
        f[s] = IF s = {} THEN first ELSE Cross(Final(s), f[s \ {Final(s)}], target)
  BY DEF Planned, Considered
<1>4. ASSUME NEW acc, PlanShape(acc), NEW x \in blocks
      PROVE  LET d == Cross(x, acc, target)
             IN PlanShape(d) /\ acc.ids \subseteq d.ids /\ d.ids \subseteq acc.ids \cup {x.id}
  <2>1. x.id \in Nat
    BY KeysAreNumbers
  <2> DEFINE d == Cross(x, acc, target)
  <2>2. CASE acc.bytes <= target
    <3>1. d = acc
      BY <2>2 DEF Cross
    <3> QED BY <1>4, <3>1
  <2>3. CASE ~(acc.bytes <= target)
    <3>1. d = Take(x, acc)
      BY <2>3 DEF Cross
    <3> DEFINE k == Take(x, acc)
    <3>2. /\ k.ids = acc.ids \cup {x.id} /\ k.current = acc.current
          /\ k \in [current : {acc.current}, bytes : {k.bytes}, ids : SUBSET Nat,
                    deferred : SUBSET blocks, retained : [DOMAIN channels -> Nat]]
      BY <1>4, <2>1 DEF PlanShape, Take
    <3> HIDE DEF k
    <3>3. PlanShape(k)
      BY <3>2 DEF PlanShape
    <3> QED BY <3>1, <3>2, <3>3 DEF k
  <2> QED BY <2>2, <2>3
<1>5. P = {}
  <2> SUFFICES ASSUME P # {} PROVE FALSE
    OBVIOUS
  <2>1. PICK s \in P : \A r \in P : Cardinality(s) <= Cardinality(r)
    <3>1. P \subseteq SUBSET S
      OBVIOUS
    <3> HIDE DEF P, S
    <3> QED BY <1>2, <3>1, Fewest
  <2>2. s \in SUBSET S /\ ~Adds(s)
    OBVIOUS
  <2>3. s # {}
    <3> SUFFICES ASSUME s = {} PROVE FALSE
      OBVIOUS
    <3>1. f[s] = first
      BY <1>3
    <3> QED BY <2>2, <3>1
  <2> DEFINE x == Final(s)
             r == s \ {x}
  <2>4. x \in s /\ x \in blocks
    BY <1>1, <2>2, <2>3, FinalIsLast
  <2>5. r \in SUBSET S /\ Cardinality(s) \in Nat /\ Cardinality(r) = Cardinality(s) - 1
    <3> HIDE DEF P, S, x
    <3> QED BY <1>2, <2>2, <2>4, OneLess
  <2>6. f[s] = Cross(x, f[r], target)
    BY <1>3, <2>2, <2>3
  <2>7. s = r \cup {x}
    BY <2>4
  <2> HIDE DEF P, S, x
  <2>8. r \notin P
    <3> HIDE DEF r
    <3> QED BY <2>1, <2>5
  <2>9. Adds(r)
    <3> HIDE DEF r, Adds
    <3> QED BY <2>5, <2>8 DEF P
  <2>10. /\ PlanShape(f[s]) /\ f[r].ids \subseteq f[s].ids
         /\ f[s].ids \subseteq f[r].ids \cup {x.id}
    <3> HIDE DEF r
    <3> QED BY <1>4, <2>4, <2>6, <2>9
  <2>11. Adds(s)
    <3>1. {b.id : b \in s} = {b.id : b \in r} \cup {x.id}
      BY <2>7
    <3> HIDE DEF r
    <3> QED BY <2>9, <2>10, <3>1
  <2> QED BY <2>2, <2>11
<1>6. Adds(S)
  <2> HIDE DEF Adds, S
  <2> QED BY <1>5
<1> QED BY <1>6
LEMMA ChoiceIsFair ==
  ASSUME StoreInv, NEW current, NEW ceiling, NEW c \in DOMAIN channels,
         \E b \in Of(c) : b.id \in Choose(current, ceiling).ids
  PROVE  LET ids == Choose(current, ceiling).ids
         IN /\ current >= ceiling.emergency \/ Kept(c, ids) >= FloorOf(c)
            /\ \A d \in DOMAIN channels : Tier(d) = 0 /\ Tier(c) > 0 => Kept(d, ids) = 0
<1> DEFINE target == ceiling.target
           chosen == Choose(current, ceiling)
           ids == chosen.ids
           one == CHOOSE f : f = [s \in SUBSET blocks |->
                                    IF s = {} THEN Unplanned(current)
                                    ELSE Consider(Final(s), f[s \ {Final(s)}], target)]
           first == one[blocks]
           two == CHOOSE f : f = [s \in SUBSET first.deferred |->
                                    IF s = {} THEN first
                                    ELSE Cross(Final(s), f[s \ {Final(s)}], target)]
           Fair == \A d \in DOMAIN channels : Tier(d) = 0 /\ Tier(c) > 0 => Kept(d, ids) = 0
<1>1. chosen = IF current >= ceiling.emergency THEN two[first.deferred] ELSE first
  BY DEF Choose, MapThenFoldSet
<1> HIDE DEF chosen, target
<1>2. Planned(one, blocks, Unplanned(current), FALSE, target)
  <2>1. \E f : Planned(f, blocks, Unplanned(current), FALSE, target)
    BY LoopIsDefined
  <2> QED BY <2>1 DEF Planned, Considered
<1>3. PlanSound(first, blocks, target)
  <2> HIDE DEF one
  <2> QED BY <1>2, PlansAreSound
<1>4. /\ first.ids \subseteq ids /\ ids \subseteq first.ids \cup {b.id : b \in first.deferred}
      /\ ~(current >= ceiling.emergency) => ids = first.ids
  <2>1. PlanShape(first) /\ first.deferred \in SUBSET blocks
    BY <1>3 DEF PlanSound
  <2>2. Planned(two, first.deferred, first, TRUE, target)
    <3> HIDE DEF first
    <3>1. \E f : Planned(f, first.deferred, first, TRUE, target)
      BY <2>1, LoopIsDefined
    <3> QED BY <3>1 DEF Planned, Considered
  <2>3. /\ first.ids \subseteq two[first.deferred].ids
        /\ two[first.deferred].ids \subseteq first.ids \cup {b.id : b \in first.deferred}
    <3> HIDE DEF first, two
    <3> QED BY <2>1, <2>2, CrossingAdds
  <2> HIDE DEF first, two
  <2>4. CASE current >= ceiling.emergency
    BY <1>1, <2>3, <2>4
  <2>5. CASE ~(current >= ceiling.emergency)
    BY <1>1, <2>5
  <2> QED BY <2>4, <2>5
<1> HIDE DEF first
<1>5. PICK b \in blocks : b.channel = c /\ b.id \in ids
  BY DEF Of, chosen
<1>6. ASSUME ~(current >= ceiling.emergency) PROVE Kept(c, ids) >= FloorOf(c)
  <2>1. b.id \in first.ids /\ ids = first.ids
    BY <1>4, <1>5, <1>6
  <2>2. first.retained[c] >= FloorOf(c) /\ first.retained[c] = Kept(c, first.ids)
    BY <1>3, <1>5, <2>1 DEF PlanSound
  <2> QED BY <2>1, <2>2
<1>7. ASSUME NEW d \in DOMAIN channels, Tier(d) = 0, Tier(c) > 0 PROVE Kept(d, ids) = 0
  <2>1. b.id \in first.ids \/ b \in first.deferred
    <3>1. first.deferred \subseteq blocks
      BY <1>3 DEF PlanSound
    <3>2. \A o \in blocks : o.id = b.id => o = b
      BY <1>5 DEF StoreInv, Stored, UniqueIds
    <3> QED BY <1>4, <1>5, <3>1, <3>2
  <2>2. Tier(b.channel) # 0
    <3>1. Tier(b.channel) \in 0 .. 3
      BY <1>5, KeysAreNumbers
    <3> QED BY <1>5, <1>7, <3>1
  <2>3. \A o \in blocks : Tier(o.channel) = 0 => o.id \in first.ids
    BY <1>3, <1>5, <2>1, <2>2 DEF PlanSound
  <2>4. {o \in Of(d) : o.id \notin ids} = {}
    <3>1. \A o \in Of(d) : o \in blocks /\ o.channel = d
      BY DEF Of
    <3> QED BY <1>4, <1>7, <2>3, <3>1
  <2> QED BY <2>4, NoBlocks DEF Kept
<1>8. current >= ceiling.emergency \/ Kept(c, ids) >= FloorOf(c)
  BY <1>6
<1>9. Fair
  BY <1>7
<1> QED BY <1>8, <1>9 DEF chosen

\* For any channels, blocks and ceilings: below the emergency mark a plan keeps the
\* floor of each channel it takes from, and no plan takes a block of a channel that
\* was asked for while one that nobody asked for keeps any.
THEOREM PlansAreFair == StoreSpec => PlanIsFair
<1>1. ASSUME StoreInv, [StoreNext]_storeVars, plan' # NoPlan, plan'.stage = "evict",
             plan # NoPlan, plan.stage = "plan", NEW c \in DOMAIN channels,
             \E b \in Of(c) : b.id \in plan'.ids
      PROVE  /\ plan'.emergency \/ Kept(c, plan'.ids) >= FloorOf(c)
             /\ \A d \in DOMAIN channels :
                  Tier(d) = 0 /\ Tier(c) > 0 => Kept(d, plan'.ids) = 0
  <2>1. plan' # plan /\ plan.stage # "measure" /\ plan.stage # "evict"
    BY <1>1
  <2>2. \E ceiling \in Ceilings : PlanEviction(ceiling)
    BY <1>1, <2>1, Zenon
    DEF StoreNext, AppendBatch, TouchChannelRequested, PurgeChannel, SetChannelBlocked,
        SyncAlwaysJoinChannels, StartExpiry, ExpireBlocks, FinishExpiry, MaintainSpace, Measure,
        EvictBlocks, RestartStore, PassTime, storeVars
  <2>3. PICK ceiling \in Ceilings : PlanEviction(ceiling)
    BY <2>2
  <2>4. plan' = [stage |-> "evict", pass |-> plan.pass, high |-> ceiling.high,
                 ids |-> Choose(plan.current, ceiling).ids,
                 emergency |-> plan.current >= ceiling.emergency,
                 wanted |-> {w \in DOMAIN channels : Tier(w) >= 2}]
    BY <1>1, <2>3, Zenon DEF PlanEviction
  <2>5. /\ plan'.ids = Choose(plan.current, ceiling).ids
        /\ plan'.emergency = (plan.current >= ceiling.emergency)
    BY <2>4
  <2>6. /\ plan.current >= ceiling.emergency \/ Kept(c, plan'.ids) >= FloorOf(c)
        /\ \A d \in DOMAIN channels :
             Tier(d) = 0 /\ Tier(c) > 0 => Kept(d, plan'.ids) = 0
    BY <1>1, <2>5, ChoiceIsFair
  <2> QED BY <2>5, <2>6
<1>2. StoreInv /\ [StoreNext]_storeVars =>
        [plan' # NoPlan /\ plan'.stage = "evict" /\ plan # NoPlan /\ plan.stage = "plan" =>
           LET kept(c) == Messages({b \in Of(c) : b.id \notin plan'.ids})
               taken(c) == \E b \in Of(c) : b.id \in plan'.ids
           IN \A c \in DOMAIN channels :
                taken(c) => /\ plan'.emergency \/ kept(c) >= FloorOf(c)
                            /\ \A d \in DOMAIN channels :
                                 Tier(d) = 0 /\ Tier(c) > 0 => kept(d) = 0]_storeVars
  BY <1>1, Zenon DEF Kept
<1> QED BY <1>2, StoreInvariant, PTL DEF StoreSpec, PlanIsFair
-----------------------------------------------------------------------------
(* The store as a set of records *)

CopyOf(c, r) == [channel |-> c, at |-> r.at, fidelity |-> r.fidelity]

LEMMA HeldCopies ==
  ASSUME NEW B, B \subseteq Block
  PROVE  /\ \A b \in B : \A r \in b.records : CopyOf(b.channel, r) \in HeldIn(B)
         /\ \A q \in HeldIn(B) : \E b \in B : \E r \in b.records : q = CopyOf(b.channel, r)
         /\ \A b \in B : \A r \in b.records : r \in Record
BY DEF HeldIn, Copies, CopyOf, Block

LEMMA CopiesDiffer ==
  ASSUME NEW r \in Record, NEW s \in Record, NEW c, NEW d
  PROVE  /\ CopyOf(c, r) = CopyOf(d, s) => c = d /\ r = s
         /\ CopyOf(c, r).channel = c /\ CopyOf(c, r).at = r.at /\ CopyOf(c, r).fidelity = r.fidelity
BY DEF CopyOf, Record

\* What the blocks of a channel count is how many of its records are held.
LEMMA HeldCounts ==
  ASSUME NEW B, NEW ch, NEW t, Stored(B, ch, t), NEW c
  PROVE  Cardinality({q \in HeldIn(B) : q.channel = c}) = Messages(OfIn(B, c))
<1> DEFINE O == OfIn(B, c)
           H == {q \in HeldIn(B) : q.channel = c}
           f == [p \in Pairs(O) |-> CopyOf(p[1].channel, p[2])]
<1>1. B \subseteq Block /\ O \subseteq Block /\ IsFiniteSet(O) /\ UniqueEvents(B)
  BY StoredIsFinite DEF Stored
<1>2. O = {b \in B : b.channel = c}
  BY DEF OfIn
<1>3. \A p \in Pairs(O) : \E b \in O : \E r \in b.records : p = <<b, r>>
  BY DEF Pairs
<1>4. \A b \in O : \A r \in b.records : <<b, r>> \in Pairs(O) /\ f[<<b, r>>] = CopyOf(c, r)
  BY <1>2 DEF Pairs
<1>5. f = [p \in Pairs(O) |-> f[p]]
  OBVIOUS
<1> HIDE DEF f
<1>6. \A b \in O : \A r \in b.records : r \in Record /\ CopyOf(c, r) \in H
  <2> TAKE b \in O
  <2> TAKE r \in b.records
  <2>1. b \in B /\ b.channel = c
    BY <1>2
  <2>2. r \in Record /\ CopyOf(c, r) \in HeldIn(B)
    BY <1>1, <2>1, HeldCopies
  <2> QED BY <2>2, CopiesDiffer
<1>7. f \in [Pairs(O) -> H]
  <2> HIDE DEF O, H
  <2> QED BY <1>3, <1>4, <1>5, <1>6
<1>8. ASSUME NEW p \in Pairs(O), NEW q \in Pairs(O), f[p] = f[q] PROVE p = q
  <2>1. PICK a \in O : \E r \in a.records : p = <<a, r>>
    BY <1>3
  <2>2. PICK b \in O : \E s \in b.records : q = <<b, s>>
    BY <1>3
  <2>3. PICK r \in a.records, s \in b.records : p = <<a, r>> /\ q = <<b, s>>
    BY <2>1, <2>2
  <2>4. r \in Record /\ s \in Record /\ CopyOf(c, r) = CopyOf(c, s)
    BY <1>4, <1>6, <1>8, <2>3
  <2>5. r = s
    BY <2>4, CopiesDiffer
  <2>6. a = b
    BY <1>1, <1>2, <2>5 DEF UniqueEvents
  <2> QED BY <2>3, <2>5, <2>6
<1>9. ASSUME NEW h \in H PROVE \E p \in Pairs(O) : f[p] = h
  <2>1. PICK b \in B : \E r \in b.records : h = CopyOf(b.channel, r)
    BY <1>1, HeldCopies
  <2>2. PICK r \in b.records : h = CopyOf(b.channel, r)
    BY <2>1
  <2>3. r \in Record
    BY <1>1, HeldCopies
  <2>4. b.channel = c
    BY <2>2, <2>3, CopiesDiffer
  <2> QED BY <1>2, <1>4, <2>2, <2>4
<1>10. f \in Bijection(Pairs(O), H)
  <2> HIDE DEF O, H
  <2> QED BY <1>7, <1>8, <1>9 DEF Bijection, Injection, Surjection, IsInjective
<1>11. Cardinality(H) = Cardinality(Pairs(O))
  <2> HIDE DEF O, H
  <2> QED BY <1>1, <1>10, MessagesAreCounted, FS_Bijection DEF ExistsBijection
<1> QED BY <1>1, <1>11, MessagesAreCounted

\* Each new event of a batch is in a new block.
LEMMA AddedHoldFresh ==
  ASSUME NEW c, NEW R, NEW r \in Fresh(c, R)
  PROVE  \E b \in Added(c, R) : r \in b.records
<1> DEFINE F == Fresh(c, R)
           k == Chunk(F, r)
           b == NewBlock(F, c, NextId, WithRow(c)[c].next, k)
<1>1. k \in Chunks(F) /\ r \in InChunk(F, k)
  BY DEF Chunks, InChunk
<1>2. b \in Added(c, R)
  BY <1>1, CreatedAreNew DEF Added, NewBlocks
<1>3. r \in b.records
  BY <1>1 DEF NewBlock
<1> QED BY <1>2, <1>3

\* A block the overlap query leaves out has no event of the batch.
LEMMA OutsideBatch ==
  ASSUME NEW c, NEW R, R \subseteq Record, R # {}, blocks \subseteq Block,
         NEW a \in Of(c) \ Overlapping(c, R), NEW r \in a.records, NEW s \in R
  PROVE  r.at # s.at
<1>1. a \in blocks /\ a.records \subseteq Record /\ a.records # {}
  BY DEF Of, Block
<1>2. ~(Latest(a) >= Min(Times(R)) /\ Min(Times(a.records)) <= Newest(R))
  BY DEF Overlapping
<1>3. /\ Min(Times(R)) <= s.at /\ s.at <= Newest(R)
      /\ Min(Times(R)) \in Nat /\ Newest(R) \in Nat
  BY TimesAreBounded
<1>4. /\ Min(Times(a.records)) <= r.at /\ r.at <= Latest(a)
      /\ Min(Times(a.records)) \in Nat /\ Latest(a) \in Nat
  BY <1>1, TimesAreBounded DEF Latest
<1>5. r.at \in Nat /\ s.at \in Nat
  BY <1>1, RecordFields
<1> QED BY <1>2, <1>3, <1>4, <1>5

Inside(B, d, r) == \E b \in B : b.channel = d /\ r \in b.records

LEMMA HeldInside ==
  ASSUME NEW B, B \subseteq Block, NEW d, NEW r \in Record
  PROVE  CopyOf(d, r) \in HeldIn(B) <=> Inside(B, d, r)
<1>1. ASSUME CopyOf(d, r) \in HeldIn(B) PROVE Inside(B, d, r)
  <2>1. PICK b \in B : \E s \in b.records : CopyOf(d, r) = CopyOf(b.channel, s)
    BY <1>1, HeldCopies
  <2>2. PICK s \in b.records : CopyOf(d, r) = CopyOf(b.channel, s)
    BY <2>1
  <2>3. s \in Record
    BY HeldCopies
  <2>4. d = b.channel /\ r = s
    BY <2>2, <2>3, CopiesDiffer
  <2> QED BY <2>4 DEF Inside
<1>2. ASSUME Inside(B, d, r) PROVE CopyOf(d, r) \in HeldIn(B)
  BY <1>2, HeldCopies DEF Inside
<1> QED BY <1>1, <1>2

\* Upgrading the blocks that overlap and adding blocks of what is new is the merge of
\* the batch into the records.
LEMMA GrownInside ==
  ASSUME NEW c \in StoreChannels, NEW R, R \subseteq Record, R # {},
         Stored(blocks, channels, totals), Store(c, R), NEW d, NEW r \in Record
  PROVE  Inside(Grown(c, R), d, r) <=>
           /\ Inside(blocks, d, r) \/ (d = c /\ r \in R)
           /\ \A s \in Record :
                (Inside(blocks, d, s) \/ (d = c /\ s \in R)) /\ s.at = r.at
                  => s.fidelity <= r.fidelity
<1> DEFINE O == Overlapping(c, R)
           U == Enlarged(c, R)
           N == Added(c, R)
           F == Fresh(c, R)
           Given(s) == Inside(blocks, d, s) \/ (d = c /\ s \in R)
           Finest == \A s \in Record : Given(s) /\ s.at = r.at => s.fidelity <= r.fidelity
           Known(b) == b.records \cup {s \in R : s.at \in Times(b.records)}
<1>1. /\ blocks \subseteq Block /\ UniqueEvents(blocks)
      /\ \A s \in Record : s.fidelity \in Nat
  BY RecordFields DEF Stored
<1>2. /\ O \subseteq OfIn(blocks, c) /\ F \subseteq R /\ F \subseteq Best(R)
      /\ \A b \in N : b.channel = c /\ b.records \subseteq F
      /\ \A u \in U : \E b \in O : u = Up(b, R)
  BY StoreGrows
<1>3. Grown(c, R) = ((blocks \ O) \cup U) \cup N
  BY DEF Grown
<1>4. /\ \A b \in O : b \in blocks /\ b \in Block /\ b.channel = c
      /\ \A b \in O : /\ Up(b, R) \in U /\ Up(b, R).channel = c
                      /\ Up(b, R).records = Best(Known(b))
  <2>1. \A b \in O : b \in blocks /\ b \in Block /\ b.channel = c
    BY <1>1, <1>2 DEF OfIn
  <2>2. \A b \in O : Up(b, R) \in U
    BY DEF Enlarged, Upgraded, Up
  <2>3. \A b \in Block : Up(b, R).channel = b.channel /\ Up(b, R).records = Best(Known(b))
    BY DEF Up, Block
  <2> QED BY <2>1, <2>2, <2>3
<1>5. ASSUME NEW s, Inside(blocks, d, s), NEW q, Inside(blocks, d, q), s.at = q.at PROVE s = q
  BY <1>1, <1>5 DEF Inside, UniqueEvents
<1> HIDE DEF O, U, N, F
<1>6. CASE d # c
  <2>1. Inside(Grown(c, R), d, r) <=> Inside(blocks, d, r)
    <3>1. \A b \in U : b.channel = c
      BY <1>2, <1>4
    <3> QED BY <1>2, <1>3, <1>4, <1>6, <3>1 DEF Inside
  <2>2. Inside(blocks, d, r) => Finest
    BY <1>1, <1>5, <1>6
  <2> QED BY <1>6, <2>1, <2>2
<1>7. CASE d = c
  <2>1. ASSUME NEW b \in blocks \ O, b.channel = c, r \in b.records PROVE Given(r) /\ Finest
    <3>1. Inside(blocks, d, r)
      BY <1>7, <2>1 DEF Inside
    <3>2. \A s \in R : s.at # r.at
      <4>1. b \in Of(c) \ Overlapping(c, R)
        BY <2>1 DEF Of, O
      <4> QED BY <1>1, <2>1, <4>1, OutsideBatch
    <3> QED BY <1>1, <1>5, <3>1, <3>2
  <2>2. ASSUME NEW b \in O, r \in Best(Known(b)) PROVE Given(r) /\ Finest
    <3>1. r \in Known(b) /\ \A s \in Known(b) : s.at = r.at => s.fidelity <= r.fidelity
      BY <2>2 DEF Best
    <3>2. \A s \in b.records : Inside(blocks, d, s)
      BY <1>4, <1>7 DEF Inside
    <3>3. Given(r)
      BY <1>7, <3>1, <3>2
    <3>4. r.at \in Times(b.records)
      BY <3>1 DEF Times
    <3>5. PICK q \in b.records : q.at = r.at
      BY <3>4 DEF Times
    <3>6. ASSUME NEW s \in Record, Given(s), s.at = r.at PROVE s \in Known(b)
      <4>1. CASE Inside(blocks, d, s)
        <5>1. s = q
          BY <1>5, <3>2, <3>5, <3>6, <4>1
        <5> QED BY <3>5, <5>1
      <4>2. CASE s \in R
        BY <3>4, <3>6, <4>2
      <4> QED BY <3>6, <4>1, <4>2
    <3> HIDE DEF Known, Given
    <3> QED BY <3>1, <3>3, <3>6
  <2>3. ASSUME NEW b \in N, r \in b.records PROVE Given(r) /\ Finest
    <3>1. r \in F /\ r \in R /\ r \in Best(R)
      BY <1>2, <2>3
    <3>2. \A s \in R : s.at = r.at => s.fidelity <= r.fidelity
      BY <3>1 DEF Best
    <3>3. ASSUME NEW s \in Record, Inside(blocks, d, s), s.at = r.at PROVE FALSE
      <4>1. PICK a \in blocks : a.channel = c /\ s \in a.records
        BY <1>7, <3>3 DEF Inside
      <4>2. CASE a \in O
        <5>1. r.at \in Times(a.records)
          BY <3>3, <4>1 DEF Times
        <5> QED BY <3>1, <4>2, <5>1 DEF F, O, Fresh
      <4>3. CASE a \notin O
        <5>1. a \in Of(c) \ Overlapping(c, R)
          BY <4>1, <4>3 DEF Of, O
        <5> QED BY <1>1, <3>1, <3>3, <4>1, <5>1, OutsideBatch
      <4> QED BY <4>2, <4>3
    <3> QED BY <1>7, <3>1, <3>2, <3>3
  <2>4. ASSUME Inside(Grown(c, R), d, r) PROVE Given(r) /\ Finest
    <3>1. PICK b \in Grown(c, R) : b.channel = c /\ r \in b.records
      BY <1>7, <2>4 DEF Inside
    <3>2. CASE b \in blocks \ O
      BY <2>1, <3>1, <3>2
    <3>3. CASE b \in U
      <4>1. PICK o \in O : b = Up(o, R)
        BY <1>2, <3>3
      <4> HIDE DEF Given, Finest, Known
      <4> QED BY <1>4, <2>2, <3>1, <4>1
    <3>4. CASE b \in N
      BY <2>3, <3>1, <3>4
    <3> HIDE DEF Given, Finest
    <3> QED BY <1>3, <3>1, <3>2, <3>3, <3>4
  <2>5. ASSUME NEW b \in O, r \in Known(b), Finest PROVE Inside(Grown(c, R), d, r)
    <3>1. \A s \in Known(b) : s \in Record /\ Given(s)
      <4>1. \A s \in b.records : s \in Record /\ Inside(blocks, d, s)
        BY <1>4, <1>7 DEF Inside, Block
      <4> QED BY <1>7, <4>1
    <3>2. r \in Best(Known(b))
      <4> HIDE DEF Known, Given
      <4> QED BY <2>5, <3>1 DEF Best
    <3>3. Up(b, R) \in Grown(c, R) /\ Up(b, R).channel = d /\ r \in Up(b, R).records
      <4> HIDE DEF Known
      <4> QED BY <1>3, <1>4, <1>7, <3>2
    <3> QED BY <3>3 DEF Inside
  <2>6. ASSUME Given(r), Finest PROVE Inside(Grown(c, R), d, r)
    <3>1. ASSUME NEW b \in blocks, b.channel = c, r \in b.records
          PROVE  Inside(Grown(c, R), d, r)
      <4>1. CASE b \in O
        BY <2>5, <2>6, <3>1, <4>1
      <4>2. CASE b \notin O
        BY <1>3, <1>7, <3>1, <4>2 DEF Inside
      <4> QED BY <4>1, <4>2
    <3>2. ASSUME r \in R PROVE Inside(Grown(c, R), d, r)
      <4>1. CASE \E b \in O : r.at \in Times(b.records)
        <5>1. PICK b \in O : r.at \in Times(b.records)
          BY <4>1
        <5>2. r \in Known(b)
          BY <3>2, <5>1
        <5> HIDE DEF Known, Finest
        <5> QED BY <2>5, <2>6, <5>2
      <4>2. CASE ~\E b \in O : r.at \in Times(b.records)
        <5>1. r \in Best(R)
          BY <1>7, <2>6, <3>2 DEF Best
        <5>2. r \in F
          BY <4>2, <5>1 DEF F, O, Fresh
        <5>3. PICK b \in N : r \in b.records
          BY <5>2, AddedHoldFresh DEF F, N
        <5> QED BY <1>2, <1>3, <1>7, <5>3 DEF Inside
      <4> QED BY <4>1, <4>2
    <3> QED BY <1>7, <2>6, <3>1, <3>2 DEF Inside
  <2> QED BY <2>4, <2>6
<1> QED BY <1>6, <1>7
\* Trimming keeps enough of a channel: what a block that goes was not needed for.
LEMMA TrimLeavesEnough ==
  ASSUME NEW c \in StoreChannels, NEW R, R \subseteq Record, R # {},
         Stored(blocks, channels, totals), Store(c, R), Dropped(c, R) # {}
  PROVE  Messages(OfIn(blocks', c)) >= TargetMessages
<1> DEFINE G == GrownOf(c, R)
           D == Dropped(c, R)
           n == Retaining(c, R)
           rows == GrownRows(c, R)
           Older(b) == {o \in G : o.sequence < b.sequence}
<1>1. /\ Stored(Grown(c, R), rows, GrownTotals(c, R))
      /\ blocks' = Grown(c, R) \ D /\ D \subseteq G /\ G = OfIn(Grown(c, R), c)
      /\ c \in DOMAIN WithRow(c) /\ WithRow(c)[c] \in ChannelRow
  BY StoreGrows
<1>2. /\ G \subseteq Block /\ IsFiniteSet(G) /\ D # {}
      /\ \A a, b \in G : a.sequence = b.sequence => a = b
      /\ \A b \in G : b.sequence \in Nat /\ Cardinality(b.records) <= BlockMessages
  <2>1. G \subseteq Block /\ IsFiniteSet(G)
    BY <1>1, StoredIsFinite
  <2> HIDE DEF rows
  <2> QED BY <1>1, <2>1 DEF OfIn, Stored, UniqueSequences, Block
<1>3. n = Messages(G) /\ n \in Nat
  <2>1. rows[c].retained = n
    BY <1>1 DEF GrownRows, Retaining, ChannelRow
  <2>2. c \in DOMAIN rows
    BY <1>1 DEF GrownRows
  <2> HIDE DEF rows, n
  <2> QED BY <1>1, <1>2, <2>1, <2>2, MessagesAreCounted DEF Stored
<1>4. \A b \in D : Less(n, Messages(Older(b))) > TargetMessages + BlockMessages - 1
  BY <1>2 DEF Dropped, Trimmed
<1>5. PICK top \in Nat : \A b \in G : b.sequence < top
  <2>1. \A b \in G : b.channel = c /\ b.sequence < rows[b.channel].next
    <3> HIDE DEF rows
    <3> QED BY <1>1 DEF OfIn, Stored
  <2>2. c \in DOMAIN rows /\ rows[c].next \in Nat
    <3>1. c \in DOMAIN rows
      BY <1>1 DEF GrownRows
    <3> HIDE DEF rows
    <3> QED BY <1>1, <3>1 DEF Stored, ChannelRow
  <2> QED BY <2>1, <2>2
<1> HIDE DEF G, D, n, rows
<1>6. PICK b \in D : \A o \in D : o.sequence <= b.sequence
  <2> DEFINE S == {o.sequence : o \in D}
  <2>1. S \subseteq 0 .. top /\ S # {}
    BY <1>1, <1>2, <1>5
  <2>2. 0 \in Int /\ top \in Int
    OBVIOUS
  <2>3. PICK m \in S : \A o \in S : o <= m
    BY <2>1, <2>2, Extremes
  <2> QED BY <2>3
<1> DEFINE E == Older(b)
<1>7. E \subseteq G /\ b \in G /\ b \notin E /\ D \subseteq E \cup {b}
  <2>1. \A o \in D : o.sequence = b.sequence => o = b
    BY <1>1, <1>2, <1>6
  <2> QED BY <1>1, <1>2, <1>6, <2>1
<1>8. Less(n, Messages(E)) > TargetMessages + BlockMessages - 1
  BY <1>4
<1> HIDE DEF E
<1> DEFINE K == G \ (E \cup {b})
<1>9. n = Messages(K) + Messages(E) + Cardinality(b.records)
      /\ Messages(K) \in Nat /\ Messages(E) \in Nat /\ Cardinality(b.records) \in Nat
  <2>1. /\ IsFiniteSet(K) /\ IsFiniteSet(E) /\ IsFiniteSet({b}) /\ IsFiniteSet(E \cup {b})
        /\ K \subseteq Block /\ E \subseteq Block /\ {b} \subseteq Block /\ E \cup {b} \subseteq Block
    <3>1. K \in SUBSET G /\ E \in SUBSET G /\ {b} \in SUBSET G /\ E \cup {b} \in SUBSET G
      BY <1>7
    <3> QED BY <1>2, <3>1, FS_Subset
  <2>2. Messages(E \cup {b}) = Messages(E) + Messages({b}) /\ Messages(E) \in Nat
    <3>1. E \cap {b} = {}
      BY <1>7
    <3> QED BY <2>1, <3>1, MessagesSplit
  <2>3. Messages(K \cup (E \cup {b})) = Messages(K) + Messages(E \cup {b}) /\ Messages(K) \in Nat
    <3>1. K \cap (E \cup {b}) = {}
      OBVIOUS
    <3> HIDE DEF K
    <3> QED BY <2>1, <3>1, MessagesSplit
  <2>4. K \cup (E \cup {b}) = G
    BY <1>7
  <2>5. Messages({b}) = Cardinality(b.records) /\ Cardinality(b.records) \in Nat
    BY <1>2, <1>7, OneBlockCounts
  <2> HIDE DEF K
  <2>6. Messages(G) = Messages(K) + Messages(E \cup {b})
    BY <2>3, <2>4, Zenon
  <2> QED BY <1>3, <2>2, <2>3, <2>5, <2>6
<1>10. Messages(K) >= TargetMessages
  <2>1. Cardinality(b.records) <= BlockMessages
    BY <1>2, <1>7
  <2> HIDE DEF K
  <2>2. BlockMessages \in Nat /\ TargetMessages \in Nat
    BY StoreAssumption
  <2> QED BY <1>3, <1>8, <1>9, <2>1, <2>2 DEF Less
<1>11. OfIn(blocks', c) = G \ D
  BY <1>1 DEF OfIn
<1>12. Messages(G \ D) = Messages(K) + Messages((G \ D) \ K)
       /\ Messages((G \ D) \ K) \in Nat
  <2>1. K \in SUBSET (G \ D) /\ (G \ D) \in SUBSET G /\ (G \ D) \ K \in SUBSET G
    BY <1>7
  <2>2. K \subseteq Block /\ IsFiniteSet(K) /\ (G \ D) \ K \subseteq Block /\ IsFiniteSet((G \ D) \ K)
    BY <1>2, <2>1, FS_Subset
  <2>3. K \cup ((G \ D) \ K) = G \ D /\ K \cap ((G \ D) \ K) = {}
    BY <2>1
  <2> HIDE DEF K
  <2>4. Messages(K \cup ((G \ D) \ K)) = Messages(K) + Messages((G \ D) \ K)
        /\ Messages((G \ D) \ K) \in Nat
    BY <2>2, <2>3, MessagesSplit
  <2> QED BY <2>3, <2>4
<1> HIDE DEF K
<1>13. TargetMessages \in Nat
  BY StoreAssumption
<1> QED BY <1>9, <1>10, <1>11, <1>12, <1>13
LEMMA GivenCopies ==
  ASSUME NEW c, NEW R, R \subseteq Record, blocks \subseteq Block
  PROVE  /\ \A d : \A r \in Record : CopyOf(d, r) \in HeldIn(blocks) \cup Copies(c, R) <=>
                                       Inside(blocks, d, r) \/ (d = c /\ r \in R)
         /\ \A q \in HeldIn(blocks) \cup Copies(c, R) :
              \E d : \E r \in Record : q = CopyOf(d, r)
<1>1. \A d : \A r \in Record : CopyOf(d, r) \in HeldIn(blocks) <=> Inside(blocks, d, r)
  BY HeldInside
<1>2. ASSUME NEW d, NEW r \in Record, CopyOf(d, r) \in Copies(c, R) PROVE d = c /\ r \in R
  <2>1. PICK s \in R : CopyOf(d, r) = CopyOf(c, s)
    BY <1>2 DEF Copies, CopyOf
  <2>2. s \in Record
    BY <2>1
  <2>3. d = c /\ r = s
    BY <2>1, <2>2, CopiesDiffer
  <2> QED BY <2>1, <2>3
<1>3. \A r \in R : CopyOf(c, r) \in Copies(c, R)
  BY DEF Copies, CopyOf
<1>4. ASSUME NEW q \in HeldIn(blocks) PROVE \E d : \E r \in Record : q = CopyOf(d, r)
  <2>1. PICK b \in blocks : \E r \in b.records : q = CopyOf(b.channel, r)
    BY HeldCopies
  <2>2. \A r \in b.records : r \in Record
    BY HeldCopies
  <2> QED BY <2>1, <2>2
<1>5. ASSUME NEW q \in Copies(c, R) PROVE \E d : \E r \in Record : q = CopyOf(d, r)
  <2>1. PICK r \in R : q = CopyOf(c, r)
    BY DEF Copies, CopyOf
  <2> QED BY <2>1
<1> QED BY <1>1, <1>2, <1>3, <1>4, <1>5

LEMMA GrownIsMerged ==
  ASSUME NEW c \in StoreChannels, NEW R, R \subseteq Record, R # {},
         Stored(blocks, channels, totals), Store(c, R)
  PROVE  HeldIn(Grown(c, R)) = Records!Merged(Copies(c, R))
<1> DEFINE G == Grown(c, R)
           A == HeldIn(blocks) \cup Copies(c, R)
           M == Records!Merged(Copies(c, R))
           Given(d, r) == Inside(blocks, d, r) \/ (d = c /\ r \in R)
<1>1. blocks \subseteq Block /\ G \subseteq Block
  BY StoreGrows DEF Stored
<1>2. /\ \A d : \A r \in Record : CopyOf(d, r) \in A <=> Given(d, r)
      /\ \A q \in A : \E d : \E r \in Record : q = CopyOf(d, r)
  BY <1>1, GivenCopies
<1>3. M = {r \in A : \A q \in A : q.channel = r.channel /\ q.at = r.at => q.fidelity <= r.fidelity}
  BY DEF Records!Merged, Records!SameEvent
<1>4. ASSUME NEW d, NEW r \in Record
      PROVE  CopyOf(d, r) \in HeldIn(G) <=>
               Given(d, r) /\ \A s \in Record : Given(d, s) /\ s.at = r.at => s.fidelity <= r.fidelity
  <2>1. CopyOf(d, r) \in HeldIn(G) <=> Inside(G, d, r)
    BY <1>1, HeldInside
  <2> QED BY <2>1, GrownInside
<1> HIDE DEF G, A, M, Given
<1>5. ASSUME NEW d, NEW r \in Record
      PROVE  CopyOf(d, r) \in M <=>
               Given(d, r) /\ \A s \in Record : Given(d, s) /\ s.at = r.at => s.fidelity <= r.fidelity
  <2> DEFINE p == CopyOf(d, r)
  <2>1. p.channel = d /\ p.at = r.at /\ p.fidelity = r.fidelity
    BY CopiesDiffer
  <2>2. \A e : \A s \in Record : /\ CopyOf(e, s).channel = e /\ CopyOf(e, s).at = s.at
                                 /\ CopyOf(e, s).fidelity = s.fidelity
    BY CopiesDiffer
  <2>3. p \in A <=> Given(d, r)
    BY <1>2
  <2> HIDE DEF p
  <2>4. ASSUME p \in M, NEW s \in Record, Given(d, s), s.at = r.at PROVE s.fidelity <= r.fidelity
    <3>1. CopyOf(d, s) \in A
      BY <1>2, <2>4
    <3> QED BY <1>3, <2>1, <2>2, <2>4, <3>1
  <2>5. ASSUME p \in A, \A s \in Record : Given(d, s) /\ s.at = r.at => s.fidelity <= r.fidelity,
               NEW q \in A, q.channel = p.channel, q.at = p.at
        PROVE  q.fidelity <= p.fidelity
    <3>1. PICK e : \E s \in Record : q = CopyOf(e, s)
      BY <1>2
    <3>2. PICK s \in Record : q = CopyOf(e, s)
      BY <3>1
    <3>3. e = d /\ s.at = r.at
      BY <2>1, <2>2, <2>5, <3>2
    <3>4. Given(d, s)
      BY <1>2, <3>2, <3>3
    <3> QED BY <2>1, <2>2, <2>5, <3>2, <3>3, <3>4
  <2>6. p \in M => p \in A
    BY <1>3
  <2>7. p \in M <=> Given(d, r) /\ \A s \in Record : Given(d, s) /\ s.at = r.at => s.fidelity <= r.fidelity
    BY <1>3, <2>3, <2>4, <2>5, <2>6
  <2> QED BY <2>7 DEF p
<1>6. ASSUME NEW q \in HeldIn(G) PROVE q \in M
  <2>1. PICK b \in G : \E r \in b.records : q = CopyOf(b.channel, r)
    BY <1>1, HeldCopies
  <2>2. PICK r \in b.records : q = CopyOf(b.channel, r)
    BY <2>1
  <2>3. r \in Record
    BY <1>1, HeldCopies
  <2> QED BY <1>4, <1>5, <2>2, <2>3
<1>7. ASSUME NEW q \in M PROVE q \in HeldIn(G)
  <2>1. q \in A
    BY <1>3
  <2>2. PICK d : \E r \in Record : q = CopyOf(d, r)
    BY <1>2, <2>1
  <2> QED BY <1>4, <1>5, <2>2
<1> QED BY <1>6, <1>7 DEF G, M
LEMMA FewerHoldLess ==
  ASSUME NEW B, NEW C, B \subseteq C PROVE HeldIn(B) \subseteq HeldIn(C)
BY DEF HeldIn

LEMMA AppendIsAppend ==
  ASSUME NEW batch \in Batches, Stored(blocks, channels, totals), physical \in Nat,
         batch.channel \notin excluded,
         Store(batch.channel, batch.records), excluded' = excluded
  PROVE  Records!Append(Copies(batch.channel, batch.records))
<1> DEFINE c == batch.channel
           R == batch.records
           P == Copies(c, R)
           G == Grown(c, R)
<1>1. c \in StoreChannels /\ R \subseteq Record /\ R # {}
  BY StoreAssumption
<1>2. /\ blocks' = G \ Dropped(c, R) /\ Dropped(c, R) \subseteq OfIn(G, c) /\ G \subseteq Block
      /\ blocks' \subseteq G
  <2>1. /\ blocks' = G \ Dropped(c, R) /\ Dropped(c, R) \subseteq GrownOf(c, R)
        /\ GrownOf(c, R) = OfIn(G, c)
    BY <1>1, StoreGrows
  <2>2. G \subseteq Block
    BY <1>1, StoreGrows DEF Stored
  <2> QED BY <2>1, <2>2
<1>3. HeldIn(G) = Records!Merged(P)
  BY <1>1, GrownIsMerged
<1>4. \A q \in P : q.channel = c
  BY DEF Copies
<1>5. \E q \in P : q.channel = c
  BY <1>1, <1>4 DEF Copies
<1> HIDE DEF P, G
<1>6. HeldIn(blocks') \subseteq Records!Merged(P)
  BY <1>2, <1>3, FewerHoldLess
<1>7. ASSUME NEW r \in Records!Merged(P) \ HeldIn(blocks')
      PROVE  r.channel = c /\ Dropped(c, R) # {}
  <2>1. PICK b \in G : \E s \in b.records : r = CopyOf(b.channel, s)
    BY <1>2, <1>3, <1>7, HeldCopies
  <2>2. PICK s \in b.records : r = CopyOf(b.channel, s)
    BY <2>1
  <2>3. b \notin blocks'
    <3>1. blocks' \subseteq Block
      BY <1>2
    <3> QED BY <1>7, <2>2, <3>1, HeldCopies
  <2>4. b \in Dropped(c, R) /\ b.channel = c
    BY <1>2, <2>3 DEF OfIn
  <2> QED BY <2>2, <2>4 DEF CopyOf
<1>8. Dropped(c, R) # {} => Cardinality({q \in HeldIn(blocks') : q.channel = c}) >= TargetMessages
  <2>1. Stored(blocks', channels', totals')
    BY <1>1, StoreKeeps
  <2>2. Cardinality({q \in HeldIn(blocks') : q.channel = c}) = Messages(OfIn(blocks', c))
    BY <2>1, HeldCounts
  <2> QED BY <1>1, <2>2, TrimLeavesEnough
<1>9. Records!Append(P)
  <2>1. \A r \in P : r.channel \notin excluded
    BY <1>4
  <2>2. \A r \in Records!Merged(P) \ HeldIn(blocks') :
          /\ \E q \in P : q.channel = r.channel
          /\ Cardinality({q \in HeldIn(blocks') : q.channel = r.channel}) >= TargetMessages
    BY <1>5, <1>7, <1>8
  <2>3. \A S : Records!Cardinality(S) = Cardinality(S)
    BY Zenon DEF Records!Cardinality, Cardinality
  <2> HIDE DEF c, R
  <2> QED BY <1>6, <2>1, <2>2, <2>3 DEF Records!Append
<1> QED BY <1>9 DEF P

ExcludedHoldNothing == \A b \in blocks : b.channel \notin excluded

LEMMA ExclusionIsExclusion ==
  ASSUME NEW S, blocks \subseteq Block, blocks' = {b \in blocks : b.channel \notin S},
         \A b \in blocks' : b.channel \notin excluded', S \subseteq excluded'
  PROVE  Records!RecordNext
<1>1. ASSUME NEW r \in HeldIn(blocks') PROVE r \in HeldIn(blocks) /\ r.channel \notin excluded'
  <2>1. blocks' \subseteq Block /\ blocks' \subseteq blocks
    OBVIOUS
  <2>2. PICK b \in blocks' : \E s \in b.records : r = CopyOf(b.channel, s)
    BY <2>1, HeldCopies
  <2> QED BY <2>1, <2>2, FewerHoldLess DEF CopyOf
<1>2. ASSUME NEW r \in HeldIn(blocks), r.channel \notin excluded' PROVE r \in HeldIn(blocks')
  <2>1. PICK b \in blocks : \E s \in b.records : r = CopyOf(b.channel, s)
    BY HeldCopies
  <2>2. PICK s \in b.records : r = CopyOf(b.channel, s)
    BY <2>1
  <2>3. b \in blocks' /\ blocks' \subseteq Block
    BY <1>2, <2>2 DEF CopyOf
  <2> QED BY <2>2, <2>3, HeldCopies
<1>3. HeldIn(blocks') = {r \in HeldIn(blocks) : r.channel \notin excluded'}
  BY <1>1, <1>2
<1> QED BY <1>3 DEF Records!RecordNext, Records!Exclude

LEMMA ForgettingForgets ==
  ASSUME blocks' \subseteq blocks, excluded' = excluded PROVE Records!RecordNext
<1>1. HeldIn(blocks') \subseteq HeldIn(blocks)
  BY FewerHoldLess
<1> QED BY <1>1 DEF Records!RecordNext, Records!Forget
LEMMA RecordsStep ==
  ASSUME StoreInv, ExcludedHoldNothing, [StoreNext]_storeVars
  PROVE  /\ ExcludedHoldNothing'
         /\ [Records!RecordNext]_<<HeldIn(blocks), excluded>>
<1> DEFINE Maps == Records!RecordNext \/ UNCHANGED <<HeldIn(blocks), excluded>>
<1> SUFFICES ExcludedHoldNothing' /\ Maps
  OBVIOUS
<1>1. Stored(blocks, channels, totals) /\ blocks \subseteq Block /\ physical \in Nat
  BY DEF StoreInv, Stored, Places
<1>2. ASSUME UNCHANGED <<blocks, excluded>> PROVE ExcludedHoldNothing' /\ Maps
  BY <1>2 DEF ExcludedHoldNothing
<1>3. ASSUME blocks' \subseteq blocks, UNCHANGED excluded PROVE ExcludedHoldNothing' /\ Maps
  BY <1>3, ForgettingForgets DEF ExcludedHoldNothing
<1>4. ASSUME NEW c \in StoreChannels, AppendBatch(c) PROVE ExcludedHoldNothing' /\ Maps
  <2>1. PICK batch \in Batches : batch.channel = c /\ Store(c, batch.records)
    BY <1>4 DEF AppendBatch
  <2>2. c \notin excluded /\ excluded' = excluded
    BY <1>4 DEF AppendBatch
  <2>3. Records!RecordNext
    BY <1>1, <2>1, <2>2, AppendIsAppend DEF Records!RecordNext
  <2>4. batch.records \subseteq Record /\ batch.records # {}
    BY StoreAssumption
  <2> DEFINE R == batch.records
  <2> HIDE DEF R
  <2>5. Store(c, R) /\ R \subseteq Record /\ R # {}
    BY <2>1, <2>4 DEF R
  <2>6. /\ blocks' = Grown(c, R) \ Dropped(c, R)
        /\ \A b \in Added(c, R) : b.channel = c
        /\ \A u \in Enlarged(c, R) : \E b \in Overlapping(c, R) : u = Up(b, R)
        /\ Overlapping(c, R) \subseteq OfIn(blocks, c)
    BY <1>1, <2>5, StoreGrows
  <2>7. \A b \in Block : Up(b, R).channel = b.channel
    BY DEF Up, Block
  <2>8. \A b \in blocks' : b \in blocks \/ b.channel = c
    BY <1>1, <2>6, <2>7 DEF Grown, OfIn
  <2> QED BY <2>2, <2>3, <2>8 DEF ExcludedHoldNothing
<1>5. ASSUME NEW S, DropChannels(S), excluded' = excluded \cup S
      PROVE  ExcludedHoldNothing' /\ Maps
  <2>1. blocks' = {b \in blocks : b.channel \notin S}
    BY <1>5 DEF DropChannels, Of
  <2>2. \A b \in blocks' : b.channel \notin excluded'
    BY <1>5, <2>1 DEF ExcludedHoldNothing
  <2> QED BY <1>1, <1>5, <2>1, <2>2, ExclusionIsExclusion DEF ExcludedHoldNothing
<1>6. ASSUME NEW c \in Blockable, NEW b \in BOOLEAN, SetChannelBlocked(c, b)
      PROVE  ExcludedHoldNothing' /\ Maps
  <2>1. CASE b
    BY <1>5, <1>6, <2>1 DEF SetChannelBlocked
  <2>2. CASE ~b
    <3>1. blocks' = blocks /\ excluded' \subseteq excluded
      BY <1>6, <2>2 DEF SetChannelBlocked
    <3>2. \A d \in blocks' : d.channel \notin excluded'
      BY <3>1 DEF ExcludedHoldNothing
    <3>3. blocks' = {d \in blocks : d.channel \notin {}}
      BY <3>1
    <3> QED BY <1>1, <3>2, <3>3, ExclusionIsExclusion DEF ExcludedHoldNothing
  <2> QED BY <2>1, <2>2
<1>7. CASE RestartStore
  <2>1. PICK S \in SUBSET Blockable : excluded' = S /\ DropChannels(S)
    BY <1>7 DEF RestartStore, SyncBlockedChannels
  <2>2. blocks' = {b \in blocks : b.channel \notin S}
    BY <2>1 DEF DropChannels, Of
  <2> QED BY <1>1, <2>1, <2>2, ExclusionIsExclusion DEF ExcludedHoldNothing
<1>8. CASE ExpireBlocks \/ FinishExpiry \/ EvictBlocks \/ \E c \in StoreChannels : PurgeChannel(c)
  <2>1. \A S : DropChannels(S) => blocks' \subseteq blocks
    BY DEF DropChannels
  <2>2. blocks' \subseteq blocks /\ excluded' = excluded
    BY <1>8, <2>1 DEF ExpireBlocks, FinishExpiry, EvictBlocks, PurgeChannel
  <2> QED BY <1>3, <2>2
<1>9. CASE \/ \E c \in StoreChannels : TouchChannelRequested(c)
           \/ \E S \in SUBSET Pinnable : SyncAlwaysJoinChannels(S)
           \/ StartExpiry \/ MaintainSpace \/ Measure \/ (\E c \in Ceilings : PlanEviction(c))
           \/ PassTime \/ UNCHANGED storeVars
  <2>1. UNCHANGED <<blocks, excluded>>
    BY <1>9 DEF TouchChannelRequested, SyncAlwaysJoinChannels, StartExpiry, MaintainSpace,
                Measure, PlanEviction, PassTime, storeVars
  <2> QED BY <1>2, <2>1
<1> HIDE DEF Maps
<1>10. CASE StoreNext
  BY <1>4, <1>6, <1>7, <1>8, <1>9, <1>10 DEF StoreNext
<1>11. CASE UNCHANGED storeVars
  BY <1>9, <1>11
<1> QED BY <1>10, <1>11

\* The store refines a set of records: every append is one merge of its batch that
\* drops records of the channel only while TargetMessages stay, whatever blocks the
\* overlap query found; retention, purges and evictions only forget, and excluding a
\* channel, by command or at a start, leaves nothing of it.
THEOREM StoreImplementsRecords == StoreSpec => ImplementsRecordStore
<1>1. StoreInit => Records!RecordInit /\ ExcludedHoldNothing
  BY DEF StoreInit, Records!RecordInit, HeldIn, ExcludedHoldNothing
<1>2. StoreInv /\ ExcludedHoldNothing /\ [StoreNext]_storeVars =>
        ExcludedHoldNothing' /\ [Records!RecordNext]_<<HeldIn(blocks), excluded>>
  BY RecordsStep
<1> QED BY <1>1, <1>2, StoreInvariant, PTL
        DEF StoreSpec, ImplementsRecordStore, Records!RecordSpec

\* No append is a mere loss: append_transaction merges the whole of its batch, and what
\* it trims leaves the channel at least TargetMessages.
THEOREM AppendsAreMerges == StoreSpec => AppendsMerge
<1>1. ASSUME StoreInv, NEW c \in StoreChannels, AppendBatch(c)
      PROVE  \E batch \in Batches :
               batch.channel = c /\ Records!Append(Copies(c, batch.records))
  <2>1. PICK batch \in Batches : batch.channel = c /\ Store(c, batch.records)
    BY <1>1 DEF AppendBatch
  <2>2. /\ c \notin excluded /\ excluded' = excluded
        /\ Stored(blocks, channels, totals) /\ physical \in Nat
    BY <1>1 DEF AppendBatch, StoreInv, Places
  <2>3. Records!Append(Copies(c, batch.records))
    BY <2>1, <2>2, AppendIsAppend
  <2> QED BY <2>1, <2>3
<1>2. StoreInv /\ [StoreNext]_storeVars =>
        [\A c \in StoreChannels : AppendBatch(c) =>
           \E batch \in Batches :
             batch.channel = c /\ Records!Append(Copies(c, batch.records))]_storeVars
  BY <1>1
<1> QED BY <1>2, StoreInvariant, PTL DEF StoreSpec, AppendsMerge
-----------------------------------------------------------------------------
\* The open blocks: what is true of them between two steps.
InUse(B) == {c \in TailChannels : B[c] # NoOpen}
Held(B) == UNION {B[c].records : c \in InUse(B)}
Better(R) == {r \in R : r.fidelity = 1}
Counts(B) == [bytes |-> Weight(Held(B)), messages |-> Cardinality(Held(B))]
Left(B, S) == [c \in TailChannels |-> IF c \in S THEN NoOpen ELSE B[c]]
Sound(B) ==
  /\ B \in [TailChannels -> TailBlocks \cup {NoOpen}]
  /\ IsFiniteSet(InUse(B)) /\ IsFiniteSet(Held(B))
  /\ \A c \in InUse(B) : /\ B[c].records # {}
                         /\ \A r \in B[c].records : r.channel = c
                         /\ \A r, s \in B[c].records : Same(r, s) => r = s

LEMMA TailNumbers ==
  /\ TailChannels \subseteq Nat /\ MaxTailClock \in Nat /\ NoOpen \notin TailBlocks
  /\ TailBlock \in Nat \ {0} /\ MaxOpenChannels \in Nat \ {0} /\ MaxOpenBytes \in Nat \ {0}
  BY TailAssumption

LEMMA Weights ==
  ASSUME NEW R, NEW S, IsFiniteSet(R), IsFiniteSet(S), R \cap S = {}
  PROVE  /\ IsFiniteSet(R \cup S)
         /\ Weight(R) \in Nat /\ Cardinality(R) \in Nat
         /\ Weight(S) \in Nat /\ Cardinality(S) \in Nat
         /\ Cardinality(R \cup S) = Cardinality(R) + Cardinality(S)
         /\ Weight(R \cup S) = Weight(R) + Weight(S)
<1>1. ASSUME NEW A, NEW B, IsFiniteSet(A), IsFiniteSet(B), A \cap B = {}
      PROVE  /\ IsFiniteSet(A \cup B) /\ Cardinality(A) \in Nat /\ Cardinality(B) \in Nat
             /\ Cardinality(A \cup B) = Cardinality(A) + Cardinality(B)
  <2>1. /\ IsFiniteSet(A \cup B) /\ Cardinality(A) \in Nat /\ Cardinality(B) \in Nat
        /\ Cardinality(A \cup B) = Cardinality(A) + Cardinality(B) - Cardinality({})
    BY <1>1, FS_Union, FS_CardinalityType
  <2> QED BY <2>1, FS_EmptySet
<1>2. /\ IsFiniteSet(Better(R)) /\ IsFiniteSet(Better(S)) /\ Better(R) \cap Better(S) = {}
      /\ Better(R \cup S) = Better(R) \cup Better(S)
  <2>1. Better(R) \in SUBSET R /\ Better(S) \in SUBSET S
    BY DEF Better
  <2>2. Better(R \cup S) = Better(R) \cup Better(S)
    BY DEF Better
  <2> QED BY <2>1, <2>2, FS_Subset
<1>3. \A T : Weight(T) = Cardinality(T) + Cardinality(Better(T))
  BY DEF Weight, Better
<1>4. /\ Cardinality(Better(R)) \in Nat /\ Cardinality(Better(S)) \in Nat
      /\ Cardinality(Better(R \cup S)) = Cardinality(Better(R)) + Cardinality(Better(S))
  BY <1>1, <1>2
<1>5. /\ IsFiniteSet(R \cup S) /\ Cardinality(R) \in Nat /\ Cardinality(S) \in Nat
      /\ Cardinality(R \cup S) = Cardinality(R) + Cardinality(S)
  BY <1>1, Zenon
<1>6. /\ Weight(R) \in Nat /\ Weight(S) \in Nat
      /\ Weight(R \cup S) = Weight(R) + Weight(S)
  <2>1. /\ Weight(R) = Cardinality(R) + Cardinality(Better(R))
        /\ Weight(S) = Cardinality(S) + Cardinality(Better(S))
        /\ Weight(R \cup S) = Cardinality(R \cup S) + Cardinality(Better(R \cup S))
    BY <1>3, Zenon
  <2> QED BY <1>4, <1>5, <2>1
<1> QED BY <1>5, <1>6

LEMMA OneWeighs ==
  ASSUME NEW r \in TailRecord
  PROVE  /\ IsFiniteSet({r}) /\ Cardinality({r}) = 1 /\ Weight({r}) = Bytes(r) /\ Bytes(r) \in Nat
         /\ Weight({}) = 0
<1>1. r.fidelity \in {0, 1}
  BY DEF TailRecord
<1>2. IsFiniteSet({r}) /\ Cardinality({r}) = 1 /\ Cardinality({}) = 0
  BY FS_Singleton, FS_EmptySet
<1>3. CASE r.fidelity = 0
  <2>1. {s \in {r} : s.fidelity = 1} = {}
    BY <1>3
  <2> QED BY <1>2, <1>3, <2>1 DEF Weight, Bytes
<1>4. CASE r.fidelity = 1
  <2>1. {s \in {r} : s.fidelity = 1} = {r}
    BY <1>4
  <2>2. {s \in {} : s.fidelity = 1} = {}
    OBVIOUS
  <2> QED BY <1>2, <1>4, <2>1, <2>2 DEF Weight, Bytes
<1> QED BY <1>1, <1>3, <1>4

\* Taking blocks leaves the others as they are, and the counters exact.
LEMMA TakingKeeps ==
  ASSUME NEW B, Sound(B), NEW S, S \subseteq InUse(B)
  PROVE  /\ Sound(Left(B, S))
         /\ InUse(Left(B, S)) = InUse(B) \ S
         /\ \A c \in InUse(Left(B, S)) : Left(B, S)[c] = B[c]
         /\ Held(Left(B, S)) \subseteq Held(B)
         /\ Taken(B, Counts(B), S).open = Left(B, S)
         /\ Taken(B, Counts(B), S).estimated = Counts(Left(B, S))
         /\ Counts(B).messages \in Nat /\ Counts(B).bytes \in Nat
         /\ Counts(Left(B, S)).messages \in Nat /\ Counts(Left(B, S)).bytes \in Nat
         /\ Counts(Left(B, S)).messages <= Counts(B).messages
<1> DEFINE L == Left(B, S)
           gone == UNION {B[c].records : c \in S}
<1>1. /\ L \in [TailChannels -> TailBlocks \cup {NoOpen}]
      /\ InUse(L) = InUse(B) \ S
      /\ \A c \in InUse(L) : L[c] = B[c]
  BY DEF Sound, InUse, Left
<1> HIDE DEF L
<1>2. Held(B) = Held(L) \cup gone
  BY <1>1 DEF Held
<1>3. Held(L) \cap gone = {}
  BY <1>1 DEF Held, Sound
<1>4. IsFiniteSet(Held(L)) /\ IsFiniteSet(gone) /\ IsFiniteSet(InUse(L))
  <2>1. Held(L) \in SUBSET Held(B) /\ gone \in SUBSET Held(B) /\ InUse(L) \in SUBSET InUse(B)
    BY <1>1, <1>2
  <2> HIDE DEF gone
  <2> QED BY <2>1, FS_Subset DEF Sound
<1>5. Sound(L)
  BY <1>1, <1>4 DEF Sound
<1>6. /\ Weight(Held(L)) \in Nat /\ Cardinality(Held(L)) \in Nat
      /\ Weight(gone) \in Nat /\ Cardinality(gone) \in Nat
      /\ Weight(Held(B)) = Weight(Held(L)) + Weight(gone)
      /\ Cardinality(Held(B)) = Cardinality(Held(L)) + Cardinality(gone)
  <2> HIDE DEF gone
  <2> QED BY <1>2, <1>3, <1>4, Weights
<1>7. /\ Taken(B, Counts(B), S).open = L
      /\ Taken(B, Counts(B), S).estimated =
           [bytes |-> Weight(Held(B)) - Weight(gone),
            messages |-> Cardinality(Held(B)) - Cardinality(gone)]
  BY DEF Taken, Counts, Left, L
<1>8. Taken(B, Counts(B), S).estimated = Counts(L)
  <2> HIDE DEF gone
  <2>1. /\ Weight(Held(B)) - Weight(gone) = Weight(Held(L))
        /\ Cardinality(Held(B)) - Cardinality(gone) = Cardinality(Held(L))
    BY <1>6
  <2> QED BY <1>7, <2>1 DEF Counts
<1>9. /\ Counts(B).messages \in Nat /\ Counts(B).bytes \in Nat
      /\ Counts(L).messages \in Nat /\ Counts(L).bytes \in Nat
      /\ Counts(L).messages <= Counts(B).messages
  <2> HIDE DEF gone
  <2> QED BY <1>6 DEF Counts
<1> QED BY <1>1, <1>2, <1>5, <1>7, <1>8, <1>9 DEF L
\* The open blocks in the order they are sealed in when there are too many.
Turn(B, c) == Cardinality({d \in InUse(B) : Sooner(B, d, c)})
Early(B, n) == {c \in InUse(B) : Turn(B, c) < n}

LEMMA SoonerIsAnOrder ==
  ASSUME NEW B, Sound(B), NEW c \in InUse(B), NEW d \in InUse(B), NEW e \in InUse(B)
  PROVE  /\ ~Sooner(B, c, c)
         /\ Sooner(B, c, d) /\ Sooner(B, d, e) => Sooner(B, c, e)
         /\ c # d => Sooner(B, c, d) \/ Sooner(B, d, c)
<1>1. ASSUME NEW x \in InUse(B) PROVE x \in Nat /\ B[x].appended \in Nat /\ B[x].opened \in Nat
  BY TailNumbers DEF Sound, InUse, TailBlocks
<1>2. /\ c \in Nat /\ B[c].appended \in Nat /\ B[c].opened \in Nat
      /\ d \in Nat /\ B[d].appended \in Nat /\ B[d].opened \in Nat
      /\ e \in Nat /\ B[e].appended \in Nat /\ B[e].opened \in Nat
  BY <1>1
<1> QED BY <1>2 DEF Sooner

LEMMA TurnsCount ==
  ASSUME NEW B, Sound(B)
  PROVE  /\ Cardinality(InUse(B)) \in Nat
         /\ \A c \in InUse(B) : Turn(B, c) \in 0 .. Cardinality(InUse(B)) - 1
         /\ \A n \in 0 .. Cardinality(InUse(B)) :
              Cardinality(InUse(B) \ Early(B, n)) <= Cardinality(InUse(B)) - n
<1> DEFINE U == InUse(B)
           Ahead(c) == {d \in U : Sooner(B, d, c)}
<1>1. IsFiniteSet(U) /\ Cardinality(U) \in Nat
  BY FS_CardinalityType DEF Sound
<1>2. ASSUME NEW c \in U
      PROVE  /\ IsFiniteSet(Ahead(c)) /\ Cardinality(Ahead(c)) \in 0 .. Cardinality(U) - 1
             /\ Turn(B, c) = Cardinality(Ahead(c))
  <2>1. Ahead(c) \in SUBSET U /\ c \notin Ahead(c)
    BY SoonerIsAnOrder
  <2>2. /\ IsFiniteSet(Ahead(c)) /\ Cardinality(Ahead(c)) <= Cardinality(U)
        /\ Cardinality(Ahead(c)) # Cardinality(U) /\ Cardinality(Ahead(c)) \in Nat
    <3> HIDE DEF Ahead
    <3> QED BY <1>1, <2>1, FS_Subset, FS_CardinalityType
  <2>3. Turn(B, c) = Cardinality(Ahead(c))
    BY DEF Turn
  <2> QED BY <1>1, <2>2, <2>3
<1>3. ASSUME NEW c \in U, NEW d \in U, Sooner(B, c, d) PROVE Turn(B, c) # Turn(B, d)
  <2>1. Ahead(c) \in SUBSET Ahead(d) /\ c \in Ahead(d) /\ c \notin Ahead(c)
    BY <1>3, SoonerIsAnOrder
  <2> HIDE DEF Ahead, U
  <2>2. Cardinality(Ahead(c)) # Cardinality(Ahead(d))
    BY <1>2, <2>1, FS_Subset
  <2> QED BY <1>2, <2>2
<1>4. ASSUME NEW c \in U, NEW d \in U, Turn(B, c) = Turn(B, d) PROVE c = d
  BY <1>3, <1>4, SoonerIsAnOrder
<1>5. ASSUME NEW n \in 0 .. Cardinality(U)
      PROVE  Cardinality(U \ Early(B, n)) <= Cardinality(U) - n
  <2> DEFINE late == U \ Early(B, n)
             f == [c \in late |-> Turn(B, c)]
             T == n .. Cardinality(U) - 1
  <2>1. f \in Injection(late, T)
    <3>1. \A c \in late : c \in U /\ ~(Turn(B, c) < n)
      BY DEF Early
    <3>2. \A c \in late : Turn(B, c) \in T
      <4>1. \A c \in late : Turn(B, c) \in 0 .. Cardinality(U) - 1
        BY <1>2, <3>1
      <4> HIDE DEF late, U
      <4> QED BY <1>1, <3>1, <4>1
    <3> HIDE DEF late, T
    <3>3. f \in [late -> T]
      BY <3>2
    <3>4. \A c, d \in late : f[c] = f[d] => c = d
      BY <1>4, <3>1
    <3> QED BY <3>3, <3>4 DEF Injection, IsInjective
  <2>2. IsFiniteSet(T) /\ Cardinality(T) = Cardinality(U) - n
    <3>1. Cardinality(U) - 1 \in Int /\ n \in Int
      BY <1>1
    <3>2. IsFiniteSet(T) /\ Cardinality(T) = IF n > Cardinality(U) - 1 THEN 0
                                             ELSE Cardinality(U) - 1 - n + 1
      BY <3>1, FS_Interval
    <3> HIDE DEF U, T
    <3> QED BY <1>1, <3>2
  <2> HIDE DEF late, f, T
  <2>3. Cardinality(late) <= Cardinality(T)
    BY <2>1, <2>2, FS_Injection
  <2> QED BY <2>2, <2>3 DEF late
<1> QED BY <1>1, <1>2, <1>5

\* What is sealed to keep the bounds leaves channels and bytes in bounds.
LEMMA ExcessFits ==
  ASSUME NEW B, Sound(B)
  PROVE  /\ Excess(B, Counts(B)) \subseteq InUse(B)
         /\ Cardinality(InUse(B) \ Excess(B, Counts(B))) <= MaxOpenChannels
         /\ Counts(Left(B, Excess(B, Counts(B)))).bytes <= MaxOpenBytes
<1> DEFINE U == InUse(B)
           fits(n) == /\ Cardinality(U) - n <= MaxOpenChannels
                      /\ Taken(B, Counts(B), Early(B, n)).estimated.bytes <= MaxOpenBytes
           Fit == {n \in 0 .. Cardinality(U) : fits(n)}
<1>1. Excess(B, Counts(B)) = Early(B, Min(Fit))
  BY DEF Excess, Early, Turn, InUse
<1>2. Cardinality(U) \in Nat
  BY TurnsCount
<1>3. Fit # {}
  <2>1. Early(B, Cardinality(U)) = U
    BY <1>2, TurnsCount DEF Early
  <2>2. Held(Left(B, U)) = {}
    <3>1. InUse(Left(B, U)) = {}
      BY TakingKeeps
    <3> QED BY <3>1 DEF Held
  <2>3. Counts(Left(B, U)).bytes = 0
    <3>1. {r \in {} : r.fidelity = 1} = {} /\ Cardinality({}) = 0
      BY FS_EmptySet
    <3>2. Weight({}) = 0
      BY <3>1 DEF Weight
    <3> QED BY <2>2, <3>2 DEF Counts
  <2>4. Taken(B, Counts(B), U).estimated.bytes = 0
    BY <2>3, TakingKeeps
  <2>5. fits(Cardinality(U))
    BY <1>2, <2>1, <2>4, TailNumbers
  <2> QED BY <1>2, <2>5
<1>4. Min(Fit) \in Fit
  <2>1. Fit \subseteq 0 .. Cardinality(U) /\ 0 \in Int /\ Cardinality(U) \in Int
    BY <1>2
  <2> HIDE DEF Fit
  <2>2. \E m \in Fit : \A o \in Fit : m <= o
    BY <1>3, <2>1, Extremes
  <2> QED BY <2>2 DEF Min
<1> DEFINE n == Min(Fit)
<1>5. n \in 0 .. Cardinality(U) /\ fits(n)
  BY <1>4
<1>6. Early(B, n) \subseteq U
  BY DEF Early
<1> HIDE DEF n
<1>7. Cardinality(U \ Early(B, n)) <= MaxOpenChannels
  <2>1. Cardinality(U \ Early(B, n)) <= Cardinality(U) - n
    BY <1>5, TurnsCount
  <2>2. Cardinality(U \ Early(B, n)) \in Nat
    <3>1. IsFiniteSet(U) /\ U \ Early(B, n) \in SUBSET U
      BY DEF Sound
    <3> QED BY <3>1, FS_Subset, FS_CardinalityType
  <2> QED BY <1>2, <1>5, <2>1, <2>2, TailNumbers
<1>8. Counts(Left(B, Early(B, n))).bytes <= MaxOpenBytes
  BY <1>5, <1>6, TakingKeeps
<1> QED BY <1>1, <1>6, <1>7, <1>8 DEF n

\* The counters are those of the blocks, and every block and their number fit.
TailInv ==
  /\ Sound(open) /\ estimated = Counts(open) /\ tailClock \in 0 .. MaxTailClock
  /\ \A c \in InUse(open) : Cardinality(open[c].records) < TailBlock
  /\ Cardinality(InUse(open)) <= MaxOpenChannels

LEMMA TailInvSuffices == TailInv => TailIsCounted
  BY DEF TailInv, TailIsCounted, Sound, Counts, Opened, InMemory, InUse, Held

LEMMA SealingKeeps ==
  ASSUME TailInv, NEW S, S \subseteq InUse(open), UNCHANGED tailClock,
         open' = Taken(open, estimated, S).open,
         estimated' = Taken(open, estimated, S).estimated
  PROVE  TailInv' /\ estimated'.messages <= estimated.messages
<1>1. open' = Left(open, S) /\ estimated' = Counts(Left(open, S))
  BY TakingKeeps DEF TailInv
<1>2. /\ Sound(open') /\ InUse(open') = InUse(open) \ S
      /\ \A c \in InUse(open') : open'[c] = open[c]
      /\ estimated' = Counts(open') /\ estimated'.messages <= estimated.messages
  BY <1>1, TakingKeeps DEF TailInv
<1>3. Cardinality(InUse(open')) <= MaxOpenChannels
  <2>1. IsFiniteSet(InUse(open)) /\ InUse(open') \in SUBSET InUse(open)
    BY <1>2 DEF TailInv, Sound
  <2>2. /\ Cardinality(InUse(open')) <= Cardinality(InUse(open))
        /\ Cardinality(InUse(open')) \in Nat /\ Cardinality(InUse(open)) \in Nat
    BY <2>1, FS_Subset, FS_CardinalityType
  <2> QED BY <2>2, TailNumbers DEF TailInv
<1> QED BY <1>2, <1>3 DEF TailInv

\* A new event joins its channel's block.
LEMMA AppendingKeeps ==
  ASSUME TailInv, NEW r \in TailRecord, AppendNew(r), UNCHANGED tailClock
  PROVE  TailInv' /\ estimated'.bytes <= MaxOpenBytes
<1> DEFINE c == r.channel
           old == IF open[c] = NoOpen
                  THEN [records |-> {}, opened |-> tailClock, appended |-> tailClock]
                  ELSE open[c]
           block == [old EXCEPT !.records = @ \cup {r}, !.appended = tailClock]
           B == [open EXCEPT ![c] = block]
           counts == [bytes |-> estimated.bytes + Bytes(r), messages |-> estimated.messages + 1]
           full == IF Cardinality(block.records) >= TailBlock THEN {c} ELSE {}
           rest == Taken(B, counts, full)
           E == Excess(rest.open, rest.estimated)
<1>1. /\ \A s \in old.records : ~Same(r, s)
      /\ Seal(B, counts, full \cup E)
  BY DEF AppendNew
<1>2. c \in TailChannels
  BY DEF TailRecord
<1>3. /\ Sound(open) /\ estimated = Counts(open) /\ tailClock \in 0 .. MaxTailClock
      /\ open \in [TailChannels -> TailBlocks \cup {NoOpen}]
      /\ IsFiniteSet(InUse(open)) /\ IsFiniteSet(Held(open))
  BY DEF TailInv, Sound
<1>4. /\ old \in TailBlocks
      /\ \A s \in old.records : s.channel = c
      /\ \A s, t \in old.records : Same(s, t) => s = t
      /\ old.records \subseteq Held(open)
  <2>1. CASE open[c] = NoOpen
    BY <1>3, <2>1 DEF TailBlocks
  <2>2. CASE open[c] # NoOpen
    BY <1>2, <1>3, <2>2 DEF Sound, InUse, Held
  <2> QED BY <2>1, <2>2
<1>5. block \in TailBlocks /\ block.records = old.records \cup {r}
  BY <1>3, <1>4 DEF TailBlocks
<1>6. r \notin Held(open)
  <2> SUFFICES ASSUME NEW d \in InUse(open), r \in open[d].records PROVE FALSE
    BY DEF Held
  <2>1. d = c
    BY <1>3 DEF Sound
  <2>2. r \in old.records
    BY <2>1 DEF InUse
  <2> QED BY <1>1, <2>2 DEF Same
<1> HIDE DEF block
<1>7. B \in [TailChannels -> TailBlocks \cup {NoOpen}]
  BY <1>2, <1>3, <1>5
<1>8. InUse(B) = InUse(open) \cup {c} /\ \A d \in InUse(B) : B[d] = IF d = c THEN block ELSE open[d]
  BY <1>2, <1>3, <1>5, TailNumbers DEF InUse
<1> HIDE DEF B
<1>9. Held(B) = Held(open) \cup {r}
  <2>1. Held(B) \subseteq Held(open) \cup {r}
    <3> SUFFICES ASSUME NEW d \in InUse(B), NEW s \in B[d].records
                 PROVE  s \in Held(open) \cup {r}
      BY DEF Held
    <3>1. CASE d = c
      <4>1. s \in old.records \cup {r}
        BY <1>5, <1>8, <3>1
      <4> QED BY <1>4, <4>1
    <3>2. CASE d # c
      <4>1. d \in InUse(open) /\ s \in open[d].records
        BY <1>8, <3>2
      <4> QED BY <4>1 DEF Held
    <3> QED BY <3>1, <3>2
  <2>2. r \in Held(B)
    <3>1. c \in InUse(B) /\ r \in B[c].records
      BY <1>5, <1>8
    <3> QED BY <3>1 DEF Held
  <2>3. ASSUME NEW d \in InUse(open) PROVE open[d].records \subseteq B[d].records
    <3>1. CASE d = c
      BY <1>5, <1>8, <3>1 DEF InUse
    <3>2. CASE d # c
      BY <1>8, <3>2
    <3> QED BY <3>1, <3>2
  <2>4. Held(open) \subseteq Held(B)
    BY <1>8, <2>3 DEF Held
  <2> QED BY <2>1, <2>2, <2>4
<1>10. IsFiniteSet(InUse(B)) /\ IsFiniteSet(Held(B))
  <2>1. IsFiniteSet(InUse(open) \cup {c}) /\ IsFiniteSet(Held(open) \cup {r})
    BY <1>3, FS_AddElement
  <2> QED BY <1>8, <1>9, <2>1
<1>11. ASSUME NEW d \in InUse(B)
       PROVE  /\ B[d].records # {}
              /\ \A s \in B[d].records : s.channel = d
              /\ \A s, t \in B[d].records : Same(s, t) => s = t
  <2>1. CASE d = c
    <3>1. B[d].records = old.records \cup {r}
      BY <1>5, <1>8, <2>1
    <3> HIDE DEF old
    <3> QED BY <1>1, <1>4, <2>1, <3>1 DEF Same
  <2>2. CASE d # c
    BY <1>3, <1>8, <2>2 DEF Sound
  <2> QED BY <2>1, <2>2
<1>12. Sound(B)
  BY <1>7, <1>10, <1>11 DEF Sound
<1>13. counts = Counts(B)
  <2>1. IsFiniteSet({r}) /\ Cardinality({r}) = 1 /\ Weight({r}) = Bytes(r)
    BY OneWeighs
  <2>2. /\ Weight(Held(open) \cup {r}) = Weight(Held(open)) + Bytes(r)
        /\ Cardinality(Held(open) \cup {r}) = Cardinality(Held(open)) + 1
    <3>1. Held(open) \cap {r} = {}
      BY <1>6
    <3>2. /\ Weight(Held(open) \cup {r}) = Weight(Held(open)) + Weight({r})
          /\ Cardinality(Held(open) \cup {r}) = Cardinality(Held(open)) + Cardinality({r})
      BY <1>3, <2>1, <3>1, Weights
    <3> QED BY <2>1, <3>2
  <2> QED BY <1>3, <1>9, <2>2 DEF Counts
<1> HIDE DEF counts
<1>14. full \subseteq InUse(B)
  BY <1>8
<1> DEFINE L == Left(B, full)
<1>15. rest.open = L /\ rest.estimated = Counts(L) /\ Sound(L) /\ InUse(L) = InUse(B) \ full
       /\ \A d \in InUse(L) : L[d] = B[d]
  BY <1>12, <1>13, <1>14, TakingKeeps
<1>16. /\ E \subseteq InUse(L) /\ Cardinality(InUse(L) \ E) <= MaxOpenChannels
       /\ Counts(Left(L, E)).bytes <= MaxOpenBytes
  BY <1>15, ExcessFits
<1>17. \A d \in InUse(B) : d \notin full => Cardinality(B[d].records) < TailBlock
  <2> SUFFICES ASSUME NEW d \in InUse(B), d \notin full
               PROVE  Cardinality(B[d].records) < TailBlock
    OBVIOUS
  <2>1. CASE d = c
    <3>1. B[d].records = block.records /\ ~(Cardinality(block.records) >= TailBlock)
      BY <1>8, <2>1
    <3>2. block.records \in SUBSET Held(B)
      BY <1>8, <2>1 DEF Held
    <3>3. Cardinality(block.records) \in Nat
      BY <1>10, <3>2, FS_Subset, FS_CardinalityType
    <3> QED BY <3>1, <3>3, TailNumbers
  <2>2. CASE d # c
    BY <1>8, <2>2 DEF TailInv
  <2> QED BY <2>1, <2>2
<1> HIDE DEF full, rest, E
<1>18. Left(B, full \cup E) = Left(L, E)
  BY DEF Left
<1>19. /\ Sound(Left(L, E)) /\ InUse(Left(L, E)) = InUse(L) \ E
       /\ \A d \in InUse(Left(L, E)) : Left(L, E)[d] = L[d]
  BY <1>15, <1>16, TakingKeeps
<1>20. open' = Left(L, E) /\ estimated' = Counts(Left(L, E))
  <2>1. full \cup E \subseteq InUse(B)
    BY <1>14, <1>15, <1>16
  <2>2. /\ Taken(B, counts, full \cup E).open = Left(B, full \cup E)
        /\ Taken(B, counts, full \cup E).estimated = Counts(Left(B, full \cup E))
    BY <1>12, <1>13, <2>1, TakingKeeps
  <2> QED BY <1>1, <1>18, <2>2 DEF Seal
<1> HIDE DEF L
<1>21. \A d \in InUse(open') : Cardinality(open'[d].records) < TailBlock
  BY <1>15, <1>17, <1>19, <1>20
<1> QED BY <1>3, <1>16, <1>19, <1>20, <1>21 DEF TailInv
\* A better copy takes the place of the one that is open.
LEMMA BetterCopyKeeps ==
  ASSUME TailInv, NEW r \in TailRecord, Upgrade(r), UNCHANGED tailClock
  PROVE  TailInv' /\ estimated'.messages = estimated.messages
<1> DEFINE c == r.channel
<1>1. PICK s \in open[c].records :
        /\ Same(r, s) /\ r.fidelity > s.fidelity
        /\ open' = [open EXCEPT ![c].records = (@ \ {s}) \cup {r}]
        /\ estimated' = [estimated EXCEPT !.bytes = @ - Bytes(s) + Bytes(r)]
  BY DEF Upgrade
<1>2. c \in InUse(open)
  BY DEF Upgrade, TailRecord, InUse
<1>3. /\ Sound(open) /\ estimated = Counts(open)
      /\ open \in [TailChannels -> TailBlocks \cup {NoOpen}]
      /\ IsFiniteSet(InUse(open)) /\ IsFiniteSet(Held(open))
      /\ open[c] \in TailBlocks /\ c \in TailChannels
  BY <1>2 DEF TailInv, Sound, InUse
<1>4. /\ s \in TailRecord /\ s \in Held(open) /\ s # r
      /\ \A t \in open[c].records : Same(r, t) => t = s
  <2>1. s \in TailRecord /\ s \in Held(open)
    BY <1>1, <1>2, <1>3 DEF TailBlocks, Held
  <2>2. s # r
    BY <1>1, <2>1 DEF TailRecord
  <2>3. ASSUME NEW t \in open[c].records, Same(r, t) PROVE t = s
    <3>1. Same(s, t)
      BY <1>1, <2>3 DEF Same
    <3> QED BY <1>2, <1>3, <3>1 DEF Sound
  <2> QED BY <2>1, <2>2, <2>3
<1>5. r \notin Held(open)
  <2> SUFFICES ASSUME NEW d \in InUse(open), r \in open[d].records PROVE FALSE
    BY DEF Held
  <2>1. d = c
    BY <1>3 DEF Sound
  <2> QED BY <1>4, <2>1 DEF Same
<1> DEFINE R == open[c].records
<1>6. /\ open' \in [TailChannels -> TailBlocks \cup {NoOpen}]
      /\ InUse(open') = InUse(open)
      /\ \A d \in InUse(open) : open'[d].records = IF d = c THEN (R \ {s}) \cup {r}
                                                   ELSE open[d].records
  <2>1. [open[c] EXCEPT !.records = (R \ {s}) \cup {r}] \in TailBlocks
    BY <1>3 DEF TailBlocks
  <2>2. open' = [open EXCEPT ![c] = [open[c] EXCEPT !.records = (R \ {s}) \cup {r}]]
    BY <1>1
  <2>3. [open[c] EXCEPT !.records = (R \ {s}) \cup {r}].records = (R \ {s}) \cup {r}
    BY <1>3 DEF TailBlocks
  <2> DEFINE block == [open[c] EXCEPT !.records = (R \ {s}) \cup {r}]
  <2> HIDE DEF block
  <2>4. block \in TailBlocks /\ block.records = (R \ {s}) \cup {r}
        /\ open' = [open EXCEPT ![c] = block]
    BY <2>1, <2>2, <2>3 DEF block
  <2>5. open' \in [TailChannels -> TailBlocks \cup {NoOpen}]
    BY <1>3, <2>4
  <2>6. InUse(open') = InUse(open)
    BY <1>2, <1>3, <2>4, TailNumbers DEF InUse
  <2>7. \A d \in InUse(open) : open'[d] = IF d = c THEN block ELSE open[d]
    BY <1>3, <2>4 DEF InUse
  <2> QED BY <2>4, <2>5, <2>6, <2>7
<1>7. Held(open') = (Held(open) \ {s}) \cup {r}
  <2>1. ASSUME NEW x \in Held(open') PROVE x \in (Held(open) \ {s}) \cup {r}
    <3>1. PICK d \in InUse(open) : x \in open'[d].records
      BY <1>6 DEF Held
    <3>2. CASE d = c
      <4>1. x \in (R \ {s}) \cup {r}
        BY <1>6, <3>1, <3>2
      <4>2. R \subseteq Held(open)
        BY <1>2 DEF Held
      <4> QED BY <4>1, <4>2
    <3>3. CASE d # c
      <4>1. x \in open[d].records
        BY <1>6, <3>1, <3>3
      <4>2. x \in Held(open) /\ x # s
        BY <1>1, <1>2, <1>3, <3>3, <4>1 DEF Held, Sound
      <4> QED BY <4>2
    <3> QED BY <3>2, <3>3
  <2>2. ASSUME NEW x \in Held(open) \ {s} PROVE x \in Held(open')
    <3>1. PICK d \in InUse(open) : x \in open[d].records
      BY DEF Held
    <3>2. x \in open'[d].records
      BY <1>6, <3>1
    <3> QED BY <1>6, <3>1, <3>2 DEF Held
  <2>3. r \in Held(open')
    <3>1. r \in open'[c].records
      BY <1>2, <1>6
    <3> QED BY <1>2, <1>6, <3>1 DEF Held
  <2> QED BY <2>1, <2>2, <2>3
<1> DEFINE H == Held(open) \ {s}
<1>8. /\ IsFiniteSet(H) /\ H \cap {s} = {} /\ H \cap {r} = {}
      /\ Held(open) = H \cup {s} /\ Held(open') = H \cup {r}
  BY <1>3, <1>4, <1>5, <1>7, FS_RemoveElement
<1>9. /\ Weight(H) \in Nat /\ Cardinality(H) \in Nat
      /\ Weight(Held(open)) = Weight(H) + Bytes(s) /\ Bytes(s) \in Nat
      /\ Cardinality(Held(open)) = Cardinality(H) + 1
      /\ Weight(Held(open')) = Weight(H) + Bytes(r) /\ Bytes(r) \in Nat
      /\ Cardinality(Held(open')) = Cardinality(H) + 1
      /\ IsFiniteSet(Held(open'))
  <2>1. ASSUME NEW x \in TailRecord, H \cap {x} = {}
        PROVE  /\ Weight(H) \in Nat /\ Cardinality(H) \in Nat
               /\ Weight(H \cup {x}) = Weight(H) + Bytes(x) /\ Bytes(x) \in Nat
               /\ Cardinality(H \cup {x}) = Cardinality(H) + 1
               /\ IsFiniteSet(H \cup {x})
    <3>1. IsFiniteSet({x}) /\ Cardinality({x}) = 1 /\ Weight({x}) = Bytes(x) /\ Bytes(x) \in Nat
      BY OneWeighs
    <3> HIDE DEF H
    <3>2. /\ Weight(H) \in Nat /\ Cardinality(H) \in Nat
          /\ IsFiniteSet(H \cup {x})
          /\ Weight(H \cup {x}) = Weight(H) + Weight({x})
          /\ Cardinality(H \cup {x}) = Cardinality(H) + Cardinality({x})
      BY <1>8, <2>1, <3>1, Weights
    <3> QED BY <3>1, <3>2
  <2> HIDE DEF H
  <2> QED BY <1>4, <1>8, <2>1
<1>10. estimated' = Counts(open') /\ estimated'.messages = estimated.messages
  <2>1. estimated' = [bytes |-> Weight(Held(open)) - Bytes(s) + Bytes(r),
                      messages |-> Cardinality(Held(open))]
    BY <1>1, <1>3 DEF Counts
  <2>2. Weight(Held(open)) - Bytes(s) + Bytes(r) = Weight(Held(open'))
    <3> HIDE DEF H
    <3> QED BY <1>9
  <2>3. Cardinality(Held(open)) = Cardinality(Held(open'))
    BY <1>9
  <2> QED BY <1>3, <2>1, <2>2, <2>3 DEF Counts
<1>11. ASSUME NEW d \in InUse(open')
       PROVE  /\ open'[d].records # {}
              /\ \A t \in open'[d].records : t.channel = d
              /\ \A t, u \in open'[d].records : Same(t, u) => t = u
              /\ Cardinality(open'[d].records) < TailBlock
  <2>1. CASE d = c
    <3>1. open'[d].records = (R \ {s}) \cup {r}
      BY <1>6, <2>1
    <3>2. \A t \in R : t.channel = c
      BY <1>2, <1>3 DEF Sound
    <3>3. \A t, u \in R : Same(t, u) => t = u
      BY <1>2, <1>3 DEF Sound
    <3>4. \A t \in R \ {s} : ~Same(r, t) /\ ~Same(t, r)
      BY <1>4 DEF Same
    <3>5. Cardinality((R \ {s}) \cup {r}) = Cardinality(R)
      <4>1. R \in SUBSET Held(open) /\ s \in R /\ r \notin R \ {s}
        BY <1>1, <1>2, <1>5 DEF Held
      <4>2. IsFiniteSet(R) /\ Cardinality(R) \in Nat
        BY <1>3, <4>1, FS_Subset, FS_CardinalityType
      <4>3. IsFiniteSet(R \ {s}) /\ Cardinality(R \ {s}) = Cardinality(R) - 1
        BY <4>1, <4>2, FS_RemoveElement
      <4>4. Cardinality((R \ {s}) \cup {r}) = Cardinality(R \ {s}) + 1
        BY <4>1, <4>3, FS_AddElement
      <4> QED BY <4>2, <4>3, <4>4
    <3>6. Cardinality(R) < TailBlock
      BY <1>2 DEF TailInv
    <3> HIDE DEF R
    <3>7. Cardinality(open'[d].records) < TailBlock /\ open'[d].records # {}
      BY <3>1, <3>5, <3>6
    <3>8. \A t \in open'[d].records : t.channel = d
      BY <2>1, <3>1, <3>2
    <3>9. \A t, u \in open'[d].records : Same(t, u) => t = u
      BY <3>1, <3>3, <3>4
    <3> QED BY <3>7, <3>8, <3>9
  <2>2. CASE d # c
    BY <1>6, <2>2 DEF TailInv, Sound
  <2> QED BY <2>1, <2>2
<1>12. Sound(open')
  BY <1>3, <1>6, <1>9, <1>11 DEF Sound
<1> QED BY <1>6, <1>10, <1>11, <1>12 DEF TailInv

\* One case per operation: what it keeps, and the bytes it may leave.
LEMMA TailStep ==
  ASSUME TailInv, [TailNext]_tailVars
  PROVE  /\ TailInv'
         /\ estimated'.messages > estimated.messages => estimated'.bytes <= MaxOpenBytes
<1>1. estimated.messages \in Nat /\ estimated.bytes \in Nat
  <2>1. /\ Counts(open).messages \in Nat /\ Counts(open).bytes \in Nat
    BY TakingKeeps DEF TailInv
  <2> QED BY <2>1 DEF TailInv
<1>2. ASSUME NEW S, S \subseteq InUse(open), UNCHANGED tailClock,
             open' = Taken(open, estimated, S).open,
             estimated' = Taken(open, estimated, S).estimated
      PROVE  TailInv' /\ ~(estimated'.messages > estimated.messages)
  <2>1. TailInv' /\ estimated'.messages <= estimated.messages
    BY <1>2, SealingKeeps
  <2>2. estimated'.messages \in Nat
    <3>1. estimated' = Counts(Left(open, S))
      BY <1>2, TakingKeeps DEF TailInv
    <3> QED BY <1>2, <3>1, TakingKeeps DEF TailInv
  <2> QED BY <1>1, <2>1, <2>2
<1>3. ASSUME NEW r \in TailRecord, AppendTail(r)
      PROVE  /\ TailInv'
             /\ estimated'.messages > estimated.messages => estimated'.bytes <= MaxOpenBytes
  <2>1. (AppendNew(r) \/ Upgrade(r)) /\ UNCHANGED tailClock
    BY <1>3 DEF AppendTail
  <2>2. CASE AppendNew(r)
    BY <2>1, <2>2, AppendingKeeps
  <2>3. CASE Upgrade(r)
    BY <1>1, <2>1, <2>3, BetterCopyKeeps
  <2> QED BY <2>1, <2>2, <2>3
<1>4. ASSUME open' = [c \in TailChannels |-> NoOpen],
             estimated' = [bytes |-> 0, messages |-> 0], tailClock' \in 0 .. MaxTailClock
      PROVE  TailInv' /\ estimated'.bytes <= MaxOpenBytes
  <2>1. InUse(open') = {} /\ Held(open') = {}
    BY <1>4 DEF InUse, Held
  <2>2. IsFiniteSet({}) /\ Cardinality({}) = 0 /\ {r \in {} : r.fidelity = 1} = {}
    BY FS_EmptySet
  <2>3. Weight({}) = 0
    BY <2>2 DEF Weight
  <2>4. Sound(open')
    BY <1>4, <2>1, <2>2 DEF Sound
  <2>5. estimated' = Counts(open')
    BY <1>4, <2>1, <2>2, <2>3 DEF Counts
  <2>6. Cardinality(InUse(open')) <= MaxOpenChannels
    BY <2>1, <2>2, TailNumbers
  <2>7. estimated'.bytes <= MaxOpenBytes
    BY <1>4, TailNumbers
  <2> QED BY <1>4, <2>1, <2>4, <2>5, <2>6, <2>7 DEF TailInv
<1>5. CASE ClockMovedBackwards
  BY <1>4, <1>5 DEF ClockMovedBackwards, TailInv
<1>6. CASE SealDueTail
  BY <1>2, <1>6 DEF SealDueTail, Seal, Opened, InUse
<1>7. CASE SealAllTail
  BY <1>2, <1>7 DEF SealAllTail, Seal, Opened, InUse
<1>8. ASSUME NEW c \in TailChannels, PurgeTailOf(c)
      PROVE  TailInv' /\ ~(estimated'.messages > estimated.messages)
  <2>1. {c} \subseteq InUse(open) /\ UNCHANGED tailClock
    BY <1>8 DEF PurgeTailOf, InUse
  <2>2. /\ open' = Taken(open, estimated, {c}).open
        /\ estimated' = Taken(open, estimated, {c}).estimated
    BY <1>8 DEF PurgeTailOf
  <2> QED BY <1>2, <2>1, <2>2
<1>9. ASSUME UNCHANGED <<open, estimated>>, tailClock' \in 0 .. MaxTailClock
      PROVE  TailInv' /\ ~(estimated'.messages > estimated.messages)
  BY <1>1, <1>9 DEF TailInv, Sound, Counts, InUse, Held
<1>10. CASE StoreSealed
  BY <1>9, <1>10 DEF StoreSealed, TailInv
<1>11. ASSUME NEW c \in TailChannels, ReadStore(c) \/ ReadOpen(c)
       PROVE  TailInv' /\ ~(estimated'.messages > estimated.messages)
  BY <1>9, <1>11 DEF ReadStore, ReadOpen, TailInv
<1>12. CASE Respond
  BY <1>9, <1>12 DEF Respond, TailInv
<1>13. CASE ClockMoves
  BY <1>9, <1>13 DEF ClockMoves
<1>14. CASE UNCHANGED tailVars
  BY <1>9, <1>14 DEF tailVars, TailInv
<1> QED
  BY <1>3, <1>5, <1>6, <1>7, <1>8, <1>10, <1>11, <1>12, <1>13, <1>14 DEF TailNext
LEMMA TailInitially == TailInit => TailInv
<1> SUFFICES ASSUME TailInit PROVE TailInv
  OBVIOUS
<1>1. /\ open = [c \in TailChannels |-> NoOpen] /\ tailClock = 0
      /\ estimated = [bytes |-> 0, messages |-> 0]
  BY DEF TailInit
<1>2. InUse(open) = {} /\ Held(open) = {}
  BY <1>1 DEF InUse, Held
<1>3. IsFiniteSet({}) /\ Cardinality({}) = 0 /\ {r \in {} : r.fidelity = 1} = {}
  BY FS_EmptySet
<1>4. Weight({}) = 0
  BY <1>3 DEF Weight
<1>5. Sound(open)
  BY <1>1, <1>2, <1>3 DEF Sound
<1>6. estimated = Counts(open)
  BY <1>1, <1>2, <1>3, <1>4 DEF Counts
<1>7. Cardinality(InUse(open)) <= MaxOpenChannels /\ 0 \in 0 .. MaxTailClock
  BY <1>2, <1>3, TailNumbers
<1> QED BY <1>1, <1>2, <1>5, <1>6, <1>7 DEF TailInv

LEMMA TailInvariant == TailSpec => []TailInv
<1>1. TailInv /\ [TailNext]_tailVars => TailInv'
  BY TailStep
<1> QED BY <1>1, TailInitially, PTL DEF TailSpec

\* For any channels, events, limits and ages: after every append, better copy, seal,
\* purge and restart the running estimates are what the open blocks hold, each of
\* them is within its limits and so is their number (enforce_bounds and take_block
\* of open_blocks.rs).
THEOREM OpenBlocksAreCounted == TailSpec => []TailIsCounted
<1> QED BY TailInvariant, TailInvSuffices, PTL

\* A new event never leaves memory over its byte limit, whatever better copies did
\* before: the loop of enforce_bounds always finds blocks enough to seal.
THEOREM NewEventsAreBounded == TailSpec => NewEventsFit
<1>1. TailInv /\ [TailNext]_tailVars
        => [estimated'.messages > estimated.messages => estimated'.bytes <= MaxOpenBytes]_tailVars
  BY TailStep
<1> QED BY <1>1, TailInvariant, PTL DEF TailSpec, NewEventsFit
-----------------------------------------------------------------------------
Offsets == -1 .. LastSequence

LEMMA OffsetBounds == -1 \in Int /\ LastSequence \in Int
  BY OffsetAssumption

\* The recursion of Advance: from one row to the row that starts after it.
Follows(f, rows, from) ==
  f = [o \in from .. LastSequence |->
         IF \E b \in rows : b.first = o + 1
         THEN f[(CHOOSE b \in rows : b.first = o + 1).last]
         ELSE o]

Covered(rows) == UNION {b.first .. b.last : b \in rows}

LEMMA NextRow ==
  ASSUME NEW rows, rows \subseteq JournalRows, NEW o \in Offsets,
         \E b \in rows : b.first = o + 1
  PROVE  LET n == CHOOSE b \in rows : b.first = o + 1
         IN n \in rows /\ n.first = o + 1 /\ n.last \in o + 1 .. LastSequence
<1> DEFINE n == CHOOSE b \in rows : b.first = o + 1
<1>1. n \in rows /\ n.first = o + 1
  OBVIOUS
<1>2. n \in JournalRows
  BY <1>1
<1>3. n.last \in o + 1 .. LastSequence
  BY <1>1, <1>2, OffsetAssumption DEF JournalRows, Offsets
<1> QED BY <1>1, <1>3

\* The recursion always runs up, so it is defined from every offset.
LEMMA AdvanceIsDefined ==
  ASSUME NEW rows, rows \subseteq JournalRows, NEW from \in Offsets
  PROVE  \E f : Follows(f, rows, from)
<1> USE OffsetAssumption
<1> DEFINE S == {o \in Offsets : ~\E f : Follows(f, rows, o)}
<1> SUFFICES ASSUME S # {} PROVE FALSE
  OBVIOUS
<1>1. PICK m \in S : \A o \in S : o <= m
  BY OffsetBounds, Extremes DEF Offsets
<1>2. CASE m = LastSequence
  <2> DEFINE f == [o \in m .. LastSequence |-> o]
  <2>1. ~\E b \in rows : b.first = LastSequence + 1
    BY DEF JournalRows
  <2>2. m .. LastSequence = {LastSequence}
    BY <1>2
  <2>3. Follows(f, rows, m)
    BY <1>2, <2>1, <2>2 DEF Follows
  <2> QED BY <2>3
<1>3. CASE m # LastSequence
  <2>1. m + 1 \in Offsets /\ m + 1 \notin S
    BY <1>1, <1>3 DEF Offsets
  <2>2. PICK g : Follows(g, rows, m + 1)
    BY <2>1
  <2> DEFINE n == CHOOSE b \in rows : b.first = m + 1
             f == [o \in m .. LastSequence |->
                     IF o = m THEN IF \E b \in rows : b.first = m + 1 THEN g[n.last] ELSE m
                     ELSE g[o]]
  <2>3. \A o \in m + 1 .. LastSequence : f[o] = g[o]
    BY <1>1 DEF Offsets
  <2>4. ASSUME NEW o \in m .. LastSequence, \E b \in rows : b.first = o + 1
        PROVE  (CHOOSE b \in rows : b.first = o + 1).last \in m + 1 .. LastSequence
    <3>1. o \in Offsets
      BY DEF Offsets
    <3>2. (CHOOSE b \in rows : b.first = o + 1).last \in o + 1 .. LastSequence
      BY <2>4, <3>1, NextRow
    <3> QED BY <3>1, <3>2 DEF Offsets
  <2>5. ASSUME NEW o \in m .. LastSequence
        PROVE  f[o] = IF \E b \in rows : b.first = o + 1
                      THEN f[(CHOOSE b \in rows : b.first = o + 1).last] ELSE o
    <3>1. CASE o = m
      <4>1. CASE \E b \in rows : b.first = m + 1
        <5>1. n.last \in m + 1 .. LastSequence
          BY <2>4, <3>1, <4>1
        <5> HIDE DEF n
        <5>2. f[n.last] = g[n.last] /\ f[m] = g[n.last]
          BY <2>3, <3>1, <4>1, <5>1
        <5> QED BY <3>1, <4>1, <5>2 DEF n
      <4>2. CASE ~\E b \in rows : b.first = m + 1
        BY <3>1, <4>2
      <4> QED BY <4>1, <4>2
    <3>2. CASE o # m
      <4>1. o \in m + 1 .. LastSequence
        BY <3>2 DEF Offsets
      <4>2. g[o] = IF \E b \in rows : b.first = o + 1
                   THEN g[(CHOOSE b \in rows : b.first = o + 1).last] ELSE o
        BY <2>2, <4>1 DEF Follows
      <4> DEFINE l == (CHOOSE b \in rows : b.first = o + 1).last
      <4>3. (\E b \in rows : b.first = o + 1) => f[l] = g[l]
        BY <2>3, <2>4
      <4>4. f[o] = g[o]
        BY <2>3, <4>1
      <4> HIDE DEF f, l
      <4> QED BY <4>2, <4>3, <4>4 DEF l
    <3> QED BY <3>1, <3>2
  <2>6. Follows(f, rows, m)
    <3>1. DOMAIN f = m .. LastSequence /\ f = [o \in DOMAIN f |-> f[o]]
      OBVIOUS
    <3> HIDE DEF f
    <3> QED BY <2>5, <3>1 DEF Follows
  <2> QED BY <2>6
<1> QED BY <1>2, <1>3

\* Where it ends, it ends at or after where it began, and every sequence in
\* between is in a row.
LEMMA AdvanceIsCovered ==
  ASSUME NEW rows, rows \subseteq JournalRows, NEW from \in Offsets
  PROVE  /\ Advance(rows, from) \in from .. LastSequence
         /\ from + 1 .. Advance(rows, from) \subseteq Covered(rows)
<1> USE OffsetAssumption
<1> DEFINE f == CHOOSE g : Follows(g, rows, from)
<1>1. Advance(rows, from) = f[from]
  BY DEF Advance, Follows
<1>2. Follows(f, rows, from)
  BY AdvanceIsDefined
<1> HIDE DEF f
<1> DEFINE Good(o) == f[o] \in o .. LastSequence /\ o + 1 .. f[o] \subseteq Covered(rows)
           S == {o \in from .. LastSequence : ~Good(o)}
<1>3. S = {}
  <2> SUFFICES ASSUME S # {} PROVE FALSE
    OBVIOUS
  <2>1. S \subseteq Offsets
    BY DEF Offsets
  <2>2. PICK m \in S : \A o \in S : o <= m
    BY <2>1, OffsetBounds, Extremes DEF Offsets
  <2>3. m \in Offsets /\ m \in from .. LastSequence
    BY <2>1
  <2>4. CASE \E b \in rows : b.first = m + 1
    <3> DEFINE n == CHOOSE b \in rows : b.first = m + 1
    <3>1. n \in rows /\ n.first = m + 1 /\ n.last \in m + 1 .. LastSequence
      BY <2>3, <2>4, NextRow
    <3>2. f[m] = f[n.last]
      BY <1>2, <2>3, <2>4 DEF Follows
    <3> HIDE DEF n
    <3>3. n.last \in from .. LastSequence /\ n.last > m
      BY <2>3, <3>1 DEF Offsets
    <3>4. Good(n.last)
      <4>1. n.last \notin S
        BY <2>2, <2>3, <3>3 DEF Offsets
      <4> QED BY <3>3, <4>1
    <3>5. m + 1 .. n.last \subseteq Covered(rows)
      BY <3>1 DEF Covered
    <3>6. f[m] \in m .. LastSequence
      BY <2>3, <3>1, <3>2, <3>4 DEF Offsets
    <3>7. m + 1 .. f[m] \subseteq (m + 1 .. n.last) \cup (n.last + 1 .. f[n.last])
      BY <2>3, <3>1, <3>2, <3>3, <3>6 DEF Offsets
    <3> QED BY <2>2, <3>4, <3>5, <3>6, <3>7
  <2>5. CASE ~\E b \in rows : b.first = m + 1
    <3>1. f[m] = m
      BY <1>2, <2>3, <2>5 DEF Follows
    <3> QED BY <2>2, <2>3, <3>1 DEF Offsets
  <2> QED BY <2>4, <2>5
<1>4. from \in from .. LastSequence
  BY DEF Offsets
<1> QED BY <1>1, <1>3, <1>4

\* What the offset rests on: the rows still held and the offset itself.
JournalInv ==
  /\ journal \subseteq JournalRows
  /\ Covered(journal) \subseteq received
  /\ committed \in Offsets \cup {NoOffset}
  /\ committed = NoOffset => began = NoOffset
  /\ committed # NoOffset => began \in -1 .. committed
  /\ OffsetCoversNoGap

LEMMA OffsetStep == JournalInv /\ [OffsetNext]_offsetVars => JournalInv'
<1> SUFFICES ASSUME JournalInv, [OffsetNext]_offsetVars PROVE JournalInv'
  OBVIOUS
<1> USE OffsetAssumption DEF JournalInv, OffsetCoversNoGap
<1>1. ASSUME NEW b \in JournalRows, AcceptJournal(b) PROVE JournalInv'
  <2> DEFINE from == IF committed = NoOffset THEN b.first - 1 ELSE committed
  <2>1. /\ journal' = journal \cup {b} /\ committed' = Advance(journal', from)
        /\ began' = (IF committed = NoOffset THEN from ELSE began)
        /\ received' = received \cup (b.first .. b.last)
    BY <1>1 DEF AcceptJournal
  <2>2. b.first \in 0 .. LastSequence /\ b.last \in b.first .. LastSequence
    BY DEF JournalRows
  <2>3. from \in Offsets
    BY <2>2 DEF Offsets, NoOffset
  <2>4. journal' \subseteq JournalRows
    BY <2>1
  <2>5. Covered(journal') \subseteq received'
    BY <2>1 DEF Covered
  <2>6. /\ committed' \in from .. LastSequence
        /\ from + 1 .. committed' \subseteq received'
    BY <2>1, <2>3, <2>4, <2>5, AdvanceIsCovered
  <2>7. b.first \in received'
    BY <2>1, <2>2
  <2>8. began' \in -1 .. from /\ began' + 1 .. from \subseteq received
    <3>1. CASE committed = NoOffset
      BY <2>1, <2>2, <2>3, <3>1 DEF Offsets
    <3>2. CASE committed # NoOffset
      BY <2>1, <3>2 DEF Offsets
    <3> QED BY <3>1, <3>2
  <2> HIDE DEF from
  <2>9. began' + 1 .. committed' \subseteq (began' + 1 .. from) \cup (from + 1 .. committed')
    <3>1. from \in Int /\ began' \in Int /\ committed' \in Int
      BY <2>3, <2>6, <2>8 DEF Offsets
    <3>2. \A i, j, k \in Int : i + 1 .. k \subseteq (i + 1 .. j) \cup (j + 1 .. k)
      OBVIOUS
    <3> QED BY <3>1, <3>2
  <2>10. committed' \in Offsets /\ committed' # NoOffset /\ began' \in -1 .. committed'
    BY <2>3, <2>6, <2>8 DEF Offsets, NoOffset
  <2>11. began' + 1 .. committed' \subseteq received'
    BY <2>1, <2>6, <2>8, <2>9
  <2> QED BY <2>4, <2>5, <2>7, <2>10, <2>11
<1>2. ASSUME NEW r \in journal, RetireJournal(r.last) PROVE JournalInv'
  BY <1>2 DEF RetireJournal, Covered
<1>3. CASE UNCHANGED offsetVars
  BY <1>3 DEF offsetVars
<1> QED BY <1>1, <1>2, <1>3 DEF OffsetNext

\* For every range of sequences and every order, repetition and overlap of the
\* batches: whatever lies between where a stream began and its committed offset
\* was accepted.
THEOREM OffsetsHaveNoGaps == OffsetSpec => []OffsetCoversNoGap
<1>1. OffsetInit => JournalInv
  BY OffsetAssumption DEF OffsetInit, JournalInv, OffsetCoversNoGap, Covered, Offsets, NoOffset
<1>2. JournalInv => OffsetCoversNoGap
  BY DEF JournalInv
<1> QED BY <1>1, <1>2, OffsetStep, PTL DEF OffsetSpec
=============================================================================
