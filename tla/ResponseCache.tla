--------------------------- MODULE ResponseCache ---------------------------
(***************************************************************************)
(* The adaptive response cache in front of the public read: while the node *)
(* is under pressure a request may be answered with a recent response to   *)
(* the same URL instead of a read.  Bodies are sizes; what an answer shows *)
(* is the time its read of the stores took place.                          *)
(***************************************************************************)
EXTENDS Integers, Sequences, FiniteSets, SequencesExt

CONSTANTS CacheKeys, Visitors,
          MaxAge, PressureHold, EnterInflight,
          MaxEntries, MaxBytes, MaxEntryBytes,
          Sizes,           \* body sizes a response may have
          MaxCacheClock    \* bound: ticks in a behaviour

ASSUME CacheConfig ==
  /\ {MaxAge, PressureHold, EnterInflight, MaxEntries, MaxBytes, MaxEntryBytes}
       \subseteq Nat \ {0}
  /\ MaxEntryBytes <= MaxBytes
  /\ Sizes \subseteq Nat /\ MaxCacheClock \in Nat

VARIABLES
  instant,   \* monotonic time
  cache,     \* key -> [at, readAt, size]: the entries present
  order,     \* insertion order of the keys
  bytes,     \* the running byte count
  pressed,   \* pressure lasts until this instant (-1: none)
  visitor,   \* request -> [pc, key, start, readAt]
  hitAge     \* history: how long before its use the last cached answer was read

cacheVars == <<instant, cache, order, bytes, pressed, visitor, hitAge>>

Quiet == [pc |-> "idle", key |-> CHOOSE k \in CacheKeys : TRUE, start |-> 0, readAt |-> 0]
Active == Cardinality({v \in Visitors : visitor[v].pc # "idle"})
WithEntry(k, e) == [x \in DOMAIN cache \cup {k} |-> IF x = k THEN e ELSE cache[x]]
Without(f, k) == [x \in DOMAIN f \ {k} |-> f[x]]

-----------------------------------------------------------------------------
(* pressure_active, get and insert *)

Pressed == IF Active >= EnterInflight THEN instant + PressureHold ELSE pressed
PressureActive == Pressed > instant

Usable(k) == k \in DOMAIN cache /\ instant - cache[k].at <= MaxAge

SizeOf(c) == Cardinality(UNION {{k} \X (1..c[k].size) : k \in DOMAIN c})

\* insertion_order.retain: every place of the key goes, the others keep their order.
Retained(keys, k) ==
  LET left[n \in 0..Len(keys)] ==
        IF n = 0 THEN <<>>
        ELSE IF keys[n] = k THEN left[n - 1] ELSE Append(left[n - 1], keys[n])
  IN left[Len(keys)]

\* What insert leaves of the cache with one more response: the oldest insertions
\* go until both bounds hold.
EvictUntilBounded(entries, keys, total) ==
  LET Kept(n) == [k \in {x \in DOMAIN entries : \E i \in n + 1..Len(keys) : keys[i] = x}
                    |-> entries[k]]
      Total(n) == total - (SizeOf(entries) - SizeOf(Kept(n)))
      Fits(n) == Cardinality(DOMAIN Kept(n)) <= MaxEntries /\ Total(n) <= MaxBytes
      n == CHOOSE i \in 0..Len(keys) :
             (Fits(i) \/ i = Len(keys)) /\ \A j \in 0..i - 1 : ~Fits(j)
  IN [entries |-> Kept(n), keys |-> SubSeq(keys, n + 1, Len(keys)), total |-> Total(n)]

\* MUTANT of Insert: the entry being replaced is still counted and queued.
InsertTwice(k, e) ==
  LET s == EvictUntilBounded(WithEntry(k, e), Append(order, k), bytes + e.size)
  IN cache' = s.entries /\ order' = s.keys /\ bytes' = s.total

Insert(k, e) ==
  LET kept == IF k \in DOMAIN cache THEN bytes - cache[k].size ELSE bytes
      s == EvictUntilBounded(WithEntry(k, e),
                             Append(Retained(order, k), k),
                             kept + e.size)
  IN cache' = s.entries /\ order' = s.keys /\ bytes' = s.total

\* MUTANT of Entry: the age of an answer is counted from its completion.
EntryAtCompletion(v, size) ==
  [at |-> instant, readAt |-> visitor[v].readAt, size |-> size]

\* An answer's age is counted from the arrival of the request that computed it.
Entry(v, size) ==
  [at |-> visitor[v].start, readAt |-> visitor[v].readAt, size |-> size]

-----------------------------------------------------------------------------
\* adaptive_response_cache: under pressure a usable entry answers, an expired one
\* is removed; otherwise the request goes on to the handler.
Arrive(v) ==
  /\ visitor[v].pc = "idle"
  /\ pressed' = IF PressureActive THEN Pressed ELSE -1
  /\ \E k \in CacheKeys :
       \/ /\ PressureActive /\ Usable(k)
          /\ hitAge' = instant - cache[k].readAt
          /\ UNCHANGED <<cache, order, bytes, visitor>>
       \/ /\ ~(PressureActive /\ Usable(k))
          /\ visitor' = [visitor EXCEPT ![v] =
               [pc |-> "started", key |-> k, start |-> instant, readAt |-> 0]]
          /\ IF PressureActive /\ k \in DOMAIN cache
               THEN /\ cache' = Without(cache, k)
                    /\ order' = Retained(order, k)
                    /\ bytes' = bytes - cache[k].size
               ELSE UNCHANGED <<cache, order, bytes>>
          /\ UNCHANGED hitAge
  /\ UNCHANGED instant

\* The handler reads the stores; another request may overtake it.
ReadStores(v) ==
  /\ visitor[v].pc = "started"
  /\ visitor' = [visitor EXCEPT ![v].pc = "read", ![v].readAt = instant]
  /\ UNCHANGED <<instant, cache, order, bytes, pressed, hitAge>>

\* capture_response: only a success whose body fits is kept.
Respond(v) ==
  /\ visitor[v].pc = "read"
  /\ visitor' = [visitor EXCEPT ![v] = Quiet]
  /\ \/ \E size \in Sizes :
          size <= MaxEntryBytes /\ Insert(visitor[v].key, Entry(v, size))
     \/ UNCHANGED <<cache, order, bytes>>
  /\ UNCHANGED <<instant, pressed, hitAge>>

CacheTick ==
  /\ instant < MaxCacheClock
  /\ instant' = instant + 1
  /\ UNCHANGED <<cache, order, bytes, pressed, visitor, hitAge>>

CacheInit ==
  /\ instant = 0 /\ cache = <<>> /\ order = <<>> /\ bytes = 0 /\ pressed = -1
  /\ visitor = [v \in Visitors |-> Quiet] /\ hitAge = 0

CacheNext ==
  \/ \E v \in Visitors : Arrive(v) \/ ReadStores(v) \/ Respond(v)
  \/ CacheTick
CacheSpec == CacheInit /\ [][CacheNext]_cacheVars

-----------------------------------------------------------------------------
\* The counters follow the entries through every replacement, expiry and
\* eviction: otherwise the loop of insert would evict everything or nothing.
CacheTypeOK ==
  /\ DOMAIN cache \subseteq CacheKeys
  /\ ToSet(order) = DOMAIN cache /\ IsInjective(order)
  /\ bytes = SizeOf(cache)
  /\ Cardinality(DOMAIN cache) <= MaxEntries /\ bytes <= MaxBytes

\* An answer from the cache misses nothing that was stored, and shows nothing that
\* was purged or opted out, more than MaxAge before it was given, however slow the
\* request that computed it was.
StalenessIsBounded == hitAge <= MaxAge
=============================================================================
