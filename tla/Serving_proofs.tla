--------------------------- MODULE Serving_proofs ---------------------------
(***************************************************************************)
(* The read path: the sessions of the web server, for every number of      *)
(* concurrent requests and every validation interval and lifetime; its     *)
(* response cache, for every number of requests, entries and bytes; the    *)
(* completeness of a read, for every request and every finite set of       *)
(* recorded intervals; and the parts side by side, as module MCServing     *)
(* composes them, with those of Repair_proofs and Peers_proofs.            *)
(***************************************************************************)
EXTENDS MCServing, Repair_proofs, Peers_proofs, FiniteSetTheorems, SequenceTheorems,
        WellFoundedInduction, TLAPS

\* What SessionTypeOK says of rows and copies needs to know of Twitch's state.
TwitchTypes ==
  /\ twitch \in [grantLost : -1..MaxSessionClock, token : 0..MaxTokens, valid : BOOLEAN]
  /\ twitch.grantLost <= now

\* A copy is as old as its Twitch token, and a stored row is as well.
Copies ==
  /\ client \in [Clients -> [pc : {"idle", "helix", "refresh", "save", "handler"},
                             auth : Authorizations \cup {NoRow}, retry : BOOLEAN,
                             checked : -1..MaxSessionClock]]
  /\ \A c \in Clients :
       client[c].pc # "idle" =>
         client[c].auth.validated <= now /\ client[c].auth.token <= twitch.token

\* Nothing is stamped as validated once the grant is lost, and a request that has
\* been checked was checked before that, or on a stamp Recheck old at most.
NoLateStamp ==
  twitch.grantLost # Never =>
    /\ row # NoRow => row.validated <= twitch.grantLost
    /\ \A c \in Clients :
         /\ client[c].pc # "idle" => client[c].auth.validated <= twitch.grantLost
         /\ client[c].pc \in {"save", "handler"} =>
              client[c].checked <= twitch.grantLost + Recheck

SessionInv == SessionTypeOK /\ TwitchTypes /\ Copies /\ NoLateStamp

LEMMA NoRowIsNoAuthorization == \A a \in Authorizations : a # NoRow
  BY SessionBounds DEF Authorizations

LEMMA SessionInitially == SessionInit => SessionInv
  BY SessionBounds, NoRowIsNoAuthorization
  DEF SessionInit, SessionInv, SessionTypeOK, TwitchTypes, Copies, NoLateStamp, Authorizations, Never

LEMMA SessionStep == SessionInv /\ [SessionNext]_sessionVars => SessionInv'
<1> SUFFICES ASSUME SessionInv, [SessionNext]_sessionVars PROVE SessionInv'
  OBVIOUS
<1> USE SessionBounds, NoRowIsNoAuthorization
        DEF SessionInv, SessionTypeOK, TwitchTypes, Copies, NoLateStamp, Never
<1>1. ASSUME NEW c \in Clients, Authenticate(c) PROVE SessionInv'
  <2>1. row \in Authorizations /\ row.validated \in Nat
    BY <1>1 DEF Authenticate, Live, Authorizations
  <2>2. twitch.grantLost # Never /\ Fresh(row) => now <= twitch.grantLost + Recheck
    BY <1>1, <2>1 DEF Authenticate, Live, Fresh
  <2> QED BY <1>1, <2>1, <2>2 DEF Authenticate, Live
<1>2. ASSUME NEW c \in Clients, HelixAnswers(c) PROVE SessionInv'
  <2>1. CASE client' = Rest(c)
    BY <1>2, <2>1 DEF HelixAnswers, Rest
  <2>2. CASE client' = [client EXCEPT ![c].pc = "refresh", ![c].retry = FALSE]
    BY <1>2, <2>2 DEF HelixAnswers
  <2>3. CASE /\ Valid(client[c].auth.token)
             /\ client' = [client EXCEPT ![c] = [@ EXCEPT !.pc = "save", !.auth.validated = now,
                                                          !.checked = now]]
    <3> DEFINE copy == [client[c].auth EXCEPT !.validated = now]
               stamped == [client[c] EXCEPT !.pc = "save", !.auth = copy, !.checked = now]
    <3>1. client[c].auth \in Authorizations /\ now \in 0..MaxSessionClock
      BY <1>2 DEF HelixAnswers
    <3>2. /\ copy \in Authorizations
          /\ copy.validated = now /\ copy.token = client[c].auth.token
      BY <3>1 DEF Authorizations
    <3>3. twitch.grantLost = Never
      BY <2>3 DEF Valid
    <3>4. client' = [client EXCEPT ![c] = stamped]
      BY <2>3
    <3> HIDE DEF copy
    <3>5. /\ stamped \in [pc : {"idle", "helix", "refresh", "save", "handler"},
                         auth : Authorizations \cup {NoRow}, retry : BOOLEAN,
                         checked : -1..MaxSessionClock]
          /\ stamped.pc = "save" /\ stamped.auth = copy /\ stamped.checked = now
      <4>1. client[c] \in [pc : {"idle", "helix", "refresh", "save", "handler"},
                           auth : Authorizations \cup {NoRow}, retry : BOOLEAN,
                           checked : -1..MaxSessionClock]
        OBVIOUS
      <4>2. now \in -1..MaxSessionClock
        BY <3>1
      <4> QED BY <3>2, <4>1, <4>2
    <3> HIDE DEF stamped
    <3>6. UNCHANGED <<now, row, twitch, loggedOut>> /\ client[c].auth.token <= twitch.token
      BY <1>2 DEF HelixAnswers
    <3>7. \A d \in Clients : client'[d] = IF d = c THEN stamped ELSE client[d]
      BY <3>4
    <3>8. Copies'
      BY <3>1, <3>2, <3>4, <3>5, <3>6, <3>7
    <3>9. SessionTypeOK' /\ TwitchTypes' /\ NoLateStamp'
      BY <3>1, <3>2, <3>3, <3>5, <3>6, <3>7
    <3> QED BY <3>8, <3>9
  <2> QED BY <1>2, <2>1, <2>2, <2>3 DEF HelixAnswers
<1>3. ASSUME NEW c \in Clients, RefreshToken(c) PROVE SessionInv'
  <2>1. CASE client' = Rest(c)
    BY <1>3, <2>1 DEF RefreshToken, Rest
  <2>2. CASE /\ twitch.grantLost = Never /\ twitch.token < MaxTokens
             /\ twitch' = [twitch EXCEPT !.token = @ + 1, !.valid = TRUE]
             /\ client' = [client EXCEPT ![c].pc = "helix", ![c].auth.token = twitch.token + 1]
    BY <1>3, <2>2 DEF RefreshToken, Authorizations
  <2> QED BY <1>3, <2>1, <2>2 DEF RefreshToken
<1>4. ASSUME NEW c \in Clients, SaveValidated(c) PROVE SessionInv'
  BY <1>4 DEF SaveValidated
<1>5. ASSUME NEW c \in Clients, UseSession(c) \/ SaveFails(c) PROVE SessionInv'
  BY <1>5 DEF UseSession, SaveFails, SessionDone, Rest
<1>6. ASSUME NEW c \in Clients, ExtendToken(c) PROVE SessionInv'
  <2>1. client[c].auth \in Authorizations /\ now + SessionTtl \in 0..(MaxSessionClock + SessionTtl)
    BY <1>6 DEF ExtendToken
  <2>2. /\ row' \in Authorizations
        /\ row'.validated = client[c].auth.validated /\ row'.token = client[c].auth.token
    BY <1>6, <2>1 DEF ExtendToken, Authorizations
  <2> QED BY <1>6, <2>2 DEF ExtendToken, Rest
<1>7. ASSUME NEW c \in Clients, RevokeToken(c) PROVE SessionInv'
  BY <1>7 DEF RevokeToken, Rest
<1>8. ASSUME GrantLost PROVE SessionInv'
  BY <1>8 DEF GrantLost
<1>9. ASSUME TokenExpires PROVE SessionInv'
  BY <1>9 DEF TokenExpires
<1>10. ASSUME SessionTick PROVE SessionInv'
  <2>1. \A a \in Authorizations : a.validated \in Nat
    BY DEF Authorizations
  <2> QED BY <1>10, <2>1 DEF SessionTick
<1>11. ASSUME UNCHANGED sessionVars PROVE SessionInv'
  BY <1>11 DEF sessionVars
<1> QED
  BY <1>1, <1>2, <1>3, <1>4, <1>5, <1>6, <1>7, <1>8, <1>9, <1>10, <1>11 DEF SessionNext

\* Rows and copies are authorizations of issued tokens, validated in the past.
THEOREM SessionsAreTyped == SessionSpec => []SessionTypeOK
<1>1. SessionInv => SessionTypeOK
  BY DEF SessionInv
<1> QED BY <1>1, SessionInitially, SessionStep, PTL DEF SessionSpec

\* A user who disconnects the application is served at most Recheck longer, however
\* requests in flight overwrite each other's rows (auth_middleware.rs).
THEOREM LostGrantsStop == SessionSpec => []GrantLossStopsRequests
<1>1. SessionInv => GrantLossStopsRequests
  BY DEF SessionInv, NoLateStamp, GrantLossStopsRequests
<1> QED BY <1>1, SessionInitially, SessionStep, PTL DEF SessionSpec

Dormant == ~Live /\ \A c \in Clients : client[c].pc = "idle"

\* A session that is over and has no request in flight stays over, for ever: an
\* upsert can only come from a request that authenticated while it was live (db.rs).
THEOREM DeadSessions == SessionSpec => DeadSessionStaysDead
<1>1. SessionInv /\ Dormant /\ [SessionNext]_sessionVars => Dormant'
  <2> SUFFICES ASSUME SessionInv, Dormant, [SessionNext]_sessionVars PROVE Dormant'
    OBVIOUS
  <2>1. row # NoRow => row.validUntil \in Nat /\ now \in Nat
    BY SessionBounds DEF SessionInv, SessionTypeOK, Authorizations
  <2>2. UNCHANGED <<row, client>> /\ now' \in {now, now + 1}
    BY DEF SessionNext, Dormant, sessionVars, Authenticate, HelixAnswers, RefreshToken, SaveValidated,
           UseSession, ExtendToken, RevokeToken, SaveFails, GrantLost, TokenExpires, SessionTick
  <2> QED BY <2>1, <2>2 DEF Dormant, Live
<1>2. Dormant => ~Live
  BY DEF Dormant
<1>3. ~Live /\ (\A c \in Clients : client[c].pc = "idle") => Dormant
  BY DEF Dormant
<1> QED
  BY <1>1, <1>2, <1>3, SessionInitially, SessionStep, PTL DEF SessionSpec, DeadSessionStaysDead
-----------------------------------------------------------------------------
\* An entry's age is counted from before its read, which is not in the future.
Entries == [at : Nat, readAt : Nat, size : Sizes]
Aged(e) == e.at <= e.readAt

CacheTimes ==
  /\ instant \in Nat
  /\ \A k \in DOMAIN cache : cache[k] \in Entries /\ Aged(cache[k])
  /\ DOMAIN visitor = Visitors
  /\ \A v \in Visitors :
       /\ visitor[v] \in [pc : {"idle", "started", "read"}, key : CacheKeys \cup {Quiet.key},
                          start : Nat, readAt : Nat]
       /\ visitor[v].start <= instant
       /\ visitor[v].pc = "read" => visitor[v].start <= visitor[v].readAt

CacheInv == CacheTimes /\ StalenessIsBounded

LEMMA CacheNumbers == MaxAge \in Nat /\ MaxCacheClock \in Nat
  BY CacheConfig

LEMMA QuietIsIdle == Quiet.pc = "idle" /\ Quiet.start = 0 /\ Quiet.readAt = 0
                     /\ Quiet = [pc |-> "idle", key |-> Quiet.key, start |-> 0, readAt |-> 0]
  BY DEF Quiet

\* insert adds one entry and drops others; it changes none.
LEMMA InsertAdds ==
  ASSUME NEW k, NEW e, Insert(k, e)
  PROVE  \A x \in DOMAIN cache' : cache'[x] = e \/ (x \in DOMAIN cache /\ cache'[x] = cache[x])
<1> DEFINE entries == WithEntry(k, e)
           keys == Append(Retained(order, k), k)
<1>1. PICK n : cache' = [x \in {y \in DOMAIN entries : \E i \in n + 1..Len(keys) : keys[i] = y}
                           |-> entries[x]]
  <2> HIDE DEF entries, keys
  <2> QED BY DEF Insert, EvictUntilBounded, entries, keys
<1>2. \A x \in DOMAIN entries : entries[x] = e \/ (x \in DOMAIN cache /\ entries[x] = cache[x])
  BY DEF WithEntry
<1> HIDE DEF entries, keys
<1> QED BY <1>1, <1>2

LEMMA CacheStep == CacheInv /\ [CacheNext]_cacheVars => CacheInv'
<1> SUFFICES ASSUME CacheInv, [CacheNext]_cacheVars PROVE CacheInv'
  OBVIOUS
<1> USE CacheNumbers, QuietIsIdle DEF CacheInv, CacheTimes, StalenessIsBounded
<1>1. ASSUME NEW v \in Visitors, Arrive(v) PROVE CacheInv'
  <2>1. instant' = instant
    BY <1>1 DEF Arrive
  <2>2. PICK k \in CacheKeys :
          \/ /\ Usable(k) /\ hitAge' = instant - cache[k].readAt
             /\ UNCHANGED <<cache, visitor>>
          \/ /\ visitor' = [visitor EXCEPT ![v] =
                              [pc |-> "started", key |-> k, start |-> instant, readAt |-> 0]]
             /\ cache' = cache \/ cache' = Without(cache, k)
             /\ hitAge' = hitAge
    BY <1>1 DEF Arrive
  <2>3. CASE /\ Usable(k) /\ hitAge' = instant - cache[k].readAt
             /\ UNCHANGED <<cache, visitor>>
    <3>1. cache[k] \in Entries /\ cache[k].at <= cache[k].readAt /\ instant - cache[k].at <= MaxAge
      BY <2>3 DEF Usable, Aged
    <3>2. hitAge' <= MaxAge
      BY <2>3, <3>1 DEF Entries
    <3> QED BY <2>1, <2>3, <3>2
  <2>4. CASE /\ visitor' = [visitor EXCEPT ![v] =
                              [pc |-> "started", key |-> k, start |-> instant, readAt |-> 0]]
             /\ cache' = cache \/ cache' = Without(cache, k)
             /\ hitAge' = hitAge
    <3>1. \A x \in DOMAIN cache' : x \in DOMAIN cache /\ cache'[x] = cache[x]
      BY <2>4 DEF Without
    <3> QED BY <2>1, <2>4, <3>1
  <2> QED BY <2>2, <2>3, <2>4
<1>2. ASSUME NEW v \in Visitors, ReadStores(v) PROVE CacheInv'
  BY <1>2 DEF ReadStores
<1>3. ASSUME NEW v \in Visitors, Respond(v) PROVE CacheInv'
  <2>1. /\ visitor[v].pc = "read" /\ instant' = instant /\ hitAge' = hitAge
        /\ visitor' = [visitor EXCEPT ![v] = Quiet]
    BY <1>3 DEF Respond
  <2>2. \A k \in DOMAIN cache' : cache'[k] \in Entries /\ Aged(cache'[k])
    <3>1. CASE cache' = cache
      BY <3>1
    <3>2. ASSUME NEW size \in Sizes, Insert(visitor[v].key, Entry(v, size))
          PROVE  \A k \in DOMAIN cache' : cache'[k] \in Entries /\ Aged(cache'[k])
      <4>1. Entry(v, size) \in Entries /\ Aged(Entry(v, size))
        BY <2>1 DEF Entry, Entries, Aged
      <4> QED BY <3>2, <4>1, InsertAdds
    <3> QED BY <1>3, <3>1, <3>2 DEF Respond
  <2>3. \A u \in Visitors \ {v} : visitor'[u] = visitor[u]
    BY <2>1
  <2>4. visitor'[v] = Quiet /\ DOMAIN visitor' = Visitors
    BY <2>1
  <2>5. Quiet \in [pc : {"idle", "started", "read"}, key : CacheKeys \cup {Quiet.key},
                   start : Nat, readAt : Nat]
    BY DEF Quiet
  <2> QED BY <2>1, <2>2, <2>3, <2>4, <2>5
<1>4. CASE CacheTick
  BY <1>4 DEF CacheTick
<1>5. CASE UNCHANGED cacheVars
  BY <1>5 DEF cacheVars
<1> QED BY <1>1, <1>2, <1>3, <1>4, <1>5 DEF CacheNext

LEMMA CacheInitially == CacheInit => CacheInv
<1> SUFFICES ASSUME CacheInit PROVE CacheInv
  OBVIOUS
<1>1. DOMAIN cache = {} /\ instant = 0 /\ hitAge = 0 /\ visitor = [v \in Visitors |-> Quiet]
  BY DEF CacheInit
<1>2. Quiet \in [pc : {"idle", "started", "read"}, key : CacheKeys \cup {Quiet.key},
                 start : Nat, readAt : Nat]
  BY DEF Quiet
<1> QED BY <1>1, <1>2, CacheNumbers, QuietIsIdle DEF CacheInv, CacheTimes, StalenessIsBounded

\* For any number of requests, keys, entries and bytes and any pressure: a cached
\* answer was read at most MaxAge before it is given.
THEOREM AnswersAreFresh == CacheSpec => []StalenessIsBounded
<1>1. CacheInv => StalenessIsBounded
  BY DEF CacheInv
<1> QED BY <1>1, CacheInitially, CacheStep, PTL DEF CacheSpec
-----------------------------------------------------------------------------
(* Folds, written as recursive functions *)

\* A set of numbers has a least element.
LEMMA Least ==
  ASSUME NEW D \in SUBSET Nat, D # {}
  PROVE  \E d \in D : \A e \in D : d <= e
<1>1. PICK d \in D : \A e \in D : ~(<<e, d>> \in OpToRel(<, Nat))
  BY NatLessThanWellFounded, WFMin, Zenon
<1>2. \A x, y \in Nat : x < y => <<x, y>> \in OpToRel(<, Nat)
  BY Zenon DEF OpToRel
<1>3. \A e \in D : ~(e < d)
  BY <1>1, <1>2
<1> QED BY <1>3

\* What holds at the start and from each step to the next holds throughout.
LEMMA Steps ==
  ASSUME NEW n \in Nat, NEW T, 0 \in T, \A k \in 1 .. n : k - 1 \in T => k \in T
  PROVE  \A k \in 0 .. n : k \in T
<1> DEFINE D == {k \in 0 .. n : k \notin T}
<1> SUFFICES ASSUME D # {} PROVE FALSE
  OBVIOUS
<1>1. PICK d \in D : \A e \in D : d <= e
  <2>1. D \in SUBSET Nat
    OBVIOUS
  <2> HIDE DEF D
  <2> QED BY <2>1, Least
<1>2. d \in 1 .. n /\ d - 1 \in 0 .. n /\ d - 1 \notin D
  BY <1>1
<1> QED BY <1>1, <1>2

\* A fold over the numbers up to n, written as a recursive function, is defined.
Folds(f, b, h, n) ==
  f = [k \in 0 .. n |-> IF k = 0 THEN b ELSE h[<<k, f[k - 1]>>]]

LEMMA FoldIsDefined ==
  ASSUME NEW X, NEW b \in X, NEW n \in Nat, NEW h \in [(1 .. n) \X X -> X]
  PROVE  \E f \in [0 .. n -> X] : Folds(f, b, h, n)
<1> DEFINE Upto(f, m) == /\ f \in [0 .. m -> X]
                         /\ f[0] = b
                         /\ \A k \in 1 .. m : f[k] = h[<<k, f[k - 1]>>]
           T == {m \in 0 .. n : \E f : Upto(f, m)}
<1>1. 0 \in T
  <2> DEFINE f == [k \in 0 .. 0 |-> b]
  <2>1. f \in [0 .. 0 -> X] /\ f[0] = b
    OBVIOUS
  <2>2. Upto(f, 0)
    BY <2>1
  <2> HIDE DEF f, Upto
  <2> QED BY <2>2
<1>2. ASSUME NEW m \in 1 .. n, m - 1 \in T PROVE m \in T
  <2>1. PICK f : Upto(f, m - 1)
    BY <1>2
  <2> DEFINE g == [k \in 0 .. m |-> IF k = m THEN h[<<m, f[m - 1]>>] ELSE f[k]]
  <2>2. f[m - 1] \in X
    BY <2>1
  <2>3. \A k \in 0 .. m - 1 : g[k] = f[k] /\ f[k] \in X
    BY <2>1
  <2>4. g[m] = h[<<m, f[m - 1]>>] /\ g[m] \in X
    BY <2>2
  <2>5. \A k \in 0 .. m : g[k] \in X
    <3>1. \A k \in 0 .. m : k = m \/ k \in 0 .. m - 1
      OBVIOUS
    <3> HIDE DEF g
    <3> QED BY <2>3, <2>4, <3>1
  <2>6. g \in [0 .. m -> X] /\ g[0] = b
    BY <2>1, <2>3, <2>5
  <2>7. ASSUME NEW k \in 1 .. m PROVE g[k] = h[<<k, g[k - 1]>>]
    <3>1. g[k - 1] = f[k - 1]
      BY <2>3
    <3>2. CASE k = m
      BY <2>4, <3>1, <3>2
    <3>3. CASE k # m
      BY <2>1, <2>3, <3>1, <3>3
    <3> QED BY <3>2, <3>3
  <2>8. Upto(g, m)
    BY <2>6, <2>7
  <2> HIDE DEF g, Upto
  <2> QED BY <2>8
<1>3. n \in T
  <2> HIDE DEF T
  <2> QED BY <1>1, <1>2, Steps
<1>4. PICK f : Upto(f, n)
  BY <1>3
<1>5. f = [k \in 0 .. n |-> f[k]]
  BY <1>4
<1>6. \A k \in 0 .. n : f[k] = IF k = 0 THEN b ELSE h[<<k, f[k - 1]>>]
  BY <1>4
<1>7. Folds(f, b, h, n)
  BY <1>5, <1>6 DEF Folds
<1> QED BY <1>4, <1>7

-----------------------------------------------------------------------------
(* The counters of the response cache                                        *)

LEMMA OneMoreKey ==
  ASSUME NEW S, NEW s \in Seq(S), NEW x \in S
  PROVE  /\ Append(s, x) \in Seq(S) /\ ToSet(Append(s, x)) = ToSet(s) \cup {x}
         /\ IsInjective(s) /\ x \notin ToSet(s) => IsInjective(Append(s, x))
<1> DEFINE t == Append(s, x)
<1>1. /\ t \in Seq(S) /\ t[Len(s) + 1] = x
      /\ \A j \in 1 .. Len(s) : t[j] = s[j]
      /\ Len(s) \in Nat /\ DOMAIN t = 1 .. Len(s) + 1 /\ DOMAIN s = 1 .. Len(s)
  BY AppendProperties, LenProperties
<1>2. /\ \A j \in 1 .. Len(s) + 1 : j = Len(s) + 1 \/ j \in 1 .. Len(s)
      /\ \A j \in 1 .. Len(s) : j \in 1 .. Len(s) + 1
      /\ Len(s) + 1 \in 1 .. Len(s) + 1
  BY <1>1
<1> HIDE DEF t
<1>3. ToSet(t) = ToSet(s) \cup {x}
  <2>1. \A y : y \in ToSet(t) <=> \E j \in 1 .. Len(s) + 1 : y = t[j]
    BY <1>1 DEF ToSet
  <2>2. \A y : y \in ToSet(s) <=> \E j \in 1 .. Len(s) : y = s[j]
    BY <1>1 DEF ToSet
  <2> QED BY <1>1, <1>2, <2>1, <2>2
<1>4. ASSUME IsInjective(s), x \notin ToSet(s) PROVE IsInjective(t)
  <2>1. \A j \in 1 .. Len(s) : s[j] # x
    BY <1>1, <1>4 DEF ToSet
  <2> QED BY <1>1, <1>4, <2>1 DEF IsInjective
<1> QED BY <1>1, <1>3, <1>4 DEF t

\* retain leaves the other keys, each once if each was there once.
LEMMA RetainedKeys ==
  ASSUME NEW S, NEW keys \in Seq(S), NEW k
  PROVE  /\ Retained(keys, k) \in Seq(S)
         /\ ToSet(Retained(keys, k)) = ToSet(keys) \ {k}
         /\ IsInjective(keys) => IsInjective(Retained(keys, k))
<1> DEFINE n == Len(keys)
           X == Seq(S)
           Next(s, i) == IF keys[i] = k THEN s ELSE Append(s, keys[i])
           h == [p \in (1 .. n) \X X |-> Next(p[2], p[1])]
           f == CHOOSE f : f = [i \in 0 .. n |-> IF i = 0 THEN <<>>
                                  ELSE IF keys[i] = k THEN f[i - 1]
                                  ELSE Append(f[i - 1], keys[i])]
           First(i) == {keys[j] : j \in 1 .. i} \ {k}
           T == {i \in 0 .. n : /\ f[i] \in X
                                /\ ToSet(f[i]) = First(i)
                                /\ IsInjective(keys) => IsInjective(f[i])}
<1>1. n \in Nat /\ \A i \in 1 .. n : keys[i] \in S
  OBVIOUS
<1>2. Retained(keys, k) = f[n]
  BY DEF Retained
<1> HIDE DEF n, f
<1>3. h \in [(1 .. n) \X X -> X]
  <2>1. ASSUME NEW s \in X, NEW i \in 1 .. n PROVE Next(s, i) \in X
    BY <1>1
  <2> HIDE DEF Next, X
  <2> QED BY <2>1
<1>4. <<>> \in X
  OBVIOUS
<1>5. PICK g \in [0 .. n -> X] : Folds(g, <<>>, h, n)
  <2> HIDE DEF X, h
  <2> QED BY <1>1, <1>3, <1>4, FoldIsDefined
<1>6. g = [i \in 0 .. n |-> IF i = 0 THEN <<>>
                            ELSE IF keys[i] = k THEN g[i - 1] ELSE Append(g[i - 1], keys[i])]
  <2>1. \A i \in 1 .. n : h[<<i, g[i - 1]>>] = Next(g[i - 1], i)
    BY <1>1, <1>5
  <2>2. \A i \in 0 .. n : i # 0 => i \in 1 .. n
    BY <1>1
  <2> HIDE DEF h
  <2> QED BY <1>5, <2>1, <2>2 DEF Folds
<1>7. f = [i \in 0 .. n |-> IF i = 0 THEN <<>>
                            ELSE IF keys[i] = k THEN f[i - 1] ELSE Append(f[i - 1], keys[i])]
  BY <1>6 DEF f
<1>8. f[0] = <<>> /\ \A i \in 1 .. n : f[i] = Next(f[i - 1], i)
  <2>1. \A i \in 0 .. n : f[i] = IF i = 0 THEN <<>> ELSE Next(f[i - 1], i)
    BY <1>7, Zenon
  <2>2. 0 \in 0 .. n /\ \A i \in 1 .. n : i \in 0 .. n /\ i # 0
    BY <1>1
  <2> HIDE DEF Next
  <2> QED BY <2>1, <2>2
<1>9. 0 \in T
  <2>1. ToSet(<<>>) = {} /\ IsInjective(<<>>) /\ First(0) = {}
    BY DEF ToSet, IsInjective
  <2>2. f[0] \in X /\ ToSet(f[0]) = First(0) /\ IsInjective(f[0]) /\ 0 \in 0 .. n
    BY <1>1, <1>4, <1>8, <2>1
  <2> HIDE DEF X, First
  <2> QED BY <2>2
<1>10. ASSUME NEW i \in 1 .. n, i - 1 \in T PROVE i \in T
  <2> DEFINE s == f[i - 1]
  <2>1. s \in X /\ ToSet(s) = First(i - 1) /\ (IsInjective(keys) => IsInjective(s))
    BY <1>10
  <2>2. First(i) = IF keys[i] = k THEN First(i - 1) ELSE First(i - 1) \cup {keys[i]}
    <3>1. 1 .. i = (1 .. i - 1) \cup {i}
      BY <1>1
    <3> QED BY <3>1
  <2>3. CASE keys[i] = k
    <3>1. f[i] = s
      BY <1>8, <2>3
    <3>2. First(i) = First(i - 1)
      BY <2>2, <2>3
    <3> HIDE DEF s, First
    <3> QED BY <1>1, <2>1, <3>1, <3>2
  <2>4. CASE keys[i] # k
    <3> DEFINE t == Append(s, keys[i])
    <3>1. t \in X /\ ToSet(t) = ToSet(s) \cup {keys[i]}
      <4> HIDE DEF s
      <4> QED BY <1>1, <2>1, OneMoreKey
    <3>2. ASSUME IsInjective(keys) PROVE IsInjective(t)
      <4>1. \A a \in 1 .. i - 1 : keys[a] # keys[i]
        <5>1. DOMAIN keys = 1 .. n
          BY DEF n
        <5>2. \A a \in 1 .. i - 1 : a \in 1 .. n /\ a # i
          BY <1>1
        <5> QED BY <3>2, <5>1, <5>2, Zenon DEF IsInjective
      <4>2. keys[i] \notin ToSet(s)
        BY <2>1, <4>1
      <4> HIDE DEF s
      <4> QED BY <1>1, <2>1, <3>2, <4>2, OneMoreKey
    <3>3. f[i] = t
      BY <1>8, <2>4
    <3> HIDE DEF t
    <3> QED BY <1>1, <2>1, <2>2, <2>4, <3>1, <3>2, <3>3
  <2> QED BY <2>3, <2>4
<1>11. n \in T
  <2> HIDE DEF T
  <2>1. \A i \in 0 .. n : i \in T
    BY <1>1, <1>9, <1>10, Steps, Zenon
  <2> QED BY <1>1, <2>1
<1>12. First(n) = ToSet(keys) \ {k}
  BY DEF ToSet, n
<1> QED BY <1>2, <1>11, <1>12
Bytes(c) == UNION {{k} \X (1 .. c[k].size) : k \in DOMAIN c}

\* The entries of a cache, whatever cache and at whatever step.
Bodies(c) ==
  IsFiniteSet(DOMAIN c) /\ \A k \in DOMAIN c : c[k].size \in 0 .. MaxEntryBytes

LEMMA SizeIsFinite ==
  ASSUME NEW c, Bodies(c) PROVE IsFiniteSet(Bytes(c)) /\ SizeOf(c) \in Nat
<1> USE CacheConfig
<1>1. Bytes(c) \subseteq (DOMAIN c) \X (1 .. MaxEntryBytes)
  <2> SUFFICES ASSUME NEW b \in Bytes(c) PROVE b \in (DOMAIN c) \X (1 .. MaxEntryBytes)
    OBVIOUS
  <2>1. PICK k \in DOMAIN c : b \in {k} \X (1 .. c[k].size)
    BY DEF Bytes
  <2>2. c[k].size \in 0 .. MaxEntryBytes /\ MaxEntryBytes \in Nat
    BY DEF Bodies
  <2>3. \A i \in 1 .. c[k].size : i \in 1 .. MaxEntryBytes
    BY <2>2
  <2> QED BY <2>1, <2>3
<1>2. IsFiniteSet((DOMAIN c) \X (1 .. MaxEntryBytes))
  <2>1. IsFiniteSet(1 .. MaxEntryBytes) /\ IsFiniteSet(DOMAIN c)
    <3>1. 1 \in Int /\ MaxEntryBytes \in Int
      OBVIOUS
    <3> QED BY <3>1, FS_Interval DEF Bodies
  <2> QED BY <2>1, FS_Product
<1>3. IsFiniteSet(Bytes(c))
  BY <1>1, <1>2, FS_Subset
<1> QED BY <1>3, FS_CardinalityType DEF SizeOf, Bytes

LEMMA SizeOfOneMore ==
  ASSUME NEW c, Bodies(c), NEW d, NEW k \in DOMAIN c, DOMAIN d = DOMAIN c \ {k},
         \A x \in DOMAIN d : d[x] = c[x]
  PROVE  Bodies(d) /\ SizeOf(c) = SizeOf(d) + c[k].size
<1> USE CacheConfig
<1> DEFINE body == {k} \X (1 .. c[k].size)
<1>1. Bodies(d)
  BY FS_Subset DEF Bodies
<1>2. IsFiniteSet(Bytes(d)) /\ SizeOf(d) \in Nat
  BY <1>1, SizeIsFinite
<1>3. c[k].size \in Nat
  BY DEF Bodies
<1>4. IsFiniteSet(body) /\ Cardinality(body) = c[k].size
  <2>1. IsFiniteSet(1 .. c[k].size) /\ Cardinality(1 .. c[k].size) = c[k].size
    <3>1. /\ IsFiniteSet(1 .. c[k].size)
          /\ Cardinality(1 .. c[k].size) = IF 1 > c[k].size THEN 0 ELSE c[k].size - 1 + 1
      <4>1. 1 \in Int /\ c[k].size \in Int
        BY <1>3
      <4> QED BY <4>1, FS_Interval
    <3> QED BY <1>3, <3>1
  <2>2. IsFiniteSet({k}) /\ Cardinality({k}) = 1
    BY FS_Singleton
  <2>3. IsFiniteSet(body) /\ Cardinality(body) = 1 * Cardinality(1 .. c[k].size)
    BY <2>1, <2>2, FS_Product
  <2> QED BY <1>3, <2>1, <2>3
<1>5. Bytes(c) = Bytes(d) \cup body
  <2>1. \A x \in DOMAIN c : x = k \/ (x \in DOMAIN d /\ d[x] = c[x])
    BY Zenon
  <2>2. \A b : b \in Bytes(c) <=> \E x \in DOMAIN c : b \in {x} \X (1 .. c[x].size)
    BY DEF Bytes
  <2>3. \A b : b \in Bytes(d) <=> \E x \in DOMAIN d : b \in {x} \X (1 .. d[x].size)
    BY DEF Bytes
  <2> HIDE DEF body
  <2>4. \A b : b \in Bytes(c) => b \in Bytes(d) \/ b \in body
    <3> SUFFICES ASSUME NEW b \in Bytes(c) PROVE b \in Bytes(d) \/ b \in body
      OBVIOUS
    <3>1. PICK x \in DOMAIN c : b \in {x} \X (1 .. c[x].size)
      BY <2>2
    <3>2. CASE x = k
      BY <3>1, <3>2 DEF body
    <3>3. CASE x # k
      BY <2>1, <2>3, <3>1, <3>3
    <3> QED BY <3>2, <3>3
  <2>5. \A b \in Bytes(d) : b \in Bytes(c)
    <3> SUFFICES ASSUME NEW b \in Bytes(d) PROVE b \in Bytes(c)
      OBVIOUS
    <3>1. PICK x \in DOMAIN d : b \in {x} \X (1 .. d[x].size)
      BY <2>3
    <3>2. x \in DOMAIN c /\ d[x] = c[x]
      OBVIOUS
    <3> QED BY <2>2, <3>1, <3>2
  <2>6. \A b \in body : b \in Bytes(c)
    BY <2>2 DEF body
  <2> QED BY <2>4, <2>5, <2>6
<1>6. Bytes(d) \cap body = {}
  <2> SUFFICES ASSUME NEW b \in Bytes(d), b \in body PROVE FALSE
    OBVIOUS
  <2>1. PICK x \in DOMAIN d : b \in {x} \X (1 .. d[x].size)
    BY DEF Bytes
  <2>2. b[1] = x /\ b[1] = k
    BY <2>1
  <2> QED BY <2>2
<1>7. Cardinality(Bytes(d) \cup body) = Cardinality(Bytes(d)) + Cardinality(body)
  <2> HIDE DEF body
  <2>1. Cardinality(Bytes(d) \cap body) = 0
    BY <1>6, FS_EmptySet
  <2>2. Cardinality(Bytes(d)) \in Nat /\ Cardinality(body) \in Nat
    BY <1>2, <1>4, FS_CardinalityType
  <2> QED BY <1>2, <1>4, <2>1, <2>2, FS_Union
<1> QED BY <1>1, <1>4, <1>5, <1>7 DEF SizeOf, Bytes

LEMMA KeysAreFinite ==
  ASSUME NEW S, NEW keys \in Seq(S)
  PROVE  IsFiniteSet(ToSet(keys))
<1>1. keys \in Surjection(1 .. Len(keys), ToSet(keys))
  <2>1. DOMAIN keys = 1 .. Len(keys) /\ keys = [i \in 1 .. Len(keys) |-> keys[i]]
    OBVIOUS
  <2> QED BY <2>1 DEF Surjection, ToSet
<1>2. IsFiniteSet(1 .. Len(keys))
  BY FS_Interval
<1> QED BY <1>1, <1>2, FS_Surjection

\* What is left of a sequence when its first n members are gone.
LEMMA Suffix ==
  ASSUME NEW S, NEW s \in Seq(S), NEW n \in 0 .. Len(s)
  PROVE  /\ SubSeq(s, n + 1, Len(s)) \in Seq(S)
         /\ Len(SubSeq(s, n + 1, Len(s))) = Len(s) - n
         /\ DOMAIN SubSeq(s, n + 1, Len(s)) = 1 .. Len(s) - n
         /\ \A i \in 1 .. Len(s) - n : SubSeq(s, n + 1, Len(s))[i] = s[n + i]
<1> DEFINE a == n + 1
           b == Len(s)
           rest == SubSeq(s, a, b)
<1>1. a \in Int /\ b \in Int /\ b \in Nat /\ \A i \in a .. b : s[i] \in S
  OBVIOUS
<1>2. /\ rest \in Seq(S)
      /\ Len(rest) = IF a <= b THEN b - a + 1 ELSE 0
      /\ \A i \in 1 .. b - a + 1 : rest[i] = s[a + i - 1]
  <2> HIDE DEF a, b
  <2> QED BY <1>1, SubSeqProperties
<1>3. b - a + 1 = b - n /\ \A i \in 1 .. b - n : a + i - 1 = n + i
  BY <1>1
<1>4. Len(rest) = b - n
  BY <1>1, <1>2
<1>5. DOMAIN rest = 1 .. Len(rest)
  BY <1>2, LenProperties
<1> HIDE DEF rest
<1> QED BY <1>2, <1>3, <1>4, <1>5 DEF rest

\* insert's loop ends with both bounds kept: the count it goes by is that of the
\* entries, so an empty cache fits, and it stops there at the latest.
LEMMA EvictionBounds ==
  ASSUME NEW S, NEW entries, Bodies(entries), NEW keys \in Seq(S),
         ToSet(keys) = DOMAIN entries, IsInjective(keys)
  PROVE  LET s == EvictUntilBounded(entries, keys, SizeOf(entries)) IN
         /\ s.keys \in Seq(S) /\ DOMAIN s.entries \subseteq DOMAIN entries
         /\ \A x \in DOMAIN s.entries : s.entries[x] = entries[x]
         /\ ToSet(s.keys) = DOMAIN s.entries /\ IsInjective(s.keys)
         /\ s.total = SizeOf(s.entries)
         /\ Cardinality(DOMAIN s.entries) <= MaxEntries /\ s.total <= MaxBytes
<1> USE CacheConfig
<1> DEFINE L == Len(keys)
           Kept(n) == [k \in {x \in DOMAIN entries : \E i \in n + 1..Len(keys) : keys[i] = x}
                         |-> entries[k]]
           Total(n) == SizeOf(entries) - (SizeOf(entries) - SizeOf(Kept(n)))
           Fits(n) == Cardinality(DOMAIN Kept(n)) <= MaxEntries /\ Total(n) <= MaxBytes
           Stops(n) == (Fits(n) \/ n = Len(keys)) /\ \A j \in 0 .. n - 1 : ~Fits(j)
           n == CHOOSE i \in 0 .. Len(keys) : Stops(i)
           rest == SubSeq(keys, n + 1, Len(keys))
<1>1. EvictUntilBounded(entries, keys, SizeOf(entries))
        = [entries |-> Kept(n), keys |-> rest, total |-> Total(n)]
  BY DEF EvictUntilBounded
<1>2. L \in Nat /\ DOMAIN keys = 1 .. L /\ \A i \in 1 .. L : keys[i] \in S
  OBVIOUS
<1>3. \A i \in 0 .. L :
        /\ DOMAIN Kept(i) \subseteq DOMAIN entries
        /\ \A x \in DOMAIN Kept(i) : Kept(i)[x] = entries[x]
  OBVIOUS
<1>4. \A i \in 0 .. L : Bodies(Kept(i)) /\ SizeOf(Kept(i)) \in Nat /\ Total(i) = SizeOf(Kept(i))
  <2>1. SizeOf(entries) \in Nat
    BY SizeIsFinite
  <2> SUFFICES ASSUME NEW i \in 0 .. L
               PROVE  Bodies(Kept(i)) /\ SizeOf(Kept(i)) \in Nat /\ Total(i) = SizeOf(Kept(i))
    OBVIOUS
  <2> HIDE DEF Kept
  <2>2. Bodies(Kept(i))
    BY <1>3, FS_Subset DEF Bodies
  <2>3. SizeOf(Kept(i)) \in Nat
    BY <2>2, SizeIsFinite
  <2> QED BY <2>1, <2>2, <2>3
<1>5. DOMAIN Kept(L) = {} /\ SizeOf(Kept(L)) = 0
  <2>1. DOMAIN Kept(L) = {}
    BY <1>2
  <2> HIDE DEF Kept
  <2>2. Bytes(Kept(L)) = {}
    BY <2>1 DEF Bytes
  <2> QED BY <2>1, <2>2, FS_EmptySet DEF SizeOf, Bytes
<1>6. Fits(L)
  <2>1. L \in 0 .. L
    BY <1>2
  <2> HIDE DEF Kept
  <2> QED BY <1>4, <1>5, <2>1, FS_EmptySet
<1>7. n \in 0 .. L /\ Fits(n)
  <2> DEFINE D == {i \in 0 .. L : Fits(i)}
  <2> HIDE DEF Fits
  <2>1. D \in SUBSET Nat /\ L \in D
    BY <1>2, <1>6
  <2>2. PICK d \in D : \A e \in D : d <= e
    <3> HIDE DEF D
    <3> QED BY <2>1, Least
  <2>3. d \in 0 .. L /\ Stops(d)
    <3>1. \A j \in 0 .. d - 1 : j \in 0 .. L /\ ~(d <= j)
      BY <1>2
    <3> QED BY <2>2, <3>1
  <2>4. n \in 0 .. L /\ Stops(n)
    <3> HIDE DEF Stops
    <3> QED BY <2>3
  <2> QED BY <1>6, <2>4
<1>8. /\ rest \in Seq(S) /\ Len(rest) = L - n
      /\ \A i \in 1 .. L - n : rest[i] = keys[n + i]
      /\ DOMAIN rest = 1 .. L - n
  BY <1>2, <1>7, Suffix
<1> HIDE DEF rest, Kept, Fits, n
<1>9. ToSet(rest) = DOMAIN Kept(n)
  <2>1. DOMAIN Kept(n) = {x \in DOMAIN entries : \E i \in n + 1 .. L : keys[i] = x}
    BY DEF Kept
  <2>2. ASSUME NEW x \in ToSet(rest) PROVE x \in DOMAIN Kept(n)
    <3>1. PICK i \in 1 .. L - n : x = keys[n + i]
      BY <1>8 DEF ToSet
    <3>2. n + i \in n + 1 .. L /\ n + i \in 1 .. L
      BY <1>2, <1>7
    <3>3. x \in DOMAIN entries
      BY <1>2, <3>1, <3>2 DEF ToSet
    <3> QED BY <2>1, <3>1, <3>2, <3>3
  <2>3. ASSUME NEW x \in DOMAIN Kept(n) PROVE x \in ToSet(rest)
    <3>1. PICK i \in n + 1 .. L : keys[i] = x
      BY <2>1
    <3>2. i - n \in 1 .. L - n /\ n + (i - n) = i
      BY <1>2, <1>7
    <3>3. rest[i - n] = x
      BY <1>8, <3>1, <3>2
    <3> QED BY <1>8, <3>2, <3>3 DEF ToSet
  <2> QED BY <2>2, <2>3
<1>10. IsInjective(rest)
  <2> SUFFICES ASSUME NEW i \in 1 .. L - n, NEW j \in 1 .. L - n, rest[i] = rest[j]
               PROVE  i = j
    BY <1>8 DEF IsInjective
  <2>1. n + i \in 1 .. L /\ n + j \in 1 .. L
    BY <1>2, <1>7
  <2>2. n + i = n + j
    BY <1>2, <1>8, <2>1 DEF IsInjective
  <2> QED BY <1>7, <2>2
<1> QED
  BY <1>1, <1>3, <1>4, <1>7, <1>8, <1>9, <1>10 DEF Fits
CacheCounts == CacheTypeOK /\ order \in Seq(CacheKeys) /\ Bodies(cache)

LEMMA RemovedCounts ==
  ASSUME CacheCounts, NEW k
  PROVE  /\ Bodies(Without(cache, k))
         /\ SizeOf(Without(cache, k)) =
              IF k \in DOMAIN cache THEN bytes - cache[k].size ELSE bytes
<1> DEFINE d == Without(cache, k)
<1>1. DOMAIN d = DOMAIN cache \ {k} /\ \A x \in DOMAIN d : d[x] = cache[x]
  BY DEF Without
<1>2. bytes = SizeOf(cache) /\ Bodies(cache)
  BY DEF CacheCounts, CacheTypeOK
<1> HIDE DEF d
<1>3. CASE k \in DOMAIN cache
  <2>1. Bodies(d) /\ SizeOf(cache) = SizeOf(d) + cache[k].size
    BY <1>1, <1>2, <1>3, SizeOfOneMore
  <2>2. SizeOf(d) \in Nat /\ cache[k].size \in Nat
    BY <1>2, <1>3, <2>1, SizeIsFinite, CacheConfig DEF Bodies
  <2> QED BY <1>2, <1>3, <2>1, <2>2 DEF d
<1>4. CASE k \notin DOMAIN cache
  <2>1. DOMAIN d = DOMAIN cache /\ \A x \in DOMAIN cache : d[x] = cache[x]
    BY <1>1, <1>4
  <2>2. Bodies(d)
    BY <1>2, <2>1 DEF Bodies
  <2>3. Bytes(d) = Bytes(cache)
    <3>1. \A b : b \in Bytes(d) <=> \E x \in DOMAIN d : b \in {x} \X (1 .. d[x].size)
      BY DEF Bytes
    <3>2. \A b : b \in Bytes(cache) <=> \E x \in DOMAIN cache : b \in {x} \X (1 .. cache[x].size)
      BY DEF Bytes
    <3> QED BY <2>1, <3>1, <3>2
  <2>4. SizeOf(d) = SizeOf(cache)
    BY <2>3 DEF SizeOf, Bytes
  <2> QED BY <1>2, <1>4, <2>2, <2>4 DEF d
<1> QED BY <1>3, <1>4

LEMMA InsertCounts ==
  ASSUME CacheCounts, NEW k \in CacheKeys, NEW e, e.size \in 0 .. MaxEntryBytes, Insert(k, e)
  PROVE  CacheCounts'
<1> DEFINE d == Without(cache, k)
           entries == WithEntry(k, e)
           keys == Append(Retained(order, k), k)
           counted == IF k \in DOMAIN cache THEN bytes - cache[k].size ELSE bytes
           s == EvictUntilBounded(entries, keys, SizeOf(entries))
<1>1. /\ DOMAIN cache \subseteq CacheKeys /\ ToSet(order) = DOMAIN cache
      /\ IsInjective(order) /\ order \in Seq(CacheKeys) /\ Bodies(cache)
  BY DEF CacheCounts, CacheTypeOK
<1>2. /\ Retained(order, k) \in Seq(CacheKeys)
      /\ ToSet(Retained(order, k)) = DOMAIN cache \ {k}
      /\ IsInjective(Retained(order, k))
  BY <1>1, RetainedKeys
<1>3. /\ keys \in Seq(CacheKeys) /\ ToSet(keys) = DOMAIN cache \cup {k} /\ IsInjective(keys)
  <2> DEFINE r == Retained(order, k)
  <2>1. k \notin ToSet(r)
    BY <1>2
  <2>2. r \in Seq(CacheKeys) /\ ToSet(r) = DOMAIN cache \ {k} /\ IsInjective(r)
    BY <1>2
  <2> HIDE DEF r
  <2>3. /\ Append(r, k) \in Seq(CacheKeys) /\ ToSet(Append(r, k)) = ToSet(r) \cup {k}
        /\ IsInjective(Append(r, k))
    BY <2>1, <2>2, OneMoreKey
  <2>4. keys = Append(r, k)
    BY DEF r
  <2> QED BY <2>2, <2>3, <2>4
<1>4. /\ DOMAIN entries = DOMAIN cache \cup {k} /\ entries[k] = e
      /\ \A x \in DOMAIN cache \ {k} : entries[x] = cache[x]
  BY DEF WithEntry
<1>5. /\ DOMAIN d = DOMAIN cache \ {k} /\ \A x \in DOMAIN d : d[x] = cache[x]
      /\ Bodies(d) /\ SizeOf(d) = counted
  BY RemovedCounts DEF Without
<1> HIDE DEF d, entries, keys, counted
<1>6. Bodies(entries)
  <2>1. IsFiniteSet(DOMAIN entries)
    BY <1>1, <1>4, FS_AddElement DEF Bodies
  <2> QED BY <1>1, <1>4, <2>1 DEF Bodies
<1>7. SizeOf(entries) = counted + e.size
  <2>1. DOMAIN d = DOMAIN entries \ {k} /\ \A x \in DOMAIN d : d[x] = entries[x]
    BY <1>4, <1>5
  <2>2. SizeOf(entries) = SizeOf(d) + entries[k].size
    BY <1>4, <1>6, <2>1, SizeOfOneMore
  <2> QED BY <1>4, <1>5, <2>2
<1>8. cache' = s.entries /\ order' = s.keys /\ bytes' = s.total
  <2>1. LET t == EvictUntilBounded(entries, keys, counted + e.size)
        IN  cache' = t.entries /\ order' = t.keys /\ bytes' = t.total
    BY DEF Insert, entries, keys, counted
  <2> QED BY <1>7, <2>1
<1>9. /\ s.keys \in Seq(CacheKeys) /\ DOMAIN s.entries \subseteq DOMAIN entries
      /\ \A x \in DOMAIN s.entries : s.entries[x] = entries[x]
      /\ ToSet(s.keys) = DOMAIN s.entries /\ IsInjective(s.keys)
      /\ s.total = SizeOf(s.entries)
      /\ Cardinality(DOMAIN s.entries) <= MaxEntries /\ s.total <= MaxBytes
  BY <1>3, <1>4, <1>6, EvictionBounds
<1> HIDE DEF s
<1>10. Bodies(cache')
  BY <1>6, <1>8, <1>9, FS_Subset DEF Bodies
<1>11. DOMAIN cache' \subseteq CacheKeys
  BY <1>1, <1>4, <1>8, <1>9
<1> QED BY <1>8, <1>9, <1>10, <1>11 DEF CacheCounts, CacheTypeOK, Bodies, SizeOf

\* A request that reached the handler asked for one of the keys.
CacheKeyed == \A v \in Visitors : visitor[v].pc # "idle" => visitor[v].key \in CacheKeys

CacheTyped == CacheInv /\ CacheCounts /\ CacheKeyed

LEMMA CacheTypedStep == CacheTyped /\ [CacheNext]_cacheVars => CacheTyped'
<1> SUFFICES ASSUME CacheTyped, [CacheNext]_cacheVars PROVE CacheTyped'
  OBVIOUS
<1> USE CacheConfig
<1>1. CacheInv'
  BY CacheStep DEF CacheTyped
<1>2. /\ CacheCounts /\ CacheKeyed /\ DOMAIN visitor = Visitors
      /\ \A v \in Visitors : DOMAIN visitor[v] = {"pc", "key", "start", "readAt"}
  BY DEF CacheTyped, CacheInv, CacheTimes
<1>3. ASSUME UNCHANGED <<cache, order, bytes>> PROVE CacheCounts'
  BY <1>2, <1>3 DEF CacheCounts, CacheTypeOK, Bodies, SizeOf
<1>4. ASSUME NEW v \in Visitors, Arrive(v) PROVE CacheCounts' /\ CacheKeyed'
  <2>1. PICK k \in CacheKeys :
          /\ \/ UNCHANGED visitor
             \/ visitor' = [visitor EXCEPT ![v] =
                  [pc |-> "started", key |-> k, start |-> instant, readAt |-> 0]]
          /\ \/ UNCHANGED <<cache, order, bytes>>
             \/ /\ k \in DOMAIN cache
                /\ cache' = Without(cache, k)
                /\ order' = Retained(order, k)
                /\ bytes' = bytes - cache[k].size
    BY <1>4 DEF Arrive
  <2>2. CacheKeyed'
    BY <1>2, <2>1 DEF CacheKeyed
  <2>3. CASE /\ k \in DOMAIN cache
             /\ cache' = Without(cache, k)
             /\ order' = Retained(order, k)
             /\ bytes' = bytes - cache[k].size
    <3>1. Bodies(cache') /\ bytes' = SizeOf(cache')
      BY <1>2, <2>3, RemovedCounts
    <3>2. DOMAIN cache' = DOMAIN cache \ {k}
      BY <2>3 DEF Without
    <3>3. /\ order' \in Seq(CacheKeys) /\ ToSet(order') = DOMAIN cache'
          /\ IsInjective(order')
      BY <1>2, <2>3, <3>2, RetainedKeys DEF CacheCounts, CacheTypeOK
    <3>4. Cardinality(DOMAIN cache') <= MaxEntries
      <4>1. IsFiniteSet(DOMAIN cache) /\ Cardinality(DOMAIN cache) <= MaxEntries
        BY <1>2 DEF CacheCounts, CacheTypeOK, Bodies
      <4>2. /\ IsFiniteSet(DOMAIN cache')
            /\ Cardinality(DOMAIN cache') <= Cardinality(DOMAIN cache)
        BY <3>2, <4>1, FS_Subset
      <4>3. Cardinality(DOMAIN cache) \in Nat /\ Cardinality(DOMAIN cache') \in Nat
        BY <4>1, <4>2, FS_CardinalityType
      <4> QED BY <4>1, <4>2, <4>3
    <3>5. bytes' <= MaxBytes
      <4>1. bytes <= MaxBytes /\ bytes \in Nat
        BY <1>2, SizeIsFinite DEF CacheCounts, CacheTypeOK
      <4>2. cache[k].size \in Nat
        BY <1>2, <2>3 DEF CacheCounts, Bodies
      <4> QED BY <2>3, <4>1, <4>2
    <3>6. (bytes = SizeOf(cache))' /\ Bodies(cache)'
      BY <3>1 DEF SizeOf, Bodies
    <3>7. DOMAIN cache' \subseteq CacheKeys
      BY <1>2, <3>2 DEF CacheCounts, CacheTypeOK
    <3> QED BY <2>2, <3>3, <3>4, <3>5, <3>6, <3>7 DEF CacheCounts, CacheTypeOK
  <2> QED BY <1>3, <2>1, <2>2, <2>3
<1>5. ASSUME NEW v \in Visitors, ReadStores(v) PROVE CacheCounts' /\ CacheKeyed'
  BY <1>2, <1>3, <1>5 DEF ReadStores, CacheKeyed
<1>6. ASSUME NEW v \in Visitors, Respond(v) PROVE CacheCounts' /\ CacheKeyed'
  <2>1. visitor[v].key \in CacheKeys /\ CacheKeyed'
    BY <1>2, <1>6, QuietIsIdle DEF Respond, CacheKeyed
  <2>2. ASSUME NEW size \in Sizes, size <= MaxEntryBytes,
               Insert(visitor[v].key, Entry(v, size))
        PROVE  CacheCounts'
    <3>1. Entry(v, size).size \in 0 .. MaxEntryBytes
      BY <2>2 DEF Entry
    <3> QED BY <1>2, <2>1, <2>2, <3>1, InsertCounts
  <2> QED BY <1>3, <1>6, <2>1, <2>2 DEF Respond
<1>7. ASSUME CacheTick \/ UNCHANGED cacheVars PROVE CacheCounts' /\ CacheKeyed'
  BY <1>2, <1>3, <1>7 DEF CacheTick, cacheVars, CacheKeyed
<1> QED BY <1>1, <1>4, <1>5, <1>6, <1>7 DEF CacheNext, CacheTyped

LEMMA CacheTypedInitially == CacheInit => CacheTyped
<1> SUFFICES ASSUME CacheInit PROVE CacheTyped
  OBVIOUS
<1>1. CacheInv
  BY CacheInitially
<1>2. DOMAIN cache = {} /\ order = <<>> /\ bytes = 0
  BY DEF CacheInit
<1>3. ToSet(order) = {} /\ IsInjective(order) /\ order \in Seq(CacheKeys)
  BY <1>2 DEF ToSet, IsInjective
<1>4. Bytes(cache) = {}
  BY <1>2 DEF Bytes
<1>5. SizeOf(cache) = 0 /\ Bodies(cache) /\ Cardinality(DOMAIN cache) = 0
  BY <1>2, <1>4, FS_EmptySet DEF SizeOf, Bytes, Bodies
<1>6. CacheCounts
  BY <1>2, <1>3, <1>5, CacheConfig DEF CacheCounts, CacheTypeOK
<1>7. CacheKeyed
  BY QuietIsIdle DEF CacheInit, CacheKeyed
<1> QED BY <1>1, <1>6, <1>7 DEF CacheTyped

\* Through every replacement, expiry and eviction the byte count is that of the
\* entries and the order lists each of them once, so that the loop of insert keeps
\* both bounds by dropping the oldest insertions, whatever bodies are kept and
\* however their requests overlap (insert and remove_entry of response_cache.rs).
THEOREM CacheIsBounded == CacheSpec => []CacheTypeOK
<1>1. CacheTyped => CacheTypeOK
  BY DEF CacheTyped, CacheCounts
<1> QED BY <1>1, CacheTypedInitially, CacheTypedStep, PTL DEF CacheSpec

-----------------------------------------------------------------------------
(* The completeness of a read: folds over the recorded intervals             *)

\* An interval of recorded coverage, inverted ones included.
Interval == [start : Int, end : Int]
In(i, ms) == i.start <= ms /\ ms <= i.end

\* Sorting loses no interval and leaves the starts in order.
LEMMA SortedRuns ==
  ASSUME NEW I \in SUBSET Interval, IsFiniteSet(I)
  PROVE  /\ Sorted(I) \in Seq(Interval) /\ Len(Sorted(I)) = Cardinality(I)
         /\ \A n \in 1 .. Cardinality(I) : Sorted(I)[n] \in I
         /\ \A i \in I : \E n \in 1 .. Cardinality(I) : Sorted(I)[n] = i
         /\ \A m, n \in 1 .. Cardinality(I) : m < n => Sorted(I)[m].start <= Sorted(I)[n].start
<1> DEFINE Below(i) == {j \in I : Before(j, i)}
           R(i) == Cardinality(Below(i))
           N == Cardinality(I)
<1>1. N \in Nat
  BY FS_CardinalityType
<1>2. \A i \in I : i.start \in Int /\ i.end \in Int /\ i = [start |-> i.start, end |-> i.end]
  BY DEF Interval
<1>3. ASSUME NEW i \in I PROVE IsFiniteSet(Below(i)) /\ R(i) \in 0 .. N - 1
  <2>1. Below(i) \in SUBSET I /\ i \notin Below(i)
    BY <1>2 DEF Before
  <2> HIDE DEF Below
  <2>2. IsFiniteSet(Below(i)) /\ R(i) <= N /\ R(i) # N /\ R(i) \in Nat
    BY <2>1, FS_Subset, FS_CardinalityType
  <2> QED BY <1>1, <2>2
<1>4. ASSUME NEW i \in I, NEW j \in I, Before(i, j) PROVE R(i) < R(j)
  <2>1. Below(i) \in SUBSET Below(j) /\ i \in Below(j) /\ i \notin Below(i)
    BY <1>2, <1>4 DEF Before
  <2> HIDE DEF Below
  <2>2. R(i) <= R(j) /\ R(i) # R(j)
    BY <1>3, <2>1, FS_Subset
  <2> QED BY <1>1, <1>3, <2>2
<1>5. ASSUME NEW i \in I, NEW j \in I, R(i) = R(j) PROVE i = j
  <2>1. ~Before(i, j) /\ ~Before(j, i)
    <3>1. R(i) \in Int
      <4>1. R(i) \in 0 .. N - 1
        BY <1>3
      <4> HIDE DEF R, N
      <4> QED BY <1>1, <4>1
    <3>2. ~(R(i) < R(j)) /\ ~(R(j) < R(i))
      BY <1>5, <3>1
    <3> HIDE DEF R
    <3> QED BY <1>4, <3>2
  <2>2. i.start = j.start /\ i.end = j.end
    BY <1>2, <2>1 DEF Before
  <2> QED BY <1>2, <2>2
<1> DEFINE f == [i \in I |-> R(i)]
           T == 0 .. N - 1
<1>6. f \in Injection(I, T)
  <2>1. f \in [I -> T]
    BY <1>3
  <2> HIDE DEF T
  <2> QED BY <1>5, <2>1 DEF Injection, IsInjective
<1>7. IsFiniteSet(T) /\ Cardinality(T) = N
  BY <1>1, FS_Interval
<1>8. f \in Surjection(I, T)
  <2> HIDE DEF f, T
  <2> QED BY <1>6, <1>7, FS_Injection
<1>9. \A m \in T : \E i \in I : f[i] = m
  <2> HIDE DEF f, T
  <2> QED BY <1>8 DEF Surjection
<1>10. ASSUME NEW n \in 1 .. N
       PROVE  Sorted(I)[n] \in I /\ R(Sorted(I)[n]) = n - 1
  <2>1. n - 1 \in T
    BY <1>1
  <2>2. \E i \in I : R(i) = n - 1
    BY <1>9, <2>1
  <2>3. Sorted(I)[n] = CHOOSE i \in I : R(i) = n - 1
    BY DEF Sorted
  <2> HIDE DEF R
  <2> QED BY <2>2, <2>3
<1>11. Sorted(I) \in [1 .. N -> Interval]
  <2>1. Sorted(I) = [n \in 1 .. N |-> Sorted(I)[n]]
    <3> DEFINE e(n) == CHOOSE i \in I : Cardinality({j \in I : Before(j, i)}) = n - 1
    <3>1. Sorted(I) = [n \in 1 .. N |-> e(n)]
      BY DEF Sorted
    <3> HIDE DEF e, N
    <3> QED BY <3>1
  <2>2. \A n \in 1 .. N : Sorted(I)[n] \in Interval
    BY <1>10
  <2> HIDE DEF N
  <2> QED BY <2>1, <2>2
<1>12. Sorted(I) \in Seq(Interval) /\ Len(Sorted(I)) = N
  <2> HIDE DEF N
  <2> QED BY <1>1, <1>11
<1>13. ASSUME NEW i \in I PROVE \E n \in 1 .. N : Sorted(I)[n] = i
  <2> DEFINE n == R(i) + 1
  <2>1. n \in 1 .. N /\ n - 1 = R(i)
    <3>1. R(i) \in 0 .. N - 1
      BY <1>3
    <3> HIDE DEF R, N
    <3> QED BY <1>1, <3>1
  <2>2. Sorted(I)[n] \in I /\ R(Sorted(I)[n]) = R(i)
    BY <1>10, <2>1
  <2>3. Sorted(I)[n] = i
    BY <1>5, <2>2
  <2> QED BY <2>1, <2>3
<1>14. ASSUME NEW m \in 1 .. N, NEW n \in 1 .. N, m < n
       PROVE  Sorted(I)[m].start <= Sorted(I)[n].start
  <2> DEFINE i == Sorted(I)[m]
             j == Sorted(I)[n]
  <2>1. i \in I /\ j \in I /\ R(i) = m - 1 /\ R(j) = n - 1
    BY <1>10
  <2>2. ~(R(j) < R(i))
    <3> HIDE DEF i, j, R, N
    <3> QED BY <1>1, <1>14, <2>1
  <2> HIDE DEF i, j, R
  <2>3. ~Before(j, i)
    BY <1>4, <2>1, <2>2
  <2>4. i.start <= j.start
    BY <1>2, <2>1, <2>3 DEF Before
  <2> QED BY <2>4 DEF i, j
<1> QED BY <1>10, <1>12, <1>13, <1>14
\* The milliseconds of a sequence's first k intervals.
CoversBy(s, k, ms) == \E a \in 1 .. k : In(s[a], ms)

\* What joining has made of the first k of s: intervals neither inverted nor
\* touching one another, over the same milliseconds, none after what is left.
Joined(m, s, k) ==
  /\ m \in Seq(Interval)
  /\ \A a \in 1 .. Len(m) : m[a].start <= m[a].end
  /\ \A a, b \in 1 .. Len(m) : a < b => m[a].end + 1 < m[b].start
  /\ \A ms \in Int : CoversBy(m, Len(m), ms) <=> CoversBy(s, k, ms)
  /\ \A a \in 1 .. Len(m) : \A b \in k + 1 .. Len(s) : m[a].start <= s[b].start

\* The sequence's intervals, in the order of their starts.
Ascending(s) ==
  /\ s \in Seq(Interval)
  /\ \A a, b \in 1 .. Len(s) : a < b => s[a].start <= s[b].start

LEMMA MergeJoins ==
  ASSUME NEW s, Ascending(s), NEW k \in 1 .. Len(s), NEW m, Joined(m, s, k - 1)
  PROVE  Joined(Merge(m, s[k]), s, k)
<1> DEFINE i == s[k]
           n == Len(m)
           j == Merge(m, i)
<1>1. ASSUME NEW t \in Seq(Interval)
      PROVE  /\ Len(t) \in Nat
             /\ \A a \in 1 .. Len(t) :
                  t[a] \in Interval /\ t[a].start \in Int /\ t[a].end \in Int
  <2>1. Len(t) \in Nat /\ \A a \in 1 .. Len(t) : t[a] \in Interval
    OBVIOUS
  <2> QED BY <2>1 DEF Interval
<1>2. /\ Len(s) \in Nat /\ n \in Nat
      /\ \A a \in 1 .. Len(s) : s[a] \in Interval /\ s[a].start \in Int /\ s[a].end \in Int
  BY <1>1 DEF Ascending, Joined
<1>3. i.start \in Int /\ i.end \in Int /\ i \in Interval
  BY <1>2
<1>4. /\ m \in Seq(Interval)
      /\ \A a \in 1 .. n : m[a] \in Interval /\ m[a].start \in Int /\ m[a].end \in Int
  BY <1>1 DEF Joined
<1>5. /\ \A a \in 1 .. n : m[a].start <= m[a].end /\ m[a].start <= i.start
      /\ \A a, b \in 1 .. n : a < b => m[a].end + 1 < m[b].start
      /\ \A a \in 1 .. n : \A b \in k + 1 .. Len(s) : m[a].start <= s[b].start
  <2>1. k \in k - 1 + 1 .. Len(s)
    BY <1>2
  <2>2. \A b \in k + 1 .. Len(s) : b \in k - 1 + 1 .. Len(s)
    BY <1>2
  <2> QED BY <2>1, <2>2 DEF Joined
<1>6. \A b \in k + 1 .. Len(s) : i.start <= s[b].start
  BY <1>2 DEF Ascending
<1>7. \A ms \in Int : CoversBy(s, k, ms) <=> CoversBy(m, n, ms) \/ In(i, ms)
  <2>1. \A ms \in Int : CoversBy(s, k, ms) <=> CoversBy(s, k - 1, ms) \/ In(i, ms)
    <3>1. \A a \in 1 .. k : a \in 1 .. k - 1 \/ a = k
      BY <1>2
    <3>2. k \in 1 .. k /\ \A a \in 1 .. k - 1 : a \in 1 .. k
      BY <1>2
    <3> QED BY <3>1, <3>2, Zenon DEF CoversBy
  <2> QED BY <2>1 DEF Joined
<1> HIDE DEF i
<1>8. CASE i.end < i.start
  <2>1. j = m
    BY <1>8 DEF Merge
  <2>2. \A ms \in Int : ~In(i, ms)
    BY <1>3, <1>8 DEF In
  <2>3. Joined(m, s, k)
    BY <1>4, <1>5, <1>7, <2>2 DEF Joined
  <2> QED BY <2>1, <2>3 DEF i
<1>9. CASE ~(i.end < i.start) /\ Joins(m, i)
  <2>1. n \in 1 .. n /\ i.start <= m[n].end + 1
    BY <1>2, <1>4, <1>9 DEF Joins, Last
  <2> DEFINE e == Maximum(m[n].end, i.end)
  <2>2. j = [m EXCEPT ![n].end = e]
    BY <1>9 DEF Merge
  <2>3. e \in Int /\ e >= m[n].end /\ e >= i.end /\ (e = m[n].end \/ e = i.end)
    BY <1>3, <1>4, <2>1 DEF Maximum
  <2> HIDE DEF e
  <2>4. /\ j \in Seq(Interval) /\ Len(j) = n
        /\ \A a \in 1 .. n : a # n => j[a] = m[a]
        /\ j[n].start = m[n].start /\ j[n].end = e
    <3>1. j = [a \in 1 .. n |-> IF a = n THEN [m[n] EXCEPT !.end = e] ELSE m[a]]
      <4>1. DOMAIN m = 1 .. n
        BY <1>4
      <4> HIDE DEF n, j
      <4> QED BY <2>1, <2>2, <4>1
    <3>2. [m[n] EXCEPT !.end = e] = [start |-> m[n].start, end |-> e]
      BY <1>4, <2>1 DEF Interval
    <3>3. [start |-> m[n].start, end |-> e] \in Interval
      BY <1>4, <2>1, <2>3 DEF Interval
    <3>4. j \in [1 .. n -> Interval]
      BY <1>4, <3>1, <3>2, <3>3
    <3>5. j \in Seq(Interval) /\ Len(j) = n
      <4> HIDE DEF j, n
      <4> QED BY <1>2, <3>4
    <3> QED BY <2>1, <3>1, <3>2, <3>5
  <2> HIDE DEF j, n
  <2>5. \A a \in 1 .. n : j[a].start = m[a].start
    BY <2>4
  <2>6. \A a \in 1 .. n : j[a].start <= j[a].end
    <3>1. m[n].start <= e
      BY <1>4, <1>5, <2>1, <2>3
    <3> QED BY <1>5, <2>4, <3>1
  <2>7. \A a, b \in 1 .. n : a < b => j[a].end + 1 < j[b].start
    <3>1. \A a, b \in 1 .. n : a < b => a # n
      BY <1>2
    <3> QED BY <1>5, <2>4, <2>5, <3>1
  <2>8. \A ms \in Int : CoversBy(j, n, ms) <=> CoversBy(m, n, ms) \/ In(i, ms)
    <3> TAKE ms \in Int
    <3>1. In(j[n], ms) <=> In(m[n], ms) \/ In(i, ms)
      BY <1>3, <1>4, <1>5, <1>9, <2>1, <2>3, <2>4 DEF In
    <3>2. \A a \in 1 .. n : a # n => (In(j[a], ms) <=> In(m[a], ms))
      BY <2>4
    <3> QED BY <2>1, <3>1, <3>2, Zenon DEF CoversBy
  <2>9. Joined(j, s, k)
    BY <1>5, <1>7, <2>4, <2>5, <2>6, <2>7, <2>8 DEF Joined
  <2> QED BY <2>9 DEF i, j
<1>10. CASE ~(i.end < i.start) /\ ~Joins(m, i)
  <2>1. j = Append(m, i)
    BY <1>10 DEF Merge
  <2>2. /\ j \in Seq(Interval) /\ Len(j) = n + 1
        /\ \A a \in 1 .. n : j[a] = m[a]
        /\ j[n + 1] = i
    BY <1>3, <1>4, <2>1
  <2>3. n = 0 \/ (n \in 1 .. n /\ m[n].end + 1 < i.start)
    BY <1>2, <1>3, <1>4, <1>10 DEF Joins, Last
  <2>4. \A a \in 1 .. n : m[a].end + 1 < i.start
    <3> TAKE a \in 1 .. n
    <3>1. n \in 1 .. n /\ m[n].end + 1 < i.start
      BY <1>2, <2>3
    <3>2. a = n \/ m[a].end + 1 < m[n].start
      BY <1>2, <1>5, <3>1
    <3>3. m[n].start <= m[n].end
      BY <1>5, <3>1
    <3>4. m[a].end \in Int /\ m[n].end \in Int /\ m[n].start \in Int
      BY <1>4, <3>1
    <3> QED BY <1>3, <3>1, <3>2, <3>3, <3>4
  <2>5. \A a \in 1 .. n + 1 : a \in 1 .. n \/ a = n + 1
    BY <1>2
  <2>6. n + 1 \in 1 .. n + 1 /\ \A a \in 1 .. n : a \in 1 .. n + 1
    BY <1>2
  <2> HIDE DEF j, n
  <2>7. \A a \in 1 .. n + 1 : j[a].start <= j[a].end
    BY <1>3, <1>5, <1>10, <2>2, <2>5
  <2>8. \A a, b \in 1 .. n + 1 : a < b => j[a].end + 1 < j[b].start
    <3> TAKE a, b \in 1 .. n + 1
    <3>1. a < b => a \in 1 .. n
      BY <1>2
    <3> QED BY <1>5, <2>2, <2>4, <2>5, <3>1
  <2>9. \A ms \in Int : CoversBy(j, n + 1, ms) <=> CoversBy(m, n, ms) \/ In(i, ms)
    BY <2>2, <2>5, <2>6, Zenon DEF CoversBy
  <2>10. \A a \in 1 .. n + 1 : \A b \in k + 1 .. Len(s) : j[a].start <= s[b].start
    BY <1>5, <1>6, <2>2, <2>5
  <2>11. Joined(j, s, k)
    BY <1>7, <2>2, <2>7, <2>8, <2>9, <2>10 DEF Joined
  <2> QED BY <2>11 DEF i, j
<1> QED BY <1>8, <1>9, <1>10

\* MergeIntervals: intervals apart from one another, over the same milliseconds.
LEMMA MergedIsJoined ==
  ASSUME NEW I \in SUBSET Interval, IsFiniteSet(I)
  PROVE  Joined(MergeIntervals(I), Sorted(I), Len(Sorted(I)))
<1> DEFINE s == Sorted(I)
           n == Len(s)
           X == Seq(Interval)
           h == [p \in (1 .. n) \X X |-> Merge(p[2], s[p[1]])]
           f == CHOOSE f : f = [k \in 0 .. n |-> IF k = 0 THEN <<>> ELSE Merge(f[k - 1], s[k])]
<1>1. Ascending(s) /\ n \in Nat /\ s \in Seq(Interval)
  BY SortedRuns, FS_CardinalityType DEF Ascending
<1>2. MergeIntervals(I) = f[n]
  BY DEF MergeIntervals
<1> HIDE DEF s, n, f
<1>3. ASSUME NEW m \in X, NEW k \in 1 .. n PROVE Merge(m, s[k]) \in X
  <2>1. s[k] \in Interval
    BY <1>1 DEF n
  <2>2. m # <<>> => /\ Len(m) \in DOMAIN m /\ m[Len(m)] \in Interval
                    /\ Maximum(m[Len(m)].end, s[k].end) \in Int
    <3> SUFFICES ASSUME m # <<>>
                 PROVE  /\ Len(m) \in DOMAIN m /\ m[Len(m)] \in Interval
                        /\ Maximum(m[Len(m)].end, s[k].end) \in Int
      OBVIOUS
    <3>1. Len(m) \in DOMAIN m /\ m[Len(m)] \in Interval
      OBVIOUS
    <3>2. m[Len(m)].end \in Int /\ s[k].end \in Int
      BY <2>1, <3>1 DEF Interval
    <3> QED BY <3>1, <3>2 DEF Maximum
  <2>3. Joins(m, s[k]) => [m EXCEPT ![Len(m)].end = Maximum(@, s[k].end)] \in X
    <3> SUFFICES ASSUME m # <<>>
                 PROVE  [m EXCEPT ![Len(m)].end = Maximum(@, s[k].end)] \in X
      BY DEF Joins
    <3> DEFINE i == [m[Len(m)] EXCEPT !.end = Maximum(@, s[k].end)]
    <3>1. i \in Interval
      BY <2>2 DEF Interval
    <3>2. [m EXCEPT ![Len(m)] = i] \in X
      <4> HIDE DEF i
      <4> QED BY <3>1
    <3> QED BY <3>2
  <2> QED BY <2>1, <2>3 DEF Merge
<1>4. h \in [(1 .. n) \X X -> X]
  BY <1>3
<1>5. <<>> \in X
  OBVIOUS
<1>6. PICK g \in [0 .. n -> X] : Folds(g, <<>>, h, n)
  <2> HIDE DEF X, h
  <2> QED BY <1>1, <1>4, <1>5, FoldIsDefined
<1>7. g = [k \in 0 .. n |-> IF k = 0 THEN <<>> ELSE Merge(g[k - 1], s[k])]
  <2>1. \A k \in 1 .. n : h[<<k, g[k - 1]>>] = Merge(g[k - 1], s[k])
    BY <1>1, <1>6
  <2>2. \A k \in 0 .. n : k # 0 => k \in 1 .. n
    BY <1>1
  <2> HIDE DEF h
  <2> QED BY <1>6, <2>1, <2>2 DEF Folds
<1>8. f = [k \in 0 .. n |-> IF k = 0 THEN <<>> ELSE Merge(f[k - 1], s[k])]
  BY <1>7 DEF f
<1>9. f[0] = <<>> /\ \A k \in 1 .. n : f[k] = Merge(f[k - 1], s[k])
  BY <1>1, <1>8
<1> DEFINE T == {k \in 0 .. n : Joined(f[k], s, k)}
<1>10. 0 \in T
  <2>1. Joined(<<>>, s, 0)
    BY DEF Joined, CoversBy
  <2> QED BY <1>1, <1>9, <2>1
<1>11. \A k \in 1 .. n : k - 1 \in T => k \in T
  BY <1>1, <1>9, MergeJoins DEF n
<1>12. n \in T
  <2> HIDE DEF T
  <2>1. \A k \in 0 .. n : k \in T
    BY <1>1, <1>10, <1>11, Steps, Zenon
  <2> QED BY <1>1, <2>1
<1> QED BY <1>2, <1>12 DEF s, n
\* Intervals apart from one another, in order.
Apart(m) ==
  /\ m \in Seq(Interval)
  /\ \A a \in 1 .. Len(m) : m[a].start <= m[a].end
  /\ \A a, b \in 1 .. Len(m) : a < b => m[a].end + 1 < m[b].start

Covers(m, ms) == CoversBy(m, Len(m), ms)

Within(g, ms) == g[1] <= ms /\ ms <= g[2]

\* A reported gap: it lies in the window and some of it is not covered.
IsGap(m, from, to, g) ==
  /\ g \in Int \X Int
  /\ from <= g[1] /\ g[1] < g[2] /\ g[2] <= to
  /\ \E ms \in g[1] .. g[2] : ~Covers(m, ms)

\* What the walk knows after the first k intervals.
Walked(acc, m, from, to, k) ==
  /\ acc.cursor \in Int /\ from <= acc.cursor
  /\ acc.cursor = from \/ Covers(m, acc.cursor)
  /\ acc.gaps \in Seq(Int \X Int)
  /\ \A a \in 1 .. Len(acc.gaps) : IsGap(m, from, to, acc.gaps[a])
  /\ \A a \in 1 .. k : m[a].end <= acc.cursor \/ m[a].start > to \/ acc.cursor >= to
  /\ \A ms \in from .. to :
       ms < acc.cursor =>
         Covers(m, ms) \/ \E a \in 1 .. Len(acc.gaps) : Within(acc.gaps[a], ms)

\* Nothing starts right at the cursor or next to it, so part of what follows it
\* is not covered.
LEMMA CursorIsBare ==
  ASSUME NEW m, Apart(m), NEW from \in Int, NEW to \in Int, NEW k \in 0 .. Len(m),
         NEW acc, Walked(acc, m, from, to, k), acc.cursor < to,
         \A a \in k + 1 .. Len(m) : m[a].start > acc.cursor
  PROVE  ~Covers(m, acc.cursor) \/ ~Covers(m, acc.cursor + 1)
<1> DEFINE c == acc.cursor
<1> SUFFICES ASSUME Covers(m, c), Covers(m, c + 1) PROVE FALSE
  OBVIOUS
<1>1. /\ Len(m) \in Nat /\ c \in Int
      /\ \A a \in 1 .. Len(m) : m[a].start \in Int /\ m[a].end \in Int
  <2>1. Len(m) \in Nat /\ \A a \in 1 .. Len(m) : m[a] \in Interval
    BY DEF Apart
  <2> QED BY <2>1 DEF Walked, Interval
<1>2. PICK a \in 1 .. Len(m) : m[a].start <= c /\ c <= m[a].end
  BY DEF Covers, CoversBy, In
<1>3. PICK b \in 1 .. Len(m) : m[b].start <= c + 1 /\ c + 1 <= m[b].end
  BY DEF Covers, CoversBy, In
<1>4. a \in 1 .. k
  <2>1. a \notin k + 1 .. Len(m)
    BY <1>1, <1>2
  <2> QED BY <1>1, <2>1
<1>5. m[a].end = c
  <2>1. m[a].end <= c \/ m[a].start > to \/ c >= to
    BY <1>4 DEF Walked
  <2> QED BY <1>1, <1>2, <2>1
<1>6. a # b
  BY <1>1, <1>3, <1>5
<1>7. CASE a < b
  <2>1. m[a].end + 1 < m[b].start
    BY <1>7 DEF Apart
  <2> QED BY <1>1, <1>3, <1>5, <2>1
<1>8. CASE b < a
  <2>1. m[b].end + 1 < m[a].start
    BY <1>8 DEF Apart
  <2> QED BY <1>1, <1>2, <1>3, <2>1
<1> QED BY <1>6, <1>7, <1>8

LEMMA WalkAdvances ==
  ASSUME NEW m, Apart(m), NEW from \in Int, NEW to \in Int, from < to,
         NEW k \in 1 .. Len(m), NEW acc, Walked(acc, m, from, to, k - 1)
  PROVE  Walked(Advance(acc, m[k], to), m, from, to, k)
<1> DEFINE i == m[k]
           c == acc.cursor
           g == acc.gaps
           d == Advance(acc, i, to)
<1>1. /\ Len(m) \in Nat
      /\ \A a \in 1 .. Len(m) : m[a].start \in Int /\ m[a].end \in Int
  <2>1. Len(m) \in Nat /\ \A a \in 1 .. Len(m) : m[a] \in Interval
    BY DEF Apart
  <2> QED BY <2>1 DEF Interval
<1>2. i.start \in Int /\ i.end \in Int /\ i.start <= i.end
  BY <1>1 DEF Apart
<1>3. /\ c \in Int /\ from <= c /\ (c = from \/ Covers(m, c))
      /\ g \in Seq(Int \X Int) /\ Len(g) \in Nat
      /\ \A a \in 1 .. Len(g) : IsGap(m, from, to, g[a])
      /\ \A a \in 1 .. k - 1 : m[a].end <= c \/ m[a].start > to \/ c >= to
      /\ \A ms \in from .. to :
           ms < c => Covers(m, ms) \/ \E a \in 1 .. Len(g) : Within(g[a], ms)
  BY DEF Walked
<1>4. \A a \in 1 .. k : a \in 1 .. k - 1 \/ a = k
  OBVIOUS
<1>5. \A ms \in Int : i.start <= ms /\ ms <= i.end => Covers(m, ms)
  BY DEF Covers, CoversBy, In
<1>6. CASE ~(i.end >= c /\ i.start <= to /\ c < to)
  <2>1. d = acc
    BY <1>6 DEF Advance
  <2>2. i.end <= c \/ i.start > to \/ c >= to
    BY <1>2, <1>3, <1>6
  <2> HIDE DEF d, i
  <2>3. \A a \in 1 .. k : m[a].end <= c \/ m[a].start > to \/ c >= to
    BY <1>3, <1>4, <2>2 DEF i
  <2>4. Walked(acc, m, from, to, k)
    BY <1>3, <2>3 DEF Walked
  <2> QED BY <2>1, <2>4 DEF d, i
<1>7. CASE i.end >= c /\ i.start <= to /\ c < to
  <2> DEFINE e == Maximum(c, i.end)
             u == Minimum(i.start, to)
             h == IF i.start > c THEN Append(g, <<c, u>>) ELSE g
  <2>1. d = [gaps |-> h, cursor |-> e]
    BY <1>7 DEF Advance
  <2>2. e = i.end
    BY <1>2, <1>3, <1>7 DEF Maximum
  <2>3. Covers(m, e)
    BY <1>2, <1>5, <2>2
  <2>4. \A a \in 1 .. k : m[a].end <= e \/ m[a].start > to \/ e >= to
    <3> TAKE a \in 1 .. k
    <3>1. CASE a = k
      BY <1>2, <2>2, <3>1
    <3>2. CASE a \in 1 .. k - 1
      <4>1. m[a].end <= c
        <5>1. m[a].end + 1 < m[k].start
          <6>1. a \in 1 .. Len(m) /\ k \in 1 .. Len(m) /\ a < k
            BY <1>1, <3>2
          <6> QED BY <1>1, <6>1 DEF Apart
        <5>2. m[a].end <= c \/ m[a].start > to \/ c >= to
          BY <1>3, <3>2
        <5>3. m[a].start <= m[a].end /\ m[a].start \in Int /\ m[a].end \in Int
          BY <1>1, <3>2 DEF Apart
        <5> HIDE DEF c
        <5> QED BY <1>2, <1>3, <1>7, <5>1, <5>2, <5>3
      <4>2. m[a].end \in Int
        BY <1>1, <3>2
      <4> HIDE DEF i
      <4> QED BY <1>2, <1>3, <1>7, <2>2, <4>1, <4>2
    <3> QED BY <1>4, <3>1, <3>2
  <2>5. u = i.start
    BY <1>2, <1>7 DEF Minimum
  <2>6. CASE i.start > c
    <3> DEFINE n == Len(g)
               p == <<c, i.start>>
    <3>1. h \in Seq(Int \X Int) /\ Len(h) = n + 1 /\ h[n + 1] = p
          /\ \A a \in 1 .. n : h[a] = g[a]
      BY <1>2, <1>3, <2>5, <2>6
    <3>2. IsGap(m, from, to, p)
      <4>1. p \in Int \X Int /\ p[1] = c /\ p[2] = i.start
        BY <1>2, <1>3
      <4>2. \A a \in k - 1 + 1 .. Len(m) : m[a].start > c
        <5> TAKE a \in k - 1 + 1 .. Len(m)
        <5>1. a = k \/ m[k].end + 1 < m[a].start
          <6>1. a \in 1 .. Len(m) /\ k \in 1 .. Len(m) /\ (a = k \/ k < a)
            BY <1>1
          <6> QED BY <1>1, <6>1 DEF Apart
        <5> QED BY <1>1, <1>2, <1>3, <2>6, <5>1
      <4>3. ~Covers(m, c) \/ ~Covers(m, c + 1)
        <5>1. k - 1 \in 0 .. Len(m)
          BY <1>1
        <5> QED BY <1>7, <4>2, <5>1, CursorIsBare
      <4>4. c \in c .. i.start /\ c + 1 \in c .. i.start
        BY <1>2, <1>3, <2>6
      <4> HIDE DEF c, i, p
      <4>5. \E ms \in p[1] .. p[2] : ~Covers(m, ms)
        BY <4>1, <4>3, <4>4
      <4>6. from <= c /\ c < i.start /\ i.start <= to
        BY <1>3, <1>7, <2>6
      <4> QED BY <4>1, <4>5, <4>6 DEF IsGap
    <3>3. \A b \in Nat : /\ \A a \in 1 .. b + 1 : a \in 1 .. b \/ a = b + 1
                         /\ b + 1 \in 1 .. b + 1 /\ \A a \in 1 .. b : a \in 1 .. b + 1
      OBVIOUS
    <3>4. n + 1 \in 1 .. n + 1 /\ \A a \in 1 .. n : a \in 1 .. n + 1
      BY <1>3, <3>3
    <3>5. \A ms \in from .. to :
            ms < e => Covers(m, ms) \/ \E a \in 1 .. n + 1 : Within(h[a], ms)
      <4> SUFFICES ASSUME NEW ms \in from .. to, ms < e
                   PROVE  Covers(m, ms) \/ \E a \in 1 .. n + 1 : Within(h[a], ms)
        OBVIOUS
      <4>1. ms \in Int
        OBVIOUS
      <4>2. CASE ms < c
        <5> HIDE DEF h, n, e
        <5> QED BY <1>3, <3>1, <3>4, <4>2 DEF n
      <4>3. CASE c <= ms /\ ms < i.start
        <5>1. p[1] = c /\ p[2] = i.start
          OBVIOUS
        <5>2. Within(p, ms)
          <6> HIDE DEF c, i, p
          <6> QED BY <1>2, <4>1, <4>3, <5>1 DEF Within
        <5> HIDE DEF h, p
        <5> QED BY <3>1, <3>4, <5>2
      <4>4. CASE i.start <= ms
        <5>1. ms <= i.end
          <6> HIDE DEF e, i
          <6> QED BY <1>2, <2>2, <4>1
        <5> QED BY <1>5, <4>1, <4>4, <5>1
      <4> HIDE DEF c, i, h
      <4> QED BY <1>2, <1>3, <4>1, <4>2, <4>3, <4>4
    <3> HIDE DEF h, e, n
    <3>6. \A a \in 1 .. n + 1 : IsGap(m, from, to, h[a])
      <4>1. \A a \in 1 .. n + 1 : a \in 1 .. n \/ a = n + 1
        BY <1>3, <3>3 DEF n
      <4> QED BY <1>3, <3>1, <3>2, <4>1 DEF n
    <3>7. e \in Int /\ from <= e
      BY <1>2, <1>3, <1>7, <2>2
    <3>8. Walked([gaps |-> h, cursor |-> e], m, from, to, k)
      BY <2>3, <2>4, <3>1, <3>5, <3>6, <3>7 DEF Walked
    <3> QED BY <2>1, <3>8 DEF i
  <2>7. CASE ~(i.start > c)
    <3>1. h = g
      BY <2>7
    <3>2. \A ms \in from .. to :
            ms < e => Covers(m, ms) \/ \E a \in 1 .. Len(g) : Within(g[a], ms)
      <4> SUFFICES ASSUME NEW ms \in from .. to, ms < e
                   PROVE  Covers(m, ms) \/ \E a \in 1 .. Len(g) : Within(g[a], ms)
        OBVIOUS
      <4>1. ms \in Int
        OBVIOUS
      <4>2. CASE ms < c
        BY <1>3, <4>2
      <4>3. CASE c <= ms
        <5>1. i.start <= ms /\ ms <= i.end
          <6> HIDE DEF c, e, i
          <6> QED BY <1>2, <1>3, <2>2, <2>7, <4>1, <4>3
        <5> QED BY <1>5, <4>1, <5>1
      <4> HIDE DEF c
      <4> QED BY <1>3, <4>1, <4>2, <4>3
    <3>3. e \in Int /\ from <= e
      BY <1>2, <1>3, <1>7, <2>2
    <3> HIDE DEF h, e
    <3>4. Walked([gaps |-> g, cursor |-> e], m, from, to, k)
      BY <1>3, <2>3, <2>4, <3>2, <3>3 DEF Walked
    <3> QED BY <2>1, <3>1, <3>4 DEF i
  <2> QED BY <2>6, <2>7
<1> QED BY <1>6, <1>7
CoveredBy(I, ms) == \E i \in I : In(i, ms)

\* The merged intervals stand for the recorded ones.
LEMMA MergedCovers ==
  ASSUME NEW I \in SUBSET Interval, IsFiniteSet(I)
  PROVE  /\ Apart(MergeIntervals(I))
         /\ \A ms \in Int : Covers(MergeIntervals(I), ms) <=> CoveredBy(I, ms)
<1> DEFINE m == MergeIntervals(I)
           s == Sorted(I)
           n == Cardinality(I)
<1>1. Joined(m, s, Len(s)) /\ Len(s) = n
  BY MergedIsJoined, SortedRuns
<1>2. /\ \A k \in 1 .. n : s[k] \in I
      /\ \A i \in I : \E k \in 1 .. n : s[k] = i
  BY SortedRuns
<1> HIDE DEF m, s, n
<1>3. \A ms \in Int : CoversBy(s, n, ms) <=> CoveredBy(I, ms)
  BY <1>2, Zenon DEF CoversBy, CoveredBy
<1>4. Apart(m) /\ \A ms \in Int : Covers(m, ms) <=> CoversBy(s, n, ms)
  BY <1>1 DEF Joined, Apart, Covers
<1> QED BY <1>3, <1>4 DEF m

\* UncoveredIntervals: every uncovered millisecond is in a gap, and every gap
\* holds one.
LEMMA GapsAreExact ==
  ASSUME NEW I \in SUBSET Interval, IsFiniteSet(I),
         NEW from \in Int, NEW to \in Int, from < to
  PROVE  /\ UncoveredIntervals(I, from, to) \in Seq(Int \X Int)
         /\ \A a \in 1 .. Len(UncoveredIntervals(I, from, to)) :
              IsGap(MergeIntervals(I), from, to, UncoveredIntervals(I, from, to)[a])
         /\ \A ms \in from .. to :
              \/ CoveredBy(I, ms)
              \/ \E a \in 1 .. Len(UncoveredIntervals(I, from, to)) :
                   Within(UncoveredIntervals(I, from, to)[a], ms)
<1> DEFINE m == MergeIntervals(I)
           n == Len(m)
           b == [gaps |-> <<>>, cursor |-> from]
           X == [gaps : Seq(Int \X Int), cursor : Int]
           h == [p \in (1 .. n) \X X |-> Advance(p[2], m[p[1]], to)]
           f == CHOOSE f : f = [k \in 0 .. n |-> IF k = 0 THEN b ELSE Advance(f[k - 1], m[k], to)]
           d == f[n]
           r == UncoveredIntervals(I, from, to)
<1>1. Apart(m) /\ \A ms \in Int : Covers(m, ms) <=> CoveredBy(I, ms)
  BY MergedCovers
<1>2. r = IF d.cursor < to THEN Append(d.gaps, <<d.cursor, to>>) ELSE d.gaps
  BY DEF UncoveredIntervals
<1> HIDE DEF m, f, d, r
<1>3. n \in Nat /\ \A a \in 1 .. n : m[a] \in Interval
  BY <1>1 DEF Apart
<1> HIDE DEF n
<1>4. ASSUME NEW acc \in X, NEW k \in 1 .. n PROVE Advance(acc, m[k], to) \in X
  <2>1. /\ m[k].start \in Int /\ m[k].end \in Int /\ acc.cursor \in Int
        /\ acc.gaps \in Seq(Int \X Int)
    BY <1>3 DEF Interval
  <2>2. Maximum(acc.cursor, m[k].end) \in Int /\ Minimum(m[k].start, to) \in Int
    BY <2>1 DEF Maximum, Minimum
  <2>3. Append(acc.gaps, <<acc.cursor, Minimum(m[k].start, to)>>) \in Seq(Int \X Int)
    BY <2>1, <2>2
  <2> QED BY <2>1, <2>2, <2>3 DEF Advance
<1>5. h \in [(1 .. n) \X X -> X]
  BY <1>4
<1>6. b \in X
  OBVIOUS
<1>7. PICK g \in [0 .. n -> X] : Folds(g, b, h, n)
  <2> HIDE DEF X, h, b
  <2> QED BY <1>3, <1>5, <1>6, FoldIsDefined
<1>8. g = [k \in 0 .. n |-> IF k = 0 THEN b ELSE Advance(g[k - 1], m[k], to)]
  <2>1. \A k \in 1 .. n : h[<<k, g[k - 1]>>] = Advance(g[k - 1], m[k], to)
    <3> TAKE k \in 1 .. n
    <3>1. g[k - 1] \in X
      BY <1>3, <1>7
    <3> HIDE DEF X
    <3> QED BY <3>1
  <2>2. \A k \in 0 .. n : k # 0 => k \in 1 .. n
    BY <1>3
  <2> HIDE DEF h, b
  <2> QED BY <1>7, <2>1, <2>2 DEF Folds
<1>9. f = [k \in 0 .. n |-> IF k = 0 THEN b ELSE Advance(f[k - 1], m[k], to)]
  BY <1>8 DEF f
<1> HIDE DEF b
<1>10. f[0] = b /\ \A k \in 1 .. n : f[k] = Advance(f[k - 1], m[k], to)
  BY <1>3, <1>9
<1> DEFINE T == {k \in 0 .. n : Walked(f[k], m, from, to, k)}
<1>11. 0 \in T
  <2>1. Walked(b, m, from, to, 0)
    BY DEF Walked, b
  <2> QED BY <1>3, <1>10, <2>1
<1>12. \A k \in 1 .. n : k - 1 \in T => k \in T
  BY <1>1, <1>3, <1>10, WalkAdvances DEF n
<1>13. Walked(d, m, from, to, n)
  <2> HIDE DEF T
  <2>1. \A k \in 0 .. n : k \in T
    BY <1>3, <1>11, <1>12, Steps, Zenon
  <2>2. n \in T
    BY <1>3, <2>1
  <2> QED BY <2>2 DEF T, d
<1> DEFINE c == d.cursor
           q == Len(d.gaps)
<1>14. /\ c \in Int /\ from <= c /\ (c = from \/ Covers(m, c))
       /\ d.gaps \in Seq(Int \X Int) /\ q \in Nat
       /\ \A a \in 1 .. q : IsGap(m, from, to, d.gaps[a])
       /\ \A ms \in from .. to :
            ms < c => Covers(m, ms) \/ \E a \in 1 .. q : Within(d.gaps[a], ms)
  BY <1>13 DEF Walked
<1>15. CASE c < to
  <2> DEFINE p == <<c, to>>
  <2>1. r = Append(d.gaps, p)
    BY <1>2, <1>15
  <2>2. /\ r \in Seq(Int \X Int) /\ Len(r) = q + 1 /\ r[q + 1] = p
        /\ \A a \in 1 .. q : r[a] = d.gaps[a]
    BY <1>14, <2>1
  <2>3. IsGap(m, from, to, p)
    <3>1. p \in Int \X Int /\ p[1] = c /\ p[2] = to
      BY <1>14
    <3>2. ~Covers(m, c) \/ ~Covers(m, c + 1)
      <4>1. n \in 0 .. n /\ \A a \in n + 1 .. n : m[a].start > c
        BY <1>3
      <4> QED BY <1>1, <1>13, <1>15, <4>1, CursorIsBare DEF n
    <3>3. c \in c .. to /\ c + 1 \in c .. to
      BY <1>14, <1>15
    <3> HIDE DEF c, p
    <3>4. \E ms \in p[1] .. p[2] : ~Covers(m, ms)
      BY <3>1, <3>2, <3>3
    <3> QED BY <1>14, <1>15, <3>1, <3>4 DEF IsGap
  <2>4. /\ \A a \in 1 .. q + 1 : a \in 1 .. q \/ a = q + 1
        /\ q + 1 \in 1 .. q + 1 /\ \A a \in 1 .. q : a \in 1 .. q + 1
    <3> HIDE DEF q
    <3> QED BY <1>14
  <2>5. ASSUME NEW ms \in from .. to
        PROVE  Covers(m, ms) \/ \E a \in 1 .. q + 1 : Within(r[a], ms)
    <3>1. ms \in Int
      OBVIOUS
    <3>2. CASE ms < c
      <4> HIDE DEF c, q, p
      <4> QED BY <1>14, <2>2, <2>4, <3>2
    <3>3. CASE c <= ms
      <4>1. p[1] = c /\ p[2] = to
        OBVIOUS
      <4>2. Within(p, ms)
        <5> HIDE DEF c, p
        <5> QED BY <1>14, <3>1, <3>3, <4>1 DEF Within
      <4> HIDE DEF c, q, p
      <4> QED BY <2>2, <2>4, <4>2
    <3> HIDE DEF c
    <3> QED BY <1>14, <3>1, <3>2, <3>3
  <2>6. \A a \in 1 .. q + 1 : IsGap(m, from, to, r[a])
    <3> HIDE DEF q, p
    <3> QED BY <1>14, <2>2, <2>3, <2>4
  <2>7. \A ms \in from .. to : ms \in Int
    OBVIOUS
  <2> HIDE DEF q
  <2> QED BY <1>1, <2>2, <2>5, <2>6, <2>7 DEF r, m
<1>16. CASE ~(c < to)
  <2>1. r = d.gaps
    BY <1>2, <1>16
  <2>2. ASSUME NEW ms \in from .. to
        PROVE  Covers(m, ms) \/ \E a \in 1 .. q : Within(r[a], ms)
    <3>1. ms \in Int
      OBVIOUS
    <3>2. CASE ms < c
      BY <1>14, <2>1, <3>2
    <3>3. CASE ms = c
      <4> HIDE DEF c
      <4>1. Covers(m, c)
        BY <1>14, <1>16
      <4> QED BY <3>3, <4>1
    <3>4. ms < c \/ ms = c
      <4> HIDE DEF c
      <4> QED BY <1>14, <1>16, <3>1
    <3> QED BY <3>2, <3>3, <3>4
  <2>3. \A ms \in from .. to : ms \in Int
    OBVIOUS
  <2> QED BY <1>1, <1>14, <2>1, <2>2, <2>3 DEF r, m
<1> QED BY <1>15, <1>16

\* An argument the code can be called with: times are milliseconds of Unix time.
InputType ==
  /\ input \in [intervals : SUBSET Interval, received : Seq(Nat),
                request : [before : Int, after : Int, limit : Nat, now : Int, retention : Int]]
  /\ IsFiniteSet(input.intervals)

LEMMA AssessmentIsDefined ==
  ASSUME InputType
  PROVE  /\ Assessment.start \in Int /\ Assessment.end \in Int
         /\ Assessment.start < Assessment.end =>
              LET gaps == UncoveredIntervals(input.intervals, Assessment.start, Assessment.end)
              IN Assessment.gaps = gaps /\ (Assessment.sufficient <=> gaps = <<>>)
<1> DEFINE received == input.received
           I == input.intervals
           q == input.request
           end == IF q.before = NoTime THEN q.now ELSE Minimum(q.before, q.now)
           horizon == end - q.retention
           requested == IF q.after = NoTime THEN horizon ELSE Maximum(q.after, horizon)
           newest == {received[k] : k \in (Len(received) - q.limit + 1)..Len(received)}
           oldest == CHOOSE t \in newest : \A u \in newest : t <= u
           start == IF Len(received) >= q.limit THEN Maximum(oldest, requested) ELSE requested
           gaps == UncoveredIntervals(I, start, end)
<1>1. /\ q.before \in Int /\ q.after \in Int /\ q.limit \in Nat /\ q.now \in Int
      /\ q.retention \in Int /\ received \in Seq(Nat) /\ Len(received) \in Nat
  BY DEF InputType
<1>2. Assessment = IF q.limit = 0 \/ (q.after # NoTime /\ q.after >= end)
                   THEN [sufficient |-> TRUE, start |-> end, end |-> end, gaps |-> <<>>]
                   ELSE [sufficient |-> gaps = <<>>, start |-> start, end |-> end, gaps |-> gaps]
  BY DEF Assessment, AssessCoverage
<1> HIDE DEF received, q
<1>3. end \in Int /\ horizon \in Int /\ requested \in Int
  BY <1>1 DEF Minimum, Maximum
<1>4. q.limit # 0 => start \in Int
  <2> SUFFICES ASSUME q.limit # 0, Len(received) >= q.limit PROVE Maximum(oldest, requested) \in Int
    BY <1>3
  <2>1. newest \in SUBSET Nat /\ newest # {}
    <3>1. \A k \in (Len(received) - q.limit + 1)..Len(received) : received[k] \in Nat
      BY <1>1
    <3>2. Len(received) \in (Len(received) - q.limit + 1)..Len(received)
      BY <1>1
    <3> QED BY <3>1, <3>2
  <2> HIDE DEF newest
  <2>2. oldest \in Nat
    BY <2>1, Least
  <2> HIDE DEF oldest, requested
  <2> QED BY <1>3, <2>2 DEF Maximum
<1> HIDE DEF start, end
<1>5. CASE q.limit = 0 \/ (q.after # NoTime /\ q.after >= end)
  <2>1. Assessment.start = end /\ Assessment.end = end
    BY <1>2, <1>5
  <2>2. ~(end < end)
    BY <1>3
  <2> HIDE DEF gaps
  <2> QED BY <1>3, <2>1, <2>2
<1>6. CASE ~(q.limit = 0 \/ (q.after # NoTime /\ q.after >= end))
  <2> HIDE DEF gaps
  <2>1. /\ Assessment.start = start /\ Assessment.end = end /\ Assessment.gaps = gaps
        /\ Assessment.sufficient = (gaps = <<>>)
    BY <1>2, <1>6
  <2> QED BY <1>3, <1>4, <1>6, <2>1 DEF gaps
<1> QED BY <1>5, <1>6

\* x-rm-coverage "complete" is exact, for every request, every returned sequence
\* and every finite set of recorded intervals.
LEMMA Exact ==
  ASSUME InputType
  PROVE  AssessmentIsExact
<1> DEFINE A == Assessment
           I == input.intervals
           r == UncoveredIntervals(I, A.start, A.end)
<1>1. I \in SUBSET Interval /\ IsFiniteSet(I)
  BY DEF InputType
<1> SUFFICES ASSUME A.start < A.end
             PROVE  /\ A.sufficient <=> \A ms \in A.start..A.end : Covered(ms)
                    /\ \A ms \in A.start..A.end :
                         ~Covered(ms) => \E g \in ToSet(A.gaps) : g[1] <= ms /\ ms <= g[2]
                    /\ \A g \in ToSet(A.gaps) :
                         g[1] < g[2] /\ \E ms \in g[1]..g[2] : ~Covered(ms)
  BY DEF AssessmentIsExact
<1>2. A.start \in Int /\ A.end \in Int /\ A.gaps = r /\ (A.sufficient <=> r = <<>>)
  BY AssessmentIsDefined
<1> HIDE DEF A
<1>3. /\ r \in Seq(Int \X Int)
      /\ \A a \in 1 .. Len(r) : IsGap(MergeIntervals(I), A.start, A.end, r[a])
      /\ \A ms \in A.start .. A.end :
           CoveredBy(I, ms) \/ \E a \in 1 .. Len(r) : Within(r[a], ms)
  BY <1>1, <1>2, GapsAreExact
<1>4. \A ms \in Int : /\ Covers(MergeIntervals(I), ms) <=> CoveredBy(I, ms)
                      /\ Covered(ms) <=> CoveredBy(I, ms)
  BY <1>1, MergedCovers, Zenon DEF Covered, CoveredBy, In
<1> HIDE DEF r, I
<1>5. DOMAIN r = 1 .. Len(r) /\ Len(r) \in Nat /\ (r = <<>> <=> Len(r) = 0)
  BY <1>3
<1>6. \A g \in ToSet(r) : \E a \in 1 .. Len(r) : g = r[a]
  BY <1>5 DEF ToSet
<1>7. \A a \in 1 .. Len(r) : r[a] \in ToSet(r)
  BY <1>5 DEF ToSet
<1>8. \A ms \in A.start..A.end :
        ~Covered(ms) => \E g \in ToSet(r) : g[1] <= ms /\ ms <= g[2]
  <2>1. \A ms \in A.start..A.end : ms \in Int
    OBVIOUS
  <2> QED BY <1>3, <1>4, <1>7, <2>1 DEF Within
<1>9. ASSUME NEW g \in ToSet(r)
      PROVE  /\ g[1] < g[2]
             /\ \E ms \in g[1]..g[2] : ms \in A.start .. A.end /\ ~Covered(ms)
  <2>1. IsGap(MergeIntervals(I), A.start, A.end, g)
    BY <1>3, <1>6
  <2>2. g[1] \in Int /\ g[2] \in Int /\ A.start <= g[1] /\ g[1] < g[2] /\ g[2] <= A.end
    BY <2>1 DEF IsGap
  <2>3. PICK ms \in g[1]..g[2] : ~Covers(MergeIntervals(I), ms)
    BY <2>1 DEF IsGap
  <2>4. ms \in Int /\ ms \in A.start .. A.end
    BY <1>2, <2>2
  <2> QED BY <1>4, <2>2, <2>3, <2>4
<1>10. A.sufficient <=> \A ms \in A.start..A.end : Covered(ms)
  <2>1. CASE r = <<>>
    BY <1>2, <1>5, <1>6, <1>8, <2>1
  <2>2. CASE r # <<>>
    <3>1. 1 \in 1 .. Len(r)
      BY <1>5, <2>2
    <3> QED BY <1>2, <1>7, <1>9, <2>2, <3>1
  <2> QED BY <2>1, <2>2
<1> QED BY <1>2, <1>8, <1>9, <1>10
\* What CoverageBridges has reached after the first k intervals.
Bridged(acc, I, from) ==
  /\ acc.first \in BOOLEAN /\ acc.cursor \in Int /\ from <= acc.cursor
  /\ acc.first => acc.cursor = from
  /\ \A ms \in from .. acc.cursor : ms = from \/ CoveredBy(I, ms) \/ ms < from + Grace

LEMMA BridgeReaches ==
  ASSUME NEW I \in SUBSET Interval, NEW i \in I, NEW from \in Int, NEW acc, Bridged(acc, I, from)
  PROVE  Bridged(Bridge(acc, i), I, from)
<1> DEFINE c == acc.cursor
           d == Bridge(acc, i)
           limit == BridgeLimit(acc)
<1>1. i.start \in Int /\ i.end \in Int /\ Grace \in Nat
  BY CoverageBounds DEF Interval
<1>2. /\ c \in Int /\ from <= c /\ acc.first \in BOOLEAN
      /\ (acc.first => c = from)
      /\ \A ms \in from .. c : ms = from \/ CoveredBy(I, ms) \/ ms < from + Grace
  BY DEF Bridged
<1>3. limit = IF acc.first THEN c + Grace ELSE c + 1
  BY DEF BridgeLimit
<1> HIDE DEF c, limit
<1>4. CASE i.end < c \/ i.start > limit
  BY <1>4 DEF Bridge, c, limit
<1>5. CASE ~(i.end < c \/ i.start > limit)
  <2>1. d = [first |-> FALSE, cursor |-> Maximum(c, i.end)]
    BY <1>5 DEF Bridge, c, limit
  <2>2. Maximum(c, i.end) = i.end /\ c <= i.end /\ i.start <= limit /\ limit \in Int
    BY <1>1, <1>2, <1>3, <1>5 DEF Maximum
  <2>3. ASSUME NEW ms \in from .. i.end, ms # from, ~(ms < from + Grace)
        PROVE  CoveredBy(I, ms)
    <3>1. CASE ms <= c
      BY <1>2, <2>3, <3>1
    <3>2. CASE ~(ms <= c)
      <4>1. i.start <= ms
        BY <1>1, <1>2, <1>3, <2>2, <2>3, <3>2
      <4>2. In(i, ms)
        BY <4>1 DEF In
      <4> QED BY <4>2 DEF CoveredBy
    <3> QED BY <3>1, <3>2
  <2>4. i.end \in Int /\ from <= i.end
    BY <1>1, <1>2, <2>2
  <2>5. Bridged([first |-> FALSE, cursor |-> i.end], I, from)
    BY <2>3, <2>4 DEF Bridged
  <2> QED BY <2>1, <2>2, <2>5
<1> QED BY <1>4, <1>5

\* CoverageBridges: up to the end, what is not covered lies in the grace after
\* the checkpoint.
LEMMA BridgesCover ==
  ASSUME NEW I \in SUBSET Interval, IsFiniteSet(I),
         NEW from \in Int, NEW to \in Int, from < to, CoverageBridges(I, from, to)
  PROVE  \A ms \in from .. to : ms = from \/ CoveredBy(I, ms) \/ ms < from + Grace
<1> DEFINE s == Sorted(I)
           n == Len(s)
           b == [first |-> TRUE, cursor |-> from]
           X == [first : BOOLEAN, cursor : Int]
           h == [p \in (1 .. n) \X X |-> Bridge(p[2], s[p[1]])]
           f == CHOOSE f : f = [k \in 0 .. n |-> IF k = 0 THEN b ELSE Bridge(f[k - 1], s[k])]
<1>1. n \in Nat /\ \A k \in 1 .. n : s[k] \in I /\ s[k] \in Interval
  BY SortedRuns, FS_CardinalityType
<1>2. f[n].cursor >= to
  BY DEF CoverageBridges
<1> HIDE DEF s, f
<1>3. ASSUME NEW acc \in X, NEW k \in 1 .. n PROVE Bridge(acc, s[k]) \in X
  BY <1>1 DEF Bridge, Maximum, Interval
<1> HIDE DEF n
<1>4. h \in [(1 .. n) \X X -> X]
  BY <1>3
<1>5. b \in X
  OBVIOUS
<1>6. PICK g \in [0 .. n -> X] : Folds(g, b, h, n)
  <2> HIDE DEF X, h, b
  <2> QED BY <1>1, <1>4, <1>5, FoldIsDefined
<1>7. g = [k \in 0 .. n |-> IF k = 0 THEN b ELSE Bridge(g[k - 1], s[k])]
  <2>1. \A k \in 1 .. n : h[<<k, g[k - 1]>>] = Bridge(g[k - 1], s[k])
    <3> TAKE k \in 1 .. n
    <3>1. g[k - 1] \in X
      BY <1>1, <1>6
    <3> HIDE DEF X
    <3> QED BY <3>1
  <2>2. \A k \in 0 .. n : k # 0 => k \in 1 .. n
    BY <1>1
  <2> HIDE DEF h, b
  <2> QED BY <1>6, <2>1, <2>2 DEF Folds
<1>8. f = [k \in 0 .. n |-> IF k = 0 THEN b ELSE Bridge(f[k - 1], s[k])]
  BY <1>7 DEF f
<1> HIDE DEF b
<1>9. f[0] = b /\ \A k \in 1 .. n : f[k] = Bridge(f[k - 1], s[k])
  BY <1>1, <1>8
<1> DEFINE T == {k \in 0 .. n : Bridged(f[k], I, from)}
<1>10. 0 \in T
  <2>1. Bridged(b, I, from)
    BY DEF Bridged, b
  <2> QED BY <1>1, <1>9, <2>1
<1>11. \A k \in 1 .. n : k - 1 \in T => k \in T
  BY <1>1, <1>9, BridgeReaches
<1>12. Bridged(f[n], I, from)
  <2> HIDE DEF T
  <2>1. \A k \in 0 .. n : k \in T
    BY <1>1, <1>10, <1>11, Steps, Zenon
  <2>2. n \in T
    BY <1>1, <2>1
  <2> QED BY <2>2 DEF T
<1> QED BY <1>2, <1>12 DEF Bridged

\* x-rm-coverage "best-effort" is backed.
LEMMA Backed ==
  ASSUME InputType
  PROVE  BestEffortIsBacked
<1> DEFINE I == input.intervals
<1>1. I \in SUBSET Interval /\ IsFiniteSet(I)
  BY DEF InputType
<1>2. Assessment.start \in Int /\ Assessment.end \in Int
  BY AssessmentIsDefined
<1>3. ASSUME NEW A, A.start \in Int, A.end \in Int, NEW from \in Times, NEW to \in Times, NEW at,
             AssessCheckpoint([start |-> from, end |-> to, outcome |-> "success", nextRetry |-> 0],
                              A, I, at).bestEffort,
             NEW ms \in A.start .. A.end
      PROVE  Covered(ms) \/ (from <= ms /\ ms <= to) \/ (to < ms /\ ms < to + Grace)
  <2>1. from \in Int /\ to \in Int
    BY CoverageBounds DEF Times
  <2>2. from <= A.start /\ (to >= A.end \/ CoverageBridges(I, to, A.end))
    BY <1>3 DEF AssessCheckpoint
  <2>3. CASE ms <= to
    BY <1>3, <2>1, <2>2, <2>3
  <2>4. CASE ~(ms <= to)
    <3>1. to < A.end /\ ms \in to .. A.end /\ ms # to
      BY <1>3, <2>1, <2>4
    <3>2. CoverageBridges(I, to, A.end)
      BY <1>3, <2>1, <2>2, <3>1
    <3>3. CoveredBy(I, ms) \/ ms < to + Grace
      BY <1>1, <1>3, <2>1, <3>1, <3>2, BridgesCover
    <3>4. CoveredBy(I, ms) => Covered(ms)
      BY Zenon DEF CoveredBy, Covered, In
    <3> QED BY <1>3, <2>1, <2>4, <3>3, <3>4
  <2> QED BY <2>3, <2>4
<1> QED BY <1>2, <1>3 DEF BestEffortIsBacked

\* The arguments the run enumerates are among those the theorems are about.
LEMMA EnumeratedInputs ==
  CoverageInit => InputType
<1> SUFFICES ASSUME CoverageInit PROVE InputType
  OBVIOUS
<1>1. PICK a \in Intervals, b \in Intervals, c \in {i \in Intervals : i.start <= i.end},
           r \in Requests, s \in {<<>>, <<2, 1>>} :
           input = [intervals |-> {a, b, c}, request |-> r, received |-> s]
  BY DEF CoverageInit
<1>2. MaxMs \in Nat /\ Retention \in Nat
  BY CoverageBounds
<1>3. Intervals \subseteq Interval
  BY <1>2 DEF Intervals, Interval, Times
<1>4. {a, b, c} \in SUBSET Interval
  BY <1>3
<1>5. IsFiniteSet({a, b, c})
  <2>1. IsFiniteSet({a})
    BY FS_Singleton
  <2>2. IsFiniteSet({a} \cup {b} \cup {c})
    BY <2>1, FS_AddElement
  <2>3. {a} \cup {b} \cup {c} = {a, b, c}
    OBVIOUS
  <2> QED BY <2>2, <2>3
<1>6. r \in [before : Int, after : Int, limit : Nat, now : Int, retention : Int]
  BY <1>2 DEF Requests, NoTime
<1>7. s \in Seq(Nat)
  <2>1. <<>> \in Seq(Nat)
    OBVIOUS
  <2>2. <<2, 1>> \in Seq(Nat)
    OBVIOUS
  <2> QED BY <2>1, <2>2
<1> QED BY <1>1, <1>4, <1>5, <1>6, <1>7 DEF InputType

\* x-rm-coverage "complete": for every request, every returned sequence and every
\* finite set of recorded intervals, overlapping, touching, nested and inverted
\* ones included, AssessCoverage finds the window covered exactly when each of
\* its milliseconds is, and its gaps are the uncovered stretches.
THEOREM CompletenessIsExact ==
  InputType /\ [][CoverageNext]_input => []AssessmentIsExact
<1>1. InputType /\ [CoverageNext]_input => InputType'
  BY DEF CoverageNext, InputType
<1>2. InputType => AssessmentIsExact
  BY Exact
<1> QED BY <1>1, <1>2, PTL

\* x-rm-coverage "best-effort": whatever coverage is recorded, a checkpoint makes
\* an answer best effort only if each millisecond of the window is covered, was
\* asked of the providers, or lies in the hand-off grace after what was asked.
THEOREM BestEffortStands ==
  InputType /\ [][CoverageNext]_input => []BestEffortIsBacked
<1>1. InputType /\ [CoverageNext]_input => InputType'
  BY DEF CoverageNext, InputType
<1>2. InputType => BestEffortIsBacked
  BY Backed
<1> QED BY <1>1, <1>2, PTL

-----------------------------------------------------------------------------
(* The parts side by side, as module MCServing runs them                     *)

ServingTyped == RepairTyped /\ CacheTyped /\ SessionInv /\ PeersTyped

\* A step of the whole is a step of one part, at which the others stand still.
LEMMA PartsStep ==
  [ServingNext]_servingVars =>
    /\ [RepairNext]_repairVars /\ [CacheNext]_cacheVars
    /\ [SessionNext]_sessionVars /\ [PeersNext]_peerVars
    /\ part' = part
    /\ part = "lone" => [ReadingNext(q1)]_peerVars
BY LoneReading DEF ServingNext, Others, servingVars, PeersNext

LEMMA LonePart ==
  ServingSpec => [](part = "lone" => LoneInv(q1))
<1>1. ServingInit => LoneInv(q1)
  BY LoneReading, LoneInitially DEF ServingInit
<1>2. (part = "lone" => LoneInv(q1)) /\ [ServingNext]_servingVars
        => (part = "lone" => LoneInv(q1))'
  BY LoneReading, PartsStep, LoneStep
<1> QED BY <1>1, <1>2, PTL DEF ServingSpec

\* The invariants of the parts are those of the composition that the runs check: a
\* repair, a cached answer, a session and the reads of peers share no state.
THEOREM ServingIsTyped == ServingSpec => []ServingTypeOK
<1>1. ServingInit => ServingTyped
  BY RepairTypedInitially, CacheTypedInitially, SessionInitially, PeersTypedInitially
     DEF ServingInit, ServingTyped
<1>2. ServingTyped /\ [ServingNext]_servingVars => ServingTyped'
  BY PartsStep, RepairTypedStep, CacheTypedStep, SessionStep, PeersTypedStep DEF ServingTyped
<1>3. ServingTyped => ServingTypeOK
  BY RepairTypesHold
     DEF ServingTyped, ServingTypeOK, CacheTyped, CacheCounts, SessionInv, PeersTyped
<1> QED BY <1>1, <1>2, <1>3, PTL DEF ServingSpec

\* A read that is alone on its nodes marks no short answer complete, whichever peers
\* fail, answer late or have gaps and whatever store or coverage writes fail
\* (complete_from_peers of get_recent_messages.rs and peer.rs).
THEOREM LoneReadsOfTheRun == ServingSpec => []LoneAnswersAreComplete
<1>1. (part = "lone" => LoneInv(q1)) => LoneAnswersAreComplete
  BY LoneReading, LoneAnswers DEF LoneAnswersAreComplete
<1> QED BY <1>1, LonePart, PTL
=============================================================================
