----------------------------- MODULE ControlPlane -----------------------------
(***************************************************************************)
(* The replicated control plane with one owner and its mirrors: cluster.rs *)
(* (mutate, push, pull, receive), web/cluster_policy.rs (apply, gate,      *)
(* synchronize, accept_snapshot, mutation_post), the start and the sync    *)
(* loop of web/mod.rs, and the requests of web/ignored.rs and purge.rs     *)
(* that go through them.                                                   *)
(*                                                                         *)
(* The owner commits a change, pushes its whole state to every mirror and  *)
(* reports success only when all have acknowledged.  A mirror stores the   *)
(* state, applies each channel's policy to its own block store, and only   *)
(* then is ready.  Every read passes a gate: the node must be ready, and   *)
(* the channel's policy is read and applied first.                         *)
(*                                                                         *)
(* Abstractions.  There is one epoch, and the consensus role, which leaves *)
(* the log to an external authority, is not modelled.  A push is a message *)
(* and an acknowledgement, or nothing in time.  Of the block store only    *)
(* the blocked channels and the purge cutoffs are kept.  A write of it is  *)
(* one step: what a dropped handler has handed to the database is done or  *)
(* not begun.  The configuration lists no channels to pin at start.        *)
(***************************************************************************)
EXTENDS Naturals, Sequences, FiniteSets

CONSTANTS
    Owner,      \* the node with role "owner"
    Mirror,     \* the nodes with role "replica", all configured at the owner
    Channel,    \* channel logins
    Token,      \* session tokens
    Request,    \* requests of clients that may be in progress at once
    Kinds,      \* BOUND: what they ask for: read, ignore, unignore, purge, pin
    Loops,      \* BOUND: the nodes whose sync loops tick
    None,       \* no value, Option::None: not a policy
    MaxPins,    \* max_always_join_channels
    Skew,       \* whether a clock may be behind a cutoff already recorded
    MaxRev,     \* BOUND: revisions
    MaxTime,    \* BOUND: clocks, in milliseconds
    MaxCrash    \* BOUND: crashes

ASSUME NodeAssumption ==
    /\ Owner \notin Mirror /\ None \notin Mirror \cup {Owner} \cup Request
    /\ None \notin [ignored : BOOLEAN, pin : BOOLEAN, purge : Nat]
    /\ Request \cap (Mirror \cup {Owner}) = {}
    /\ Loops \subseteq Mirror \cup {Owner}
    /\ Kinds \subseteq {"read", "ignore", "unignore", "purge", "pin"}

ASSUME BoundAssumption ==
    {MaxPins, MaxRev, MaxTime, MaxCrash} \subseteq Nat /\ Skew \in BOOLEAN

VARIABLES
    state,      \* [Node -> rm_metadata, rm_channel and rm_auth], durable
    applied,    \* [Node -> cluster_applied_policy], durable
    blocked,    \* [Node -> blocked_channels of the block store], durable
    cutoff,     \* [Node -> channel_purge_cutoffs], durable
    up,         \* [Node -> whether it is down, starting or serving]
    mem,        \* [Node -> AppliedPolicies, None when absent]
    mut,        \* the change or push that holds the owner's mutation_lock
    net,        \* snapshots on their way to a mirror
    task,       \* [Task -> what it is doing]
    lock,       \* [Node -> the task that holds the AppliedPolicies mutex]
    crashes,    \* BOUND: crashes so far
    log,        \* HISTORY: the owner's contents, by revision
    acked       \* HISTORY: the last revision reported as a success

history == <<log, acked>>
store == <<applied, blocked, cutoff>>
vars == <<state, store, up, mem, mut, net, task, lock, crashes, history>>

-----------------------------------------------------------------------------
Node == Mirror \cup {Owner}
\* A node has its sync loop, or its start; a mirror's receive_lock makes the
\* acceptance of a pushed snapshot share that slot.
Task == Node \cup Request

Policy == [ignored : BOOLEAN, pin : BOOLEAN, purge : Nat]
NoPolicy == [ignored |-> FALSE, pin |-> FALSE, purge |-> 0]
NoPolicies == [c \in Channel |-> NoPolicy]

\* What a snapshot carries besides its revision.
Content == [policy : [Channel -> Policy], sessions : SUBSET Token]
Nothing == [policy |-> NoPolicies, sessions |-> {}]

Snapshot(r, rev, content, kind) ==
    [to |-> r, rev |-> rev, content |-> content, kind |-> kind]

NoMut == [held |-> FALSE, rev |-> 0, waiting |-> {}, failed |-> FALSE,
          client |-> FALSE, by |-> None]

\* home is where a handler lives, node where it runs now: the owner, while it
\* changes the state for a mirror (mutation_post).
NoTask == [kind |-> "none", step |-> "idle", home |-> Owner, node |-> Owner,
           chan |-> None, todo |-> {}, policies |-> NoPolicies, at |-> 0,
           since |-> 0]
Start(n, kind) ==
    [NoTask EXCEPT !.kind = kind, !.step = "list", !.home = n, !.node = n]

\* MUTANT of Synchronize: a snapshot is accepted, and a start ends, with nothing applied.
SynchronizeNothing(n, kind, policies) ==
    [Start(n, kind) EXCEPT !.step = "apply", !.policies = policies]

\* synchronize: list every channel's policy, then apply what was listed.  A
\* node's state does not change before its own sync loop or start lists it.
Synchronize(n, kind, policies) ==
    [Start(n, kind) EXCEPT !.step = "apply", !.policies = policies,
                           !.todo = Channel]
Free == [by |-> None, chan |-> None, step |-> "free"]

Larger(a, b) == IF a > b THEN a ELSE b
PurgeOf(p) == IF p = None THEN 0 ELSE p.purge
Ignored(n) == {c \in Channel : state[n].content.policy[c].ignored}

Init ==
    /\ state = [n \in Node |-> [known |-> n = Owner, ready |-> n = Owner,
                                rev |-> 0, content |-> Nothing]]
    /\ applied = [n \in Node |-> [c \in Channel |-> None]]
    /\ blocked = [n \in Node |-> {}]
    /\ cutoff = [n \in Node |-> [c \in Channel |-> 0]]
    /\ up = [n \in Node |-> "down"]
    /\ mem = [n \in Node |-> [c \in Channel |-> None]]
    /\ mut = NoMut /\ net = {}
    /\ task = [t \in Task |-> NoTask]
    /\ lock = [n \in Node |-> Free]
    /\ crashes = 0 /\ log = <<>> /\ acked = 0

-----------------------------------------------------------------------------
\* mutate, on the owner: under the mutation lock the change and the next
\* revision are committed together, then the state is pushed to every mirror.
Commit(new) ==
    /\ up[Owner] = "up" /\ ~mut.held /\ state[Owner].ready
    /\ state[Owner].rev < MaxRev
    /\ state' = [state EXCEPT ![Owner].rev = @ + 1, ![Owner].content = new]
    /\ log' = Append(log, new)

Mutate(new, by) ==
    LET rev == state[Owner].rev + 1
    IN /\ Commit(new)
       /\ mut' = [held |-> TRUE, rev |-> rev, waiting |-> Mirror,
                  failed |-> FALSE, client |-> TRUE, by |-> by]
       /\ net' = net \cup {Snapshot(r, rev, new, "push") : r \in Mirror}
       /\ UNCHANGED <<store, up, mem, task, lock, crashes, acked>>

WithPolicy(c, p) == [state[Owner].content EXCEPT !.policy[c] = p]
OwnerPolicy(c) == state[Owner].content.policy[c]

\* Utc::now() where a cutoff is made.  Without skew it is later than the last
\* one recorded; how much later makes no difference.
ClockReads(c) == {t \in 1 .. MaxTime : Skew \/ t = OwnerPolicy(c).purge + 1}

\* MUTANT of ChangeFor: a cutoff is what the clock says, even when that is earlier.
ChangeForClock(q) ==
    LET c == task[q].chan
        p == OwnerPolicy(c)
    IN /\ task[q].step = "mutate"
       /\ IF task[q].kind = "purge"
          THEN Mutate(WithPolicy(c, [p EXCEPT !.purge = task[q].at]), q)
          ELSE \E t \in ClockReads(c) :
                  Mutate(WithPolicy(c, [ignored |-> task[q].kind = "ignore",
                                        pin |-> p.pin, purge |-> t]), q)

\* set_ignored_local moves the cutoff up either way; purge_local only that.
ChangeFor(q) ==
    LET c == task[q].chan
        p == OwnerPolicy(c)
    IN /\ task[q].step = "mutate"
       /\ IF task[q].kind = "purge"
          THEN Mutate(WithPolicy(c, [p EXCEPT !.purge = Larger(@, task[q].at)]), q)
          ELSE \E t \in ClockReads(c) :
                  Mutate(WithPolicy(c, [p EXCEPT !.ignored = task[q].kind = "ignore",
                                                 !.purge = Larger(@, t)]), q)

\* set_pin_local: within the limit the pin is set.  Past it only the revision
\* is, and the request fails before anything is pushed.
Pins == {c \in Channel : OwnerPolicy(c).pin}
Allowed(c) == c \in Pins \/ Cardinality(Pins) < MaxPins

Pin(c, pin) ==
    /\ "pin" \in Kinds /\ (pin => Allowed(c))
    /\ Mutate(WithPolicy(c, [OwnerPolicy(c) EXCEPT !.pin = pin]), None)

PinRefused(c) ==
    /\ "pin" \in Kinds /\ ~Allowed(c)
    /\ Commit(state[Owner].content)
    /\ UNCHANGED <<store, up, mem, mut, net, task, lock, crashes, acked>>

\* replace_pins_local
ReplacePins(pins) ==
    /\ "pin" \in Kinds /\ Cardinality(pins) <= MaxPins
    /\ Mutate([state[Owner].content EXCEPT !.policy =
                  [c \in Channel |-> [@[c] EXCEPT !.pin = c \in pins]]], None)

\* save_auth_local and revoke_local
SaveAuth(t) ==
    Mutate([state[Owner].content EXCEPT !.sessions = @ \cup {t}], None)
Revoke(t) == Mutate([state[Owner].content EXCEPT !.sessions = @ \ {t}], None)

Applied(t) == task[t].step = "apply" /\ task[t].todo = {}

\* push, from the sync loop, once the owner has applied its own policies.
OwnerPush ==
    LET now == state[Owner]
    IN /\ Applied(Owner) /\ task[Owner].kind = "sync" /\ ~mut.held
       /\ mut' = [held |-> TRUE, rev |-> now.rev, waiting |-> Mirror,
                  failed |-> FALSE, client |-> FALSE, by |-> None]
       /\ net' = net \cup {Snapshot(r, now.rev, now.content, "push") : r \in Mirror}
       /\ task' = [task EXCEPT ![Owner] = NoTask]
       /\ UNCHANGED <<state, store, up, mem, lock, crashes, history>>

\* A push is refused, or it times out at the owner whatever becomes of it: what
\* is on its way, or accepted already, can still take effect.
\* BOUND: of what no push waits for, one snapshot at a time to each mirror.
Stray(r) == {m \in net : m.to = r /\ m.kind # "push"}
LateNet(rs) ==
    {m \in net : m.kind = "push" => m.to \notin rs} \cup
    {[m EXCEPT !.kind = "late"] :
        m \in {n \in net : n.kind = "push" /\ n.to \in rs /\ Stray(n.to) = {}}}
LateTask(rs) == [t \in Task |-> IF t \in rs /\ task[t].kind = "push"
                                THEN [task[t] EXCEPT !.kind = "late"]
                                ELSE task[t]]

PushFails(r) ==
    /\ r \in mut.waiting
    /\ mut' = [mut EXCEPT !.waiting = @ \ {r}, !.failed = TRUE]
    /\ net' = LateNet({r}) /\ task' = LateTask({r})
    /\ UNCHANGED <<state, store, up, mem, lock, crashes, history>>

\* MUTANTS of PushDone: the failures of a push are ignored; the revision reported
\* is the next one.
PushDoneAnyway ==
    /\ mut.held /\ mut.waiting = {}
    /\ mut' = NoMut
    /\ acked' = IF mut.client THEN mut.rev ELSE acked
    /\ task' = IF mut.by = None THEN task ELSE [task EXCEPT ![mut.by] = NoTask]
    /\ UNCHANGED <<state, store, up, mem, net, lock, crashes, log>>

PushDoneNext ==
    /\ mut.held /\ mut.waiting = {}
    /\ mut' = NoMut
    /\ acked' = IF mut.client /\ ~mut.failed THEN mut.rev + 1 ELSE acked
    /\ task' = IF mut.by = None THEN task ELSE [task EXCEPT ![mut.by] = NoTask]
    /\ UNCHANGED <<state, store, up, mem, net, lock, crashes, log>>

\* push_unlocked ends: a success only if every mirror has acknowledged.  The
\* request goes on: with its own block store where it is the owner's, with the
\* owner's policies (mutation_post) where it came from a mirror.
PushDone ==
    /\ mut.held /\ mut.waiting = {}
    /\ mut' = NoMut
    /\ acked' = IF mut.client /\ ~mut.failed THEN mut.rev ELSE acked
    /\ IF mut.by = None
       THEN UNCHANGED task
       ELSE LET q == mut.by
            IN task' = [task EXCEPT ![q] =
                  IF mut.failed THEN NoTask
                  ELSE IF @.home = Owner THEN [@ EXCEPT !.step = "direct"]
                  ELSE [@ EXCEPT !.step = "list", !.node = Owner]]
    /\ UNCHANGED <<state, store, up, mem, net, lock, crashes, log>>

-----------------------------------------------------------------------------
\* The sync loop of a mirror asks for the owner's state (pull, state_get).
Pull(r) ==
    /\ r \in Loops /\ up[r] = "up" /\ task[r].kind # "pull" /\ Stray(r) = {}
    /\ up[Owner] = "up" /\ state[Owner].ready
    /\ net' = net \cup {Snapshot(r, state[Owner].rev, state[Owner].content, "pull")}
    /\ UNCHANGED <<state, store, up, mem, mut, task, lock, crashes, history>>

Lose(m) ==
    /\ net' = net \ {m}
    /\ UNCHANGED <<state, store, up, mem, mut, task, lock, crashes, history>>

\* MUTANT of Acceptable: any snapshot of the owner replaces the mirror's state.
AcceptableAny(r, m) == m.to = r

\* receive refuses an older revision, and a newer one that takes a purge back.
Acceptable(r, m) ==
    /\ state[r].known => m.rev >= state[r].rev
    /\ ~state[r].known \/ m.rev > state[r].rev =>
         \A c \in Channel :
            m.content.policy[c].purge >= state[r].content.policy[c].purge

Refuse(m) ==
    /\ up[m.to] = "up" /\ ~Acceptable(m.to, m)
    /\ net' = net \ {m}
    /\ UNCHANGED <<state, store, up, mem, mut, task, lock, crashes, history>>

\* MUTANT of Receive: a revision the mirror has already is not applied again.
ReceiveNewer(m) ==
    LET r == m.to
    IN /\ up[r] = "up" /\ task[r].kind = "none" /\ Acceptable(r, m)
       /\ ~state[r].known \/ m.rev > state[r].rev
       /\ state' = [state EXCEPT ![r] = [known |-> TRUE, ready |-> FALSE,
                                         rev |-> m.rev, content |-> m.content]]
       /\ task' = [task EXCEPT ![r] = Synchronize(r, m.kind, m.content.policy)]
       /\ net' = net \ {m}
       /\ UNCHANGED <<store, up, mem, mut, lock, crashes, history>>

\* accept_snapshot, under receive_lock: a newer state replaces the mirror's and
\* it is not ready until synchronize has applied it; the same revision again
\* leaves it as it is, and is applied and acknowledged all the same.
Receive(m) ==
    LET r == m.to
    IN /\ up[r] = "up" /\ task[r].kind = "none" /\ Acceptable(r, m)
       /\ state' = IF state[r].known /\ m.rev = state[r].rev THEN state
                   ELSE [state EXCEPT ![r] = [known |-> TRUE, ready |-> FALSE,
                                              rev |-> m.rev,
                                              content |-> m.content]]
       /\ task' = [task EXCEPT ![r] = Synchronize(r, m.kind, state'[r].content.policy)]
       /\ net' = net \ {m}
       /\ UNCHANGED <<store, up, mem, mut, lock, crashes, history>>

Release(t) == [n \in Node |-> IF lock[n].by = t THEN Free ELSE lock[n]]

\* The handler of a push is dropped, its connection closed or its timeout over,
\* at any of its steps: the locks it holds are released.
DropAccept(r) ==
    /\ task[r].kind \in {"push", "late"}
    /\ task' = [task EXCEPT ![r] = NoTask]
    /\ lock' = Release(r)
    /\ UNCHANGED <<state, store, up, mem, mut, net, crashes, history>>

-----------------------------------------------------------------------------
\* synchronize and apply.  The owner's sync loop begins one.
OwnerSync ==
    /\ Owner \in Loops /\ up[Owner] = "up" /\ task[Owner].kind = "none"
    /\ task' = [task EXCEPT ![Owner] = Synchronize(Owner, "sync", state[Owner].content.policy)]
    /\ UNCHANGED <<state, store, up, mem, mut, net, lock, crashes, history>>

\* mutation_post synchronizes too; the gate and the other handlers look up their
\* own channel (policy).  What they apply is what they read here.
List(t) ==
    /\ task[t].step = "list"
    /\ task' = [task EXCEPT
          ![t].step = "apply",
          ![t].policies = state[task[t].node].content.policy,
          ![t].todo = IF t \in Request /\ task[t].node = task[t].home
                      THEN {task[t].chan} ELSE Channel]
    /\ UNCHANGED <<state, store, up, mem, mut, net, lock, crashes, history>>

\* apply, under the AppliedPolicies mutex: what was applied last comes from
\* memory, or from the database the first time.
Prev(n, c) == IF mem[n][c] = None THEN applied[n][c] ELSE mem[n][c]
Applying(t, c) ==
    /\ task[t].step = "apply" /\ c \in task[t].todo /\ lock[task[t].node] = Free

ApplyNothing(t, c) ==
    LET n == task[t].node
        p == task[t].policies[c]
    IN /\ Applying(t, c)
       /\ p = Prev(n, c) \/ (p = NoPolicy /\ Prev(n, c) = None)
       /\ mem' = [mem EXCEPT ![n][c] = Prev(n, c)]
       /\ task' = [task EXCEPT ![t].todo = @ \ {c}]
       /\ UNCHANGED <<state, store, up, mut, net, lock, crashes, history>>

\* A policy that takes a purge back is refused.  A request or the sync loop
\* fails; a start that fails ends the process.
ApplyRefused(t, c) ==
    LET n == task[t].node
    IN /\ Applying(t, c) /\ task[t].policies[c].purge < PurgeOf(Prev(n, c))
       /\ mem' = [mem EXCEPT ![n][c] = Prev(n, c)]
       /\ task' = [task EXCEPT ![t] = NoTask]
       /\ up' = IF task[t].kind = "boot" THEN [up EXCEPT ![n] = "down"] ELSE up
       /\ UNCHANGED <<state, store, mut, net, lock, crashes, history>>

\* MUTANT of ApplyStart: a channel is blocked when it opts out and never unblocked.
ApplyStartBlocks(t, c) ==
    LET n == task[t].node
        p == task[t].policies[c]
    IN /\ Applying(t, c)
       /\ p # Prev(n, c) /\ ~(p = NoPolicy /\ Prev(n, c) = None)
       /\ p.purge >= PurgeOf(Prev(n, c))
       /\ mem' = [mem EXCEPT ![n][c] = Prev(n, c)]
       /\ blocked' = [blocked EXCEPT ![n] = IF p.ignored THEN @ \cup {c} ELSE @]
       /\ lock' = [lock EXCEPT ![n] = [by |-> t, chan |-> c, step |-> "purge"]]
       /\ UNCHANGED <<state, applied, cutoff, up, mut, net, task, crashes, history>>

\* set_channel_blocked comes first, with the mutex held until the end.
ApplyStart(t, c) ==
    LET n == task[t].node
        p == task[t].policies[c]
    IN /\ Applying(t, c)
       /\ p # Prev(n, c) /\ ~(p = NoPolicy /\ Prev(n, c) = None)
       /\ p.purge >= PurgeOf(Prev(n, c))
       /\ mem' = [mem EXCEPT ![n][c] = Prev(n, c)]
       /\ blocked' = [blocked EXCEPT ![n] = IF p.ignored THEN @ \cup {c} ELSE @ \ {c}]
       /\ lock' = [lock EXCEPT ![n] = [by |-> t, chan |-> c, step |-> "purge"]]
       /\ UNCHANGED <<state, applied, cutoff, up, mut, net, task, crashes, history>>

Held(n) == task[lock[n].by].policies[lock[n].chan]
ApplyAt(n, step) == lock[n].by # None /\ lock[n].step = step

\* MUTANT of ApplyPurge: only an opt-out purges.
ApplyPurgeIgnored(n) ==
    LET c == lock[n].chan
        p == Held(n)
    IN /\ ApplyAt(n, "purge")
       /\ cutoff' = IF p.ignored
                    THEN [cutoff EXCEPT ![n][c] = Larger(@, p.purge)] ELSE cutoff
       /\ lock' = [lock EXCEPT ![n].step = "persist"]
       /\ UNCHANGED <<state, applied, blocked, up, mem, mut, net, task, crashes,
                      history>>

\* purge_channel, when the channel is opted out or the cutoff has moved.
ApplyPurge(n) ==
    LET c == lock[n].chan
        p == Held(n)
    IN /\ ApplyAt(n, "purge")
       /\ cutoff' = IF p.ignored \/ p.purge > PurgeOf(mem[n][c])
                    THEN [cutoff EXCEPT ![n][c] = Larger(@, p.purge)] ELSE cutoff
       /\ lock' = [lock EXCEPT ![n].step = "persist"]
       /\ UNCHANGED <<state, applied, blocked, up, mem, mut, net, task, crashes,
                      history>>

\* apply_cluster_policy, then the entry in memory and the end of apply.
ApplyPersist(n) ==
    LET c == lock[n].chan
    IN /\ ApplyAt(n, "persist")
       /\ applied' = [applied EXCEPT ![n][c] = Held(n)]
       /\ lock' = [lock EXCEPT ![n].step = "insert"]
       /\ UNCHANGED <<state, blocked, cutoff, up, mem, mut, net, task, crashes,
                      history>>

ApplyInsert(n) ==
    LET c == lock[n].chan
    IN /\ ApplyAt(n, "insert")
       /\ mem' = [mem EXCEPT ![n][c] = Held(n)]
       /\ task' = [task EXCEPT ![lock[n].by].todo = @ \ {c}]
       /\ lock' = [lock EXCEPT ![n] = Free]
       /\ UNCHANGED <<state, store, up, mut, net, crashes, history>>

\* mark_ready, and the answer to the owner if it still waits for it.
Accepted(r) ==
    /\ Applied(r) /\ task[r].kind \in {"push", "late", "pull"}
    /\ state' = [state EXCEPT ![r].ready = TRUE]
    /\ mut' = IF task[r].kind = "push"
              THEN [mut EXCEPT !.waiting = @ \ {r}] ELSE mut
    /\ task' = [task EXCEPT ![r] = NoTask]
    /\ UNCHANGED <<store, up, mem, net, lock, crashes, history>>

-----------------------------------------------------------------------------
\* Requests.  A read passes the gate (check, policy, apply) and is served.
Begin(q, n, kind, c) ==
    /\ task[q].kind = "none" /\ up[n] = "up" /\ kind \in Kinds
    /\ \/ /\ kind = "read" /\ state[n].ready
          /\ task' = [task EXCEPT ![q] =
                [Start(n, kind) EXCEPT !.chan = c, !.since = acked]]
       \/ /\ kind = "purge"
          /\ \E t \in ClockReads(c) :
                task' = [task EXCEPT ![q] =
                   [Start(n, kind) EXCEPT !.chan = c, !.step = "mutate", !.at = t]]
       \/ /\ kind \in {"ignore", "unignore"}
          /\ task' = [task EXCEPT ![q] =
                [Start(n, kind) EXCEPT !.chan = c, !.step = "mutate"]]
    /\ UNCHANGED <<state, store, up, mem, mut, net, lock, crashes, history>>

\* set_ignored and purge_messages write the block store themselves, outside the
\* AppliedPolicies mutex, before they read the policy back and apply it.
Direct(q) ==
    LET n == task[q].home
        c == task[q].chan
    IN /\ task[q].step = "direct"
       /\ \/ /\ task[q].kind = "ignore"
             /\ blocked' = [blocked EXCEPT ![n] = @ \cup {c}] /\ UNCHANGED cutoff
          \/ /\ task[q].kind = "unignore"
             /\ blocked' = [blocked EXCEPT ![n] = @ \ {c}] /\ UNCHANGED cutoff
          \/ /\ task[q].kind = "purge"
             /\ cutoff' = [cutoff EXCEPT ![n][c] = Larger(@, task[q].at)]
             /\ UNCHANGED blocked
       /\ task' = [task EXCEPT ![q].step = "list", ![q].node = n]
       /\ UNCHANGED <<state, applied, up, mem, mut, net, lock, crashes, history>>

\* mutation_post ends at the owner and the handler goes on where it came from; a
\* handler ends; a read is refused, or goes on past the gate.
RequestApplied(q) ==
    /\ Applied(q)
    /\ task' = [task EXCEPT ![q] =
          IF @.node # @.home
          THEN [@ EXCEPT !.step = "direct", !.node = task[q].home]
          ELSE IF @.kind = "read" /\ ~@.policies[@.chan].ignored
          THEN [@ EXCEPT !.step = "serve"]
          ELSE NoTask]
    /\ UNCHANGED <<state, store, up, mem, mut, net, lock, crashes, history>>

\* A request is dropped at any step, and one that is served ends.  If it holds the mutation lock, the lock is
\* released and its pushes are given up; when it came from a mirror the owner
\* may also finish it for nobody.
DropRequest(q) ==
    /\ task[q].kind # "none" /\ lock' = Release(q)
    /\ IF mut.by # q
       THEN /\ task' = [task EXCEPT ![q] = NoTask] /\ UNCHANGED <<mut, net>>
       ELSE \/ /\ mut' = NoMut /\ net' = LateNet(Mirror)
               /\ task' = [LateTask(Mirror) EXCEPT ![q] = NoTask]
            \/ /\ task[q].home # Owner
               /\ mut' = [mut EXCEPT !.by = None]
               /\ task' = [task EXCEPT ![q] = NoTask] /\ UNCHANGED net
    /\ UNCHANGED <<state, store, up, mem, crashes, history>>

\* So is a change that no modelled request waits for.
DropChange ==
    /\ mut.held /\ mut.client /\ mut.by = None
    /\ mut' = NoMut /\ net' = LateNet(Mirror) /\ task' = LateTask(Mirror)
    /\ UNCHANGED <<state, store, up, mem, lock, crashes, history>>

-----------------------------------------------------------------------------
\* A process starts: sync_blocked_channels sets the blocked channels from the
\* cluster's state; a node that has one applies it before it serves.
Boot(n) ==
    /\ up[n] = "down"
    /\ blocked' = [blocked EXCEPT ![n] = Ignored(n)]
    /\ IF state[n].known
       THEN /\ up' = [up EXCEPT ![n] = "starting"]
            /\ task' = [task EXCEPT ![n] = Synchronize(n, "boot", state[n].content.policy)]
       ELSE up' = [up EXCEPT ![n] = "up"] /\ UNCHANGED task
    /\ UNCHANGED <<state, applied, cutoff, mem, mut, net, lock, crashes, history>>

Booted(n) ==
    /\ Applied(n) /\ task[n].kind = "boot"
    /\ state' = [state EXCEPT ![n].ready = TRUE]
    /\ up' = [up EXCEPT ![n] = "up"]
    /\ task' = [task EXCEPT ![n] = NoTask]
    /\ UNCHANGED <<store, mem, mut, net, lock, crashes, history>>

\* A crash takes the memory, the tasks and the connections of the node with it.
\* A change a mirror asked for outlives the mirror, not the owner.
Crash(n) ==
    LET gone == {t \in Task : task[t].kind # "none"
                              /\ n \in {t, task[t].home, task[t].node}}
        lost == {m \in net : m.to = n \/ (n = Owner /\ m.kind = "pull")}
    IN /\ up[n] # "down" /\ crashes < MaxCrash
       /\ up' = [up EXCEPT ![n] = "down"]
       /\ mem' = [mem EXCEPT ![n] = [c \in Channel |-> None]]
       /\ lock' = [m \in Node |-> IF m = n \/ lock[m].by \in gone
                                  THEN Free ELSE lock[m]]
       /\ IF n = Owner
          THEN /\ mut' = NoMut /\ net' = LateNet(Mirror) \ lost
               /\ task' = [t \in Task |-> IF t \in gone \/
                                             (t \in Request /\ mut.by = t)
                                          THEN NoTask ELSE LateTask(Mirror)[t]]
          ELSE /\ mut' = IF mut.by \in gone THEN [mut EXCEPT !.by = None] ELSE mut
               /\ net' = net \ lost
               /\ task' = [t \in Task |-> IF t \in gone THEN NoTask ELSE task[t]]
       /\ crashes' = crashes + 1
       /\ UNCHANGED <<state, store, history>>

-----------------------------------------------------------------------------
Change ==
    \/ \E q \in Request : ChangeFor(q)
    \/ \E c \in Channel : PinRefused(c) \/ \E pin \in BOOLEAN : Pin(c, pin)
    \/ \E pins \in SUBSET Channel : ReplacePins(pins)
    \/ \E t \in Token : SaveAuth(t) \/ Revoke(t)
    \/ OwnerPush \/ PushDone \/ DropChange

Replicate(r) == PushFails(r) \/ Pull(r) \/ DropAccept(r) \/ Accepted(r)
Deliver(m) == Lose(m) \/ Refuse(m) \/ Receive(m)

Apply(t) ==
    \/ List(t)
    \/ \E c \in Channel : ApplyNothing(t, c) \/ ApplyRefused(t, c)
                          \/ ApplyStart(t, c)
ApplyStep(n) ==
    ApplyPurge(n) \/ ApplyPersist(n) \/ ApplyInsert(n)

Serve(q) ==
    \/ \E n \in Node, c \in Channel, kind \in Kinds \ {"pin"} : Begin(q, n, kind, c)
    \/ Direct(q) \/ RequestApplied(q) \/ DropRequest(q)

Next ==
    \/ Change \/ OwnerSync
    \/ \E r \in Mirror : Replicate(r)
    \/ \E m \in net : Deliver(m)
    \/ \E t \in Task : Apply(t)
    \/ \E q \in Request : Serve(q)
    \/ \E n \in Node : ApplyStep(n) \/ Boot(n) \/ Booted(n) \/ Crash(n)

Spec == Init /\ [][Next]_vars

\* Processes are restarted; the intervals of the sync loops, the timeouts and
\* the tasks run on; the mutexes are fair; of the replies to a mirror that keeps
\* asking, one gets through in the end.  Pushes may all fail.
Fairness ==
    /\ WF_vars(OwnerSync) /\ WF_vars(PushDone)
    /\ SF_vars(OwnerPush)
    /\ \A t \in Task :
          /\ WF_vars(List(t))
          /\ SF_vars(\E c \in Channel : ApplyNothing(t, c) \/ ApplyStart(t, c)
                                        \/ ApplyRefused(t, c))
    /\ \A n \in Node : WF_vars(ApplyStep(n)) /\ WF_vars(Boot(n) \/ Booted(n))
    /\ \A r \in Mirror :
          /\ WF_vars(PushFails(r)) /\ SF_vars(Pull(r)) /\ WF_vars(Accepted(r))
          /\ WF_vars(\E m \in net : m.to = r /\ Refuse(m))
          /\ SF_vars(\E m \in net : m.to = r /\ m.kind = "pull" /\ Receive(m))
          /\ SF_vars(\E m \in net : m.to = r /\ m.kind = "late" /\ Receive(m))

FairSpec == Spec /\ Fairness

-----------------------------------------------------------------------------
\* Every variable has the type the code gives it.
TypeOK ==
    /\ \A n \in Node :
          /\ state[n].known \in BOOLEAN /\ state[n].ready \in BOOLEAN
          /\ state[n].rev \in 0 .. MaxRev
          /\ DOMAIN state[n].content.policy = Channel
          /\ state[n].content.sessions \subseteq Token
          /\ up[n] \in {"down", "starting", "up"} /\ blocked[n] \subseteq Channel
          /\ lock[n].by \in Task \cup {None}
          /\ \A c \in Channel :
                /\ cutoff[n][c] \in 0 .. MaxTime
                /\ applied[n][c] = None \/ applied[n][c].purge \in 0 .. MaxTime
                /\ mem[n][c] = None \/ mem[n][c].purge \in 0 .. MaxTime
    /\ mut.waiting \subseteq Mirror /\ mut.by \in Request \cup {None}
    /\ \A m \in net : m.to \in Mirror /\ m.rev \in 0 .. MaxRev
    /\ \A t \in Task : /\ task[t].node \in Node /\ task[t].home \in Node
                       /\ task[t].todo \subseteq Channel
    /\ crashes \in 0 .. MaxCrash /\ Len(log) <= MaxRev /\ acked \in 0 .. Len(log)

Entry(k) == IF k = 0 THEN Nothing ELSE log[k]

\* A read that begins after a change was reported a success sees it, wherever it
\* is served: the policy it passed the gate with is not older than the change,
\* and the node's store refuses and has deleted what that policy purges.
ReadsHonorAcks ==
    \A q \in Request :
        task[q].step = "serve" =>
            LET c == task[q].chan
                p == task[q].policies[c]
            IN /\ \E k \in task[q].since .. Len(log) : Entry(k).policy[c] = p
               /\ cutoff[task[q].home][c] >= p.purge

\* A success is the whole cluster's: every mirror has purged what the change
\* purges and, unless its owner has come back since, blocks the channel.
AckedIsEnforced ==
    \A r \in Mirror, c \in Channel :
        /\ cutoff[r][c] >= Entry(acked).policy[c].purge
        /\ (\A k \in acked .. Len(log) : Entry(k).policy[c].ignored)
              /\ up[r] = "up" => c \in blocked[r]

\* What a node has applied is never ahead of the state it would read after a
\* restart, so that its start is never refused (apply would exit the process).
NeverAhead ==
    \A n \in Node, c \in Channel :
        Larger(PurgeOf(mem[n][c]), PurgeOf(applied[n][c]))
            <= state[n].content.policy[c].purge

\* When nothing runs on a node and it counts a channel's policy as applied, its
\* store does block the channel exactly when the policy says so: no half-applied
\* policy and no handler's own write hides behind the early return of apply.
AppliedIsEnforced ==
    \A n \in Node, c \in Channel :
        /\ up[n] = "up" /\ lock[n] = Free
        /\ \A t \in Task : task[t].kind = "none" \/ n \notin {task[t].home, task[t].node}
        /\ Prev(n, c) = state[n].content.policy[c]
        => (c \in blocked[n] <=> state[n].content.policy[c].ignored)

\* The settings page says of a channel that has opted out that no messages will
\* be recorded: once nothing runs, every node that knows of it blocks it.
OptOutRecordsNothing ==
    \A n \in Node, c \in Channel :
        /\ up[n] = "up" /\ (\A t \in Task : task[t].kind = "none")
        /\ applied[n][c] # None /\ applied[n][c] = state[n].content.policy[c]
        /\ state[n].content.policy[c].ignored
        => c \in blocked[n]

\* To each mirror the control plane is a log it follows: a state is one the
\* owner committed, it is never replaced by an older one, and a change reported
\* as a success has reached every mirror.
Promise == INSTANCE PolicyLog WITH
    First <- Nothing,
    at <- [r \in Mirror |-> state[r].rev],
    view <- [r \in Mirror |-> state[r].content]
ImplementsLog == Promise!Spec

\* Once changes and crashes end, every node comes to the owner's last revision
\* and to block exactly the channels it opts out, even if every push fails.
PoliciesTakeEffect ==
    <>[](\A n \in Node : /\ up[n] = "up" /\ state[n].rev = state[Owner].rev
                         /\ blocked[n] = Ignored(Owner))
=============================================================================
