------------------------ MODULE ControlPlane_proofs ------------------------
(***************************************************************************)
(* The replicated control plane, for every number of mirrors, channels,    *)
(* tokens, requests, revisions and crashes.                                *)
(*                                                                         *)
(* The parts of the inductive invariant, each proved with the ones before  *)
(* it: types and what a task may be doing (Types, Locked); the log the     *)
(* states are entries of (Following, PurgesGrow); what was listed and      *)
(* recorded are entries a node has passed (Reads); nothing is recorded as  *)
(* applied before its purge is done (Effects); what the owner waits for    *)
(* (Pushing); what a success means (Acks).  For the blocked flags, where   *)
(* clocks are not behind and clients ask one thing at a time, Functional,  *)
(* Asks and Flags are added.                                               *)
(*                                                                         *)
(* A step is described once for all parts by what it does to a state and   *)
(* the log (Moves), to a task (TaskMoves), to a node's store (NodeMoves),  *)
(* and to the change under way (MutChanges, ChangeMoves).                  *)
(***************************************************************************)
EXTENDS ControlPlane, SequenceTheorems, TLAPS

Policies == [ignored : BOOLEAN, pin : BOOLEAN, purge : 0 .. MaxTime]
Contents == [policy : [Channel -> Policies], sessions : SUBSET Token]
States == [known : BOOLEAN, ready : BOOLEAN, rev : 0 .. MaxRev, content : Contents]
Changes == [held : BOOLEAN, rev : 0 .. MaxRev, waiting : SUBSET Mirror,
            failed : BOOLEAN, client : BOOLEAN, by : Request \cup {None}]
Snapshots == [to : Mirror, rev : 0 .. MaxRev, content : Contents,
              kind : {"push", "late", "pull"}]
Locks == {Free} \cup
         [by : Task, chan : Channel, step : {"purge", "persist", "insert"}]

\* A node's task applies what it accepted or listed; a request changes the
\* state, writes the store itself, lists, applies, and a read is served.
NodeKinds == {"sync", "boot", "push", "late", "pull"}
RequestKinds == {"read", "ignore", "unignore", "purge"}
Tasks == [kind : {"none"} \cup NodeKinds \cup RequestKinds,
          step : {"idle", "list", "apply", "mutate", "direct", "serve"},
          home : Node, node : Node, chan : Channel \cup {None},
          todo : SUBSET Channel, policies : [Channel -> Policies],
          at : 0 .. MaxTime, since : Nat]
NodeTask(n, w) ==
    /\ w.kind \in IF n = Owner THEN {"sync", "boot"} ELSE {"boot", "push", "late", "pull"}
    /\ w.step = "apply" /\ w.home = n /\ w.node = n
RequestTask(w) ==
    /\ w.kind \in RequestKinds /\ w.step # "idle" /\ w.chan \in Channel
    /\ w.kind = "read" \/ w.step = "mutate" => w.node = w.home
    /\ w.kind = "read" => w.step \in {"list", "apply", "serve"}
    /\ w.step = "serve" => w.kind = "read"
TaskOf(t, w) ==
    /\ w \in Tasks
    /\ w = NoTask \/ (t \in Node /\ NodeTask(t, w)) \/ (t \in Request /\ RequestTask(w))
TaskTypes ==
    /\ task \in [Task -> Tasks]
    /\ \A t \in Task : TaskOf(t, task[t])

Types ==
    /\ state \in [Node -> States]
    /\ applied \in [Node -> [Channel -> Policies \cup {None}]]
    /\ blocked \in [Node -> SUBSET Channel]
    /\ cutoff \in [Node -> [Channel -> 0 .. MaxTime]]
    /\ up \in [Node -> {"down", "starting", "up"}]
    /\ mem \in [Node -> [Channel -> Policies \cup {None}]]
    /\ mut \in Changes /\ (mut.by # None => task[mut.by].step = "mutate")
    /\ net \subseteq Snapshots
    /\ TaskTypes
    /\ lock \in [Node -> Locks]
    /\ crashes \in 0 .. MaxCrash
    /\ log \in Seq(Contents) /\ acked \in Nat

\* The holder of a node's AppliedPolicies mutex is applying that channel there, and
\* a node that is down does nothing.
Locked ==
    /\ \A n \in Node :
          lock[n] # Free => LET w == task[lock[n].by]
                            IN w.step = "apply" /\ w.node = n /\ lock[n].chan \in w.todo
    /\ \A n \in Node : up[n] = "down" => task[n] = NoTask

-----------------------------------------------------------------------------
\* The initial values, and what the operators of the model return, have their types.
LEMMA Constants ==
    /\ NoPolicy \in Policies /\ NoPolicies \in [Channel -> Policies]
    /\ Nothing \in Contents /\ NoMut \in Changes /\ NoTask \in Tasks /\ Free \in Locks
    /\ None \notin Policies /\ None \notin Task
  <1> USE NodeAssumption, BoundAssumption
  <1>1. NoPolicy \in Policies
    BY DEF NoPolicy, Policies
  <1>2. NoPolicies \in [Channel -> Policies]
    BY <1>1 DEF NoPolicies
  <1>3. Nothing \in Contents
    BY <1>2 DEF Nothing, Contents
  <1>4. NoMut \in Changes
    BY DEF NoMut, Changes
  <1>5. NoTask \in Tasks
    BY <1>2 DEF NoTask, Tasks, Node
  <1>6. Free \in Locks
    BY DEF Free, Locks
  <1>7. Policies \subseteq [ignored : BOOLEAN, pin : BOOLEAN, purge : Nat]
    BY DEF Policies
  <1>8. None \notin Policies /\ None \notin Task
    BY <1>7 DEF Task, Node
  <1> QED
    BY <1>1, <1>2, <1>3, <1>4, <1>5, <1>6, <1>8

LEMMA InitTypes == Init => Types
  <1> SUFFICES ASSUME Init PROVE Types
    OBVIOUS
  <1> USE NodeAssumption, BoundAssumption, Constants
  <1>1. state \in [Node -> States]
    BY DEF Init, States
  <1>2. /\ applied \in [Node -> [Channel -> Policies \cup {None}]]
        /\ mem \in [Node -> [Channel -> Policies \cup {None}]]
        /\ blocked \in [Node -> SUBSET Channel]
        /\ cutoff \in [Node -> [Channel -> 0 .. MaxTime]]
        /\ up \in [Node -> {"down", "starting", "up"}]
    BY DEF Init
  <1>3. task \in [Task -> Tasks] /\ \A t \in Task : task[t] = NoTask
    BY DEF Init
  <1>4. /\ mut \in Changes /\ net \subseteq Snapshots /\ lock \in [Node -> Locks]
        /\ crashes \in 0 .. MaxCrash /\ log \in Seq(Contents) /\ acked \in Nat
        /\ mut.by = None
    BY DEF Init, NoMut
  <1> QED
    BY <1>1, <1>2, <1>3, <1>4 DEF Types, TaskTypes, TaskOf, Task

-----------------------------------------------------------------------------
\* What a change of the owner's state commits is a state, and takes no purge back.
Grows(new) ==
    \A c \in Channel : new.policy[c].purge >= state[Owner].content.policy[c].purge

LEMMA PolicyTypes ==
    ASSUME Types, NEW c \in Channel, NEW p \in Policies,
           p.purge >= OwnerPolicy(c).purge
    PROVE  WithPolicy(c, p) \in Contents /\ Grows(WithPolicy(c, p))
  <1> DEFINE old == state[Owner].content
  <1>1. old \in Contents
    BY DEF Types, States, Node
  <1>2. /\ WithPolicy(c, p) = [policy |-> [old.policy EXCEPT ![c] = p], sessions |-> old.sessions]
        /\ \A d \in Channel : old.policy[d].purge \in Nat
    BY <1>1, BoundAssumption DEF Contents, WithPolicy, Policies
  <1>3. WithPolicy(c, p) \in Contents
    BY <1>1, <1>2 DEF Contents
  <1>4. \A d \in Channel : WithPolicy(c, p).policy[d] = IF d = c THEN p ELSE old.policy[d]
    BY <1>1, <1>2 DEF Contents
  <1>5. ASSUME NEW d \in Channel
        PROVE  WithPolicy(c, p).policy[d].purge >= old.policy[d].purge
    <2>1. CASE d = c
      BY <1>4, <2>1 DEF OwnerPolicy
    <2>2. CASE d # c
      BY <1>2, <1>4, <2>2
    <2> QED
      BY <2>1, <2>2
  <1> QED
    BY <1>3, <1>5 DEF Grows

\* What a request of a client commits: the new policy of its channel.
LEMMA RequestedPolicy ==
    ASSUME Types, NEW q \in Request, ChangeFor(q)
    PROVE  \E p \in Policies :
              /\ Mutate(WithPolicy(task[q].chan, p), q)
              /\ RequestTask(task[q]) /\ task[q].step = "mutate"
              /\ p.purge >= OwnerPolicy(task[q].chan).purge
              /\ task[q].kind \in {"ignore", "unignore"} => p.ignored = (task[q].kind = "ignore")
              /\ p.ignored # OwnerPolicy(task[q].chan).ignored /\ ~Skew =>
                    p.purge > OwnerPolicy(task[q].chan).purge
  <1> DEFINE c == task[q].chan
             old == OwnerPolicy(c)
  <1>1. task[q].step = "mutate"
    BY Zenon DEF ChangeFor
  <1>2. RequestTask(task[q]) /\ task[q].step = "mutate" /\ task[q] \in Tasks
    <2>1. TaskOf(q, task[q]) /\ q \notin Node
      BY NodeAssumption DEF Types, TaskTypes, Task, Node
    <2> QED
      BY <1>1, <2>1 DEF TaskOf, NoTask
  <1>3. old \in Policies
    BY <1>2 DEF Types, States, Node, Contents, OwnerPolicy, RequestTask
  <1>4. ASSUME NEW t \in 0 .. MaxTime
        PROVE  Larger(old.purge, t) \in 0 .. MaxTime /\ Larger(old.purge, t) >= old.purge
                /\ Larger(old.purge, t) >= t
    BY <1>3, BoundAssumption DEF Policies, Larger
  <1>5. CASE task[q].kind = "purge"
    <2> DEFINE p == [old EXCEPT !.purge = Larger(@, task[q].at)]
    <2>1. Mutate(WithPolicy(c, p), q)
      BY <1>5, Zenon DEF ChangeFor
    <2>2. p \in Policies /\ p.ignored = old.ignored /\ p.purge >= old.purge
      BY <1>2, <1>3, <1>4 DEF Policies, Tasks
    <2> QED
      BY <1>2, <1>5, <2>1, <2>2
  <1>6. CASE task[q].kind # "purge"
    <2>1. PICK t \in ClockReads(c) :
              Mutate(WithPolicy(c, [old EXCEPT !.ignored = task[q].kind = "ignore",
                                               !.purge = Larger(@, t)]), q)
      BY <1>6, Zenon DEF ChangeFor
    <2> DEFINE p == [old EXCEPT !.ignored = task[q].kind = "ignore", !.purge = Larger(@, t)]
    <2>2. t \in 0 .. MaxTime /\ (~Skew => t = old.purge + 1)
      BY BoundAssumption DEF ClockReads
    <2>3. /\ p \in Policies /\ p.ignored = (task[q].kind = "ignore")
          /\ p.purge = Larger(old.purge, t)
      BY <1>3, <1>4, <2>2 DEF Policies
    <2>4. p.purge >= old.purge /\ (~Skew => p.purge > old.purge)
      BY <1>3, <1>4, <2>2, <2>3 DEF Policies
    <2> HIDE DEF p
    <2> QED
      BY <1>2, <2>1, <2>3, <2>4 DEF p
  <1> QED
    BY <1>5, <1>6

\* PinRefused, Pin, ReplacePins, SaveAuth and Revoke commit these.
LEMMA OtherChanges ==
    ASSUME Types, NEW new,
           \/ new = state[Owner].content
           \/ \E c \in Channel, pin \in BOOLEAN :
                 new = WithPolicy(c, [OwnerPolicy(c) EXCEPT !.pin = pin])
           \/ \E pins \in SUBSET Channel :
                 new = [state[Owner].content EXCEPT !.policy =
                           [c \in Channel |-> [@[c] EXCEPT !.pin = c \in pins]]]
           \/ \E t \in Token : \/ new = [state[Owner].content EXCEPT !.sessions = @ \cup {t}]
                               \/ new = [state[Owner].content EXCEPT !.sessions = @ \ {t}]
    PROVE  /\ new \in Contents /\ Grows(new)
           /\ \A c \in Channel : /\ new.policy[c].ignored = OwnerPolicy(c).ignored
                                 /\ new.policy[c].purge = OwnerPolicy(c).purge
  <1> DEFINE old == state[Owner].content
  <1>1. old \in Contents
    BY DEF Types, States, Node
  <1>2. \A c \in Channel : old.policy[c] \in Policies /\ old.policy[c].purge \in Nat
    BY <1>1, BoundAssumption DEF Contents, Policies
  <1>3. CASE new = old
    BY <1>1, <1>2, <1>3 DEF Grows, OwnerPolicy
  <1>4. ASSUME NEW c \in Channel, NEW pin \in BOOLEAN,
               new = WithPolicy(c, [OwnerPolicy(c) EXCEPT !.pin = pin])
        PROVE  /\ new \in Contents /\ Grows(new)
               /\ \A d \in Channel : /\ new.policy[d].ignored = OwnerPolicy(d).ignored
                                     /\ new.policy[d].purge = OwnerPolicy(d).purge
    <2> DEFINE p == [old.policy[c] EXCEPT !.pin = pin]
    <2>1. /\ p \in Policies /\ p.ignored = old.policy[c].ignored
          /\ p.purge = old.policy[c].purge /\ p.purge \in Nat
      BY <1>2 DEF Policies
    <2>2. new = WithPolicy(c, p)
      BY <1>4 DEF OwnerPolicy
    <2> HIDE DEF p
    <2>3. new \in Contents /\ Grows(new)
      BY <1>2, <2>1, <2>2, PolicyTypes DEF OwnerPolicy
    <2>4. new.policy = [old.policy EXCEPT ![c] = p]
      BY <1>1, <2>2 DEF WithPolicy, Contents
    <2>5. \A d \in Channel : new.policy[d] = IF d = c THEN p ELSE old.policy[d]
      BY <1>1, <2>4 DEF Contents
    <2> QED
      BY <2>1, <2>3, <2>5 DEF OwnerPolicy
  <1>5. ASSUME NEW pins \in SUBSET Channel,
               new = [state[Owner].content EXCEPT !.policy =
                           [c \in Channel |-> [@[c] EXCEPT !.pin = c \in pins]]]
        PROVE  /\ new \in Contents /\ Grows(new)
               /\ \A d \in Channel : /\ new.policy[d].ignored = OwnerPolicy(d).ignored
                                     /\ new.policy[d].purge = OwnerPolicy(d).purge
    <2>1. /\ new.sessions = old.sessions
          /\ new.policy = [c \in Channel |-> [old.policy[c] EXCEPT !.pin = c \in pins]]
          /\ new = [policy |-> new.policy, sessions |-> new.sessions]
      BY <1>1, <1>5 DEF Contents
    <2>2. ASSUME NEW c \in Channel
          PROVE  /\ new.policy[c] \in Policies
                 /\ new.policy[c].ignored = old.policy[c].ignored
                 /\ new.policy[c].purge = old.policy[c].purge
      <3>1. new.policy[c] = [old.policy[c] EXCEPT !.pin = c \in pins]
        BY <2>1
      <3>2. PICK b \in BOOLEAN : new.policy[c] = [old.policy[c] EXCEPT !.pin = b]
        <4>1. (c \in pins) = TRUE \/ (c \in pins) = FALSE
          OBVIOUS
        <4> QED
          BY <3>1, <4>1
      <3> QED
        BY <1>2, <3>2 DEF Policies
    <2>3. new.policy \in [Channel -> Policies] /\ new.sessions \in SUBSET Token
      BY <1>1, <2>1, <2>2 DEF Contents
    <2>4. new \in Contents
      BY <2>1, <2>3 DEF Contents
    <2> QED
      BY <1>2, <2>2, <2>4 DEF Grows, OwnerPolicy
  <1>6. ASSUME NEW t \in Token,
               \/ new = [state[Owner].content EXCEPT !.sessions = @ \cup {t}]
               \/ new = [state[Owner].content EXCEPT !.sessions = @ \ {t}]
        PROVE  /\ new \in Contents /\ Grows(new)
               /\ \A d \in Channel : /\ new.policy[d].ignored = OwnerPolicy(d).ignored
                                     /\ new.policy[d].purge = OwnerPolicy(d).purge
    <2>1. new \in Contents /\ new.policy = old.policy
      BY <1>1, <1>6 DEF Contents
    <2> QED
      BY <1>2, <2>1 DEF Grows, OwnerPolicy
  <1> QED
    BY <1>3, <1>4, <1>5, <1>6

LEMMA CommitTypes ==
    ASSUME Types, NEW new \in Contents, Commit(new)
    PROVE  state' \in [Node -> States] /\ log' \in Seq(Contents)
  <1>1. state[Owner] \in States /\ state[Owner].rev + 1 \in 0 .. MaxRev
    BY BoundAssumption DEF Types, Commit, States, Node
  <1> DEFINE next == [state[Owner] EXCEPT !.rev = @ + 1, !.content = new]
  <1>2. next \in States
    BY <1>1 DEF States
  <1>3. state \in [Node -> States] /\ Owner \in Node
    BY DEF Types, Node
  <1>4. state' = [state EXCEPT ![Owner] = next]
    BY <1>1, <1>3 DEF Commit, States
  <1>5. state' \in [Node -> States]
    BY <1>2, <1>3, <1>4
  <1> QED
    BY <1>5, AppendProperties DEF Types, Commit

LEMMA MutateTypes ==
    ASSUME Types, NEW new \in Contents, NEW by \in Request \cup {None}, Mutate(new, by),
           by # None => task[by].step = "mutate"
    PROVE  Types'
  <1>1. state' \in [Node -> States] /\ log' \in Seq(Contents)
    BY CommitTypes DEF Mutate
  <1>2. state[Owner].rev + 1 \in 0 .. MaxRev
    BY BoundAssumption DEF Types, Mutate, Commit, States, Node
  <1>3. mut' \in Changes /\ net' \subseteq Snapshots /\ mut'.by = by
    BY <1>2 DEF Types, Mutate, Changes, Snapshots, Snapshot
  <1> QED
    BY <1>1, <1>3 DEF Types, Mutate, store, TaskTypes

\* The tasks that a step leaves alone, ends or gives another kind of receipt.
LEMMA LateTypes ==
    ASSUME Types, NEW rs \in SUBSET Mirror
    PROVE  /\ LateNet(rs) \subseteq Snapshots
           /\ LateTask(rs) \in [Task -> Tasks]
           /\ \A t \in Task : LateTask(rs)[t] = task[t] \/
                 (t \in Mirror /\ task[t].kind = "push" /\ LateTask(rs)[t] = [task[t] EXCEPT !.kind = "late"])
  <1>1. LateNet(rs) \subseteq Snapshots
    BY DEF Types, LateNet, Snapshots
  <1>2. ASSUME NEW t \in Task
        PROVE  /\ LateTask(rs)[t] = task[t] \/
                    (t \in Mirror /\ task[t].kind = "push" /\ LateTask(rs)[t] = [task[t] EXCEPT !.kind = "late"])
               /\ LateTask(rs)[t] \in Tasks
    <2>1. task[t] \in Tasks
      BY DEF Types, TaskTypes
    <2>2. [task[t] EXCEPT !.kind = "late"] \in Tasks
      BY <2>1 DEF Tasks, NodeKinds
    <2> QED
      BY <2>1, <2>2 DEF LateTask
  <1> QED
    BY <1>1, <1>2 DEF LateTask

\* A step that changes one task.
LEMMA OneTask ==
    ASSUME Types, NEW t \in Task, NEW w, TaskOf(t, w), task' = [task EXCEPT ![t] = w]
    PROVE  TaskTypes' /\ \A u \in Task : task'[u] = IF u = t THEN w ELSE task[u]
  <1>1. \A u \in Task : task'[u] = IF u = t THEN w ELSE task[u]
    BY DEF Types, TaskTypes
  <1>2. task' \in [Task -> Tasks] /\ \A u \in Task : TaskOf(u, task'[u])
    BY <1>1 DEF Types, TaskTypes, TaskOf
  <1> QED
    BY <1>1, <1>2 DEF TaskTypes

\* The task that changes is not the one that holds the mutation lock.
LEMMA TaskStep ==
    ASSUME Types, NEW t \in Task, NEW w, TaskOf(t, w), task' = [task EXCEPT ![t] = w],
           mut'.by = mut.by, task[t].step # "mutate"
    PROVE  TaskTypes' /\ (mut'.by # None => task'[mut'.by].step = "mutate")
  <1>1. TaskTypes' /\ \A u \in Task : task'[u] = IF u = t THEN w ELSE task[u]
    BY OneTask
  <1>2. mut.by # None => mut.by \in Task /\ mut.by # t
    BY DEF Types, Changes, Task
  <1> QED
    BY <1>1, <1>2 DEF Types

\* A request goes on while a node's task changes.
LEMMA NodeStep ==
    ASSUME Types, NEW n \in Node, NEW w, TaskOf(n, w), task' = [task EXCEPT ![n] = w],
           mut'.by = mut.by
    PROVE  /\ TaskTypes' /\ \A q \in Request : task'[q] = task[q]
           /\ mut'.by # None => task'[mut'.by].step = "mutate"
  <1>1. n \in Task /\ n \notin Request
    BY NodeAssumption DEF Task, Node
  <1>2. TaskTypes' /\ \A u \in Task : task'[u] = IF u = n THEN w ELSE task[u]
    BY <1>1, OneTask
  <1>3. \A q \in Request : task'[q] = task[q]
    BY <1>1, <1>2 DEF Task
  <1> QED
    BY <1>2, <1>3 DEF Types, Changes

LEMMA IdleTask ==
    ASSUME Types, NEW t \in Task, task[t].kind = "none"
    PROVE  task[t] = NoTask /\ task[t].step = "idle"
  <1>1. TaskOf(t, task[t])
    BY DEF Types, TaskTypes
  <1> QED
    BY <1>1 DEF TaskOf, NodeTask, RequestTask, RequestKinds, NoTask

LEMMA IdleStep ==
    ASSUME Types, NEW t \in Task, task[t].step = "idle"
    PROVE  task[t] = NoTask
  <1>1. TaskOf(t, task[t])
    BY DEF Types, TaskTypes
  <1> QED
    BY <1>1 DEF TaskOf, NodeTask, RequestTask

LEMMA NoTaskType ==
    ASSUME NEW t \in Task
    PROVE  TaskOf(t, NoTask)
  BY Constants DEF TaskOf

\* A task that goes on with less to do.
LEMMA LessToDo ==
    ASSUME Types, NEW t \in Task, task[t].step = "apply", NEW rest \in SUBSET Channel
    PROVE  TaskOf(t, [task[t] EXCEPT !.todo = rest])
  <1>1. task[t] \in Tasks /\ TaskOf(t, task[t])
    BY DEF Types, TaskTypes
  <1> DEFINE w == [task[t] EXCEPT !.todo = rest]
  <1>2. /\ w \in Tasks /\ w.kind = task[t].kind /\ w.step = task[t].step
        /\ w.home = task[t].home /\ w.node = task[t].node /\ w.chan = task[t].chan
    BY <1>1 DEF Tasks
  <1> HIDE DEF w
  <1>3. task[t] # NoTask
    BY DEF NoTask
  <1>4. (t \in Node /\ NodeTask(t, w)) \/ (t \in Request /\ RequestTask(w))
    BY <1>1, <1>2, <1>3 DEF TaskOf, NodeTask, RequestTask
  <1>5. TaskOf(t, w)
    BY <1>2, <1>4 DEF TaskOf
  <1> QED
    BY <1>5 DEF w

LEMMA SynchronizeTypes ==
    ASSUME NEW n \in Node, NEW policies \in [Channel -> Policies],
           NEW kind \in IF n = Owner THEN {"sync", "boot"} ELSE {"boot", "push", "late", "pull"}
    PROVE  /\ n \in Task /\ TaskOf(n, Synchronize(n, kind, policies))
           /\ Synchronize(n, kind, policies).kind = kind
           /\ Synchronize(n, kind, policies).home = n
           /\ Synchronize(n, kind, policies).node = n
           /\ Synchronize(n, kind, policies).step = "apply"
           /\ Synchronize(n, kind, policies).policies = policies
           /\ Synchronize(n, kind, policies).todo = Channel
  <1>1. kind \in NodeKinds
    BY DEF NodeKinds
  <1>2. /\ Start(n, kind) \in Tasks
        /\ Start(n, kind).kind = kind /\ Start(n, kind).home = n /\ Start(n, kind).node = n
    BY <1>1, Constants DEF Start, Tasks
  <1>3. /\ Synchronize(n, kind, policies) \in Tasks
        /\ Synchronize(n, kind, policies).kind = kind
        /\ Synchronize(n, kind, policies).home = n
        /\ Synchronize(n, kind, policies).node = n
        /\ Synchronize(n, kind, policies).step = "apply"
        /\ Synchronize(n, kind, policies).policies = policies
        /\ Synchronize(n, kind, policies).todo = Channel
    BY <1>2 DEF Synchronize, Tasks
  <1> QED
    BY <1>3 DEF TaskOf, NodeTask, Task

LEMMA LateTaskKeeps ==
    ASSUME Types, NEW rs \in SUBSET Mirror, NEW t \in Task
    PROVE  /\ LateTask(rs)[t].step = task[t].step /\ LateTask(rs)[t].node = task[t].node
           /\ LateTask(rs)[t].todo = task[t].todo /\ LateTask(rs)[t].home = task[t].home
           /\ LateTask(rs)[t].policies = task[t].policies
           /\ LateTask(rs)[t].kind = task[t].kind \/ (task[t].kind = "push" /\ LateTask(rs)[t].kind = "late")
           /\ t \notin Mirror \/ task[t] = NoTask => LateTask(rs)[t] = task[t]
  <1>1. task[t] \in Tasks
    BY DEF Types, TaskTypes
  <1>2. CASE LateTask(rs)[t] = task[t]
    BY <1>2
  <1>3. CASE /\ t \in Mirror /\ task[t].kind = "push"
             /\ LateTask(rs)[t] = [task[t] EXCEPT !.kind = "late"]
    BY <1>1, <1>3 DEF Tasks, NoTask
  <1> QED
    BY <1>2, <1>3, LateTypes

LEMMA LateTaskTypes ==
    ASSUME Types, NEW rs \in SUBSET Mirror, NEW t \in Task
    PROVE  TaskOf(t, LateTask(rs)[t])
  <1>1. TaskOf(t, task[t]) /\ LateTask(rs)[t] \in Tasks
    BY LateTypes DEF Types, TaskTypes
  <1>2. CASE LateTask(rs)[t] = task[t]
    BY <1>1, <1>2
  <1>3. CASE /\ t \in Mirror /\ task[t].kind = "push"
             /\ LateTask(rs)[t] = [task[t] EXCEPT !.kind = "late"]
    <2>1. t # Owner /\ t \in Node /\ t \notin Request
      BY <1>3, NodeAssumption DEF Node
    <2>2. NodeTask(t, task[t])
      BY <1>1, <1>3, <2>1 DEF TaskOf, NoTask
    <2>3. NodeTask(t, LateTask(rs)[t])
      BY <1>1, <1>3, <2>1, <2>2 DEF NodeTask, TaskOf, Tasks
    <2> QED
      BY <1>1, <2>1, <2>3 DEF TaskOf
  <1> QED
    BY <1>2, <1>3, LateTypes

\* The node and the channel a policy is applied to.
LEMMA ApplyTypes ==
    ASSUME Types, NEW t \in Task, NEW c \in Channel
    PROVE  /\ task[t] \in Tasks /\ task[t].node \in Node
           /\ task[t].policies[c] \in Policies /\ task[t].policies[c].purge \in 0 .. MaxTime
           /\ Prev(task[t].node, c) \in Policies \cup {None}
           /\ task[t].step = "apply" => task[t] # NoTask
  <1>1. task[t] \in Tasks
    BY DEF Types, TaskTypes
  <1>2. \A n \in Node : Prev(n, c) \in Policies \cup {None}
    BY DEF Types, Prev
  <1> QED
    BY <1>1, <1>2 DEF Tasks, Policies, NoTask

\* The holder of a mutex, and the policy it applies.
LEMMA HolderTypes ==
    ASSUME Types, Locked, NEW n \in Node, lock[n].by # None
    PROVE  /\ lock[n] # Free /\ lock[n].by \in Task /\ lock[n].chan \in Channel
           /\ lock[n].step \in {"purge", "persist", "insert"}
           /\ task[lock[n].by] \in Tasks /\ task[lock[n].by].step = "apply"
           /\ task[lock[n].by].node = n /\ lock[n].chan \in task[lock[n].by].todo
           /\ Held(n) \in Policies /\ Held(n).purge \in 0 .. MaxTime
           /\ lock[n] = [by |-> lock[n].by, chan |-> lock[n].chan, step |-> lock[n].step]
  <1>1. lock[n] # Free /\ lock[n] \in Locks
    BY DEF Types, Free
  <1>2. /\ lock[n].by \in Task /\ lock[n].chan \in Channel
        /\ lock[n].step \in {"purge", "persist", "insert"}
        /\ lock[n] = [by |-> lock[n].by, chan |-> lock[n].chan, step |-> lock[n].step]
    BY <1>1 DEF Locks
  <1>3. task[lock[n].by] \in Tasks
    BY <1>2 DEF Types, TaskTypes
  <1>4. Held(n) \in Policies
    BY <1>2, <1>3 DEF Held, Tasks
  <1> QED
    BY <1>1, <1>2, <1>3, <1>4 DEF Locked, Policies

-----------------------------------------------------------------------------
LEMMA TypesStep == Types /\ Locked /\ [Next]_vars => Types'
  <1> SUFFICES ASSUME Types, Locked, [Next]_vars PROVE Types'
    OBVIOUS
  <1> USE NodeAssumption, BoundAssumption
  <1>1. ASSUME NEW q \in Request, ChangeFor(q) PROVE Types'
    <2>1. PICK p \in Policies :
              /\ Mutate(WithPolicy(task[q].chan, p), q)
              /\ RequestTask(task[q]) /\ task[q].step = "mutate"
              /\ p.purge >= OwnerPolicy(task[q].chan).purge
      BY <1>1, RequestedPolicy
    <2> QED
      BY <2>1, PolicyTypes, MutateTypes DEF RequestTask
  <1>2. ASSUME NEW c \in Channel, PinRefused(c) PROVE Types'
    <2>1. state[Owner].content \in Contents
      BY OtherChanges
    <2>2. state' \in [Node -> States] /\ log' \in Seq(Contents)
      BY <1>2, <2>1, CommitTypes DEF PinRefused
    <2> QED
      BY <1>2, <2>2 DEF Types, PinRefused, TaskTypes, TaskOf, store
  <1>3. ASSUME NEW c \in Channel, NEW pin \in BOOLEAN, Pin(c, pin) PROVE Types'
    <2> DEFINE new == WithPolicy(c, [OwnerPolicy(c) EXCEPT !.pin = pin])
    <2>1. new \in Contents
      BY OtherChanges
    <2> QED
      BY <1>3, <2>1, MutateTypes DEF Pin
  <1>4. ASSUME NEW pins \in SUBSET Channel, ReplacePins(pins) PROVE Types'
    <2> DEFINE new == [state[Owner].content EXCEPT !.policy =
                          [c \in Channel |-> [@[c] EXCEPT !.pin = c \in pins]]]
    <2>1. new \in Contents
      BY OtherChanges
    <2> QED
      BY <1>4, <2>1, MutateTypes DEF ReplacePins
  <1>5. ASSUME NEW t \in Token, SaveAuth(t) \/ Revoke(t) PROVE Types'
    <2>1. /\ [state[Owner].content EXCEPT !.sessions = @ \cup {t}] \in Contents
          /\ [state[Owner].content EXCEPT !.sessions = @ \ {t}] \in Contents
      BY OtherChanges
    <2> QED
      BY <1>5, <2>1, MutateTypes DEF SaveAuth, Revoke
  <1>6. CASE OwnerPush
    <2>1. TaskTypes'
      BY <1>6, OneTask, NoTaskType DEF OwnerPush, Task, Node
    <2>2. state[Owner] \in States
      BY DEF Types, Node
    <2>3. mut' \in Changes /\ net' \subseteq Snapshots
      BY <1>6, <2>2 DEF Types, OwnerPush, Changes, Snapshots, Snapshot, States
    <2> QED
      BY <1>6, <2>1, <2>3 DEF Types, OwnerPush, store, history
  <1>7. ASSUME NEW r \in Mirror, PushFails(r) PROVE Types'
    <2>1. TaskTypes' /\ \A q \in Request : task'[q] = task[q]
      BY <1>7, LateTypes, LateTaskTypes DEF PushFails, TaskTypes, Task, Node
    <2>2. mut' \in Changes /\ mut'.by = mut.by
      BY <1>7 DEF Types, PushFails, Changes
    <2>3. net' \subseteq Snapshots
      BY <1>7, LateTypes DEF PushFails
    <2>4. mut'.by # None => task'[mut'.by].step = "mutate"
      BY <2>1, <2>2 DEF Types, Changes
    <2> QED
      BY <1>7, <2>1, <2>2, <2>3, <2>4 DEF Types, PushFails, store, history
  <1>8. CASE PushDone
    <2>1. acked' \in Nat /\ mut' \in Changes /\ mut'.by = None
      BY <1>8, Constants DEF Types, PushDone, Changes, NoMut
    <2>2. TaskTypes'
      <3>1. CASE mut.by = None
        BY <1>8, <3>1 DEF Types, PushDone, TaskTypes, TaskOf
      <3>2. CASE mut.by # None
        <4> DEFINE q == mut.by
        <4>1. /\ q \in Request /\ q \in Task /\ q \notin Node /\ TaskOf(q, task[q])
              /\ task[q] \in Tasks /\ task[q].step = "mutate"
          BY <3>2 DEF Types, Changes, TaskTypes, Task, Node
        <4>2. RequestTask(task[q]) /\ task[q].kind # "read"
          BY <4>1 DEF TaskOf, NoTask, RequestTask
        <4>3. /\ TaskOf(q, [task[q] EXCEPT !.step = "direct"])
              /\ TaskOf(q, [task[q] EXCEPT !.step = "list", !.node = Owner])
          BY <4>1, <4>2 DEF TaskOf, RequestTask, Tasks, Node
        <4>4. \E w : TaskOf(q, w) /\ task' = [task EXCEPT ![q] = w]
          BY <1>8, <3>2, <4>1, <4>3, NoTaskType DEF PushDone
        <4> QED
          BY <4>1, <4>4, OneTask
      <3> QED
        BY <3>1, <3>2
    <2> QED
      BY <1>8, <2>1, <2>2 DEF Types, PushDone, store
  <1>9. CASE DropChange
    <2>1. TaskTypes' /\ net' \subseteq Snapshots
      BY <1>9, LateTypes, LateTaskTypes DEF DropChange, TaskTypes
    <2>2. mut' \in Changes /\ mut'.by = None
      BY <1>9, Constants DEF DropChange, NoMut
    <2> QED
      BY <1>9, <2>1, <2>2 DEF Types, DropChange, store, history
  <1>10. CASE OwnerSync
    <2>1. Owner \in Node /\ Owner \notin Request /\ state[Owner].content.policy \in [Channel -> Policies]
      BY DEF Types, States, Contents, Node
    <2>2. TaskOf(Owner, Synchronize(Owner, "sync", state[Owner].content.policy))
      BY <2>1, SynchronizeTypes
    <2>3. TaskTypes' /\ (mut'.by # None => task'[mut'.by].step = "mutate")
      BY <1>10, <2>1, <2>2, NodeStep DEF OwnerSync
    <2> QED
      BY <1>10, <2>3 DEF Types, OwnerSync, store, history
  <1>11. ASSUME NEW r \in Mirror, Pull(r) PROVE Types'
    <2>1. state[Owner] \in States
      BY DEF Types, Node
    <2>2. net' \subseteq Snapshots
      BY <1>11, <2>1 DEF Types, Pull, Snapshots, Snapshot, States
    <2> QED
      BY <1>11, <2>2 DEF Types, Pull, store, history, TaskTypes, TaskOf
  <1>12. ASSUME NEW r \in Mirror, DropAccept(r) PROVE Types'
    <2>1. r \in Task /\ r \in Node
      BY DEF Task, Node
    <2>2. TaskTypes' /\ (mut'.by # None => task'[mut'.by].step = "mutate")
      BY <1>12, <2>1, NodeStep, NoTaskType DEF DropAccept
    <2>3. lock' \in [Node -> Locks]
      BY <1>12, Constants DEF Types, DropAccept, Release
    <2> QED
      BY <1>12, <2>2, <2>3 DEF Types, DropAccept, store, history
  <1>13. ASSUME NEW r \in Mirror, Accepted(r) PROVE Types'
    <2>1. r \in Task /\ r \in Node
      BY DEF Task, Node
    <2>2. mut' \in Changes /\ mut'.by = mut.by
      BY <1>13 DEF Types, Accepted, Changes
    <2>3. TaskTypes' /\ (mut'.by # None => task'[mut'.by].step = "mutate")
      BY <1>13, <2>1, <2>2, NodeStep, NoTaskType DEF Accepted
    <2>4. state[r] \in States
      BY <2>1 DEF Types
    <2>5. [state[r] EXCEPT !.ready = TRUE] \in States
      BY <2>4 DEF States
    <2>6. state' = [state EXCEPT ![r] = [state[r] EXCEPT !.ready = TRUE]]
      BY <1>13 DEF Accepted
    <2>7. state' \in [Node -> States]
      BY <2>5, <2>6 DEF Types
    <2> QED
      BY <1>13, <2>2, <2>3, <2>7 DEF Types, Accepted, store, history
  <1>14. ASSUME NEW m \in net, Lose(m) \/ Refuse(m) PROVE Types'
    BY <1>14 DEF Types, Lose, Refuse, store, history, TaskTypes, TaskOf
  <1>15. ASSUME NEW m \in net, Receive(m) PROVE Types'
    <2> DEFINE r == m.to
               new == [known |-> TRUE, ready |-> FALSE, rev |-> m.rev, content |-> m.content]
    <2>1. r \in Mirror /\ r \in Node /\ r \in Task /\ r \notin Request /\ r # Owner
      BY DEF Types, Snapshots, Task, Node
    <2>2. new \in States
      BY DEF Types, Snapshots, States
    <2>3. state' \in [Node -> States]
      BY <1>15, <2>1, <2>2 DEF Types, Receive
    <2>4. state'[r].content.policy \in [Channel -> Policies]
      BY <2>1, <2>3 DEF States, Contents
    <2>5. m.kind \in {"push", "late", "pull"}
      BY DEF Types, Snapshots
    <2>6. TaskOf(r, Synchronize(r, m.kind, state'[r].content.policy))
      BY <2>1, <2>4, <2>5, SynchronizeTypes
    <2>7. TaskTypes' /\ (mut'.by # None => task'[mut'.by].step = "mutate")
      BY <1>15, <2>1, <2>6, NodeStep DEF Receive
    <2> QED
      BY <1>15, <2>3, <2>7 DEF Types, Receive, store, history
  <1>16. ASSUME NEW t \in Task, List(t) PROVE Types'
    <2> DEFINE todo == IF t \in Request /\ task[t].node = task[t].home
                       THEN {task[t].chan} ELSE Channel
               w == [task[t] EXCEPT !.step = "apply",
                        !.policies = state[task[t].node].content.policy, !.todo = todo]
    <2>1. task[t] \in Tasks /\ TaskOf(t, task[t]) /\ task[t].step = "list"
      BY <1>16 DEF List, Types, TaskTypes
    <2>2. t \in Request /\ t \notin Node /\ RequestTask(task[t])
      BY <2>1 DEF TaskOf, NodeTask, NoTask, Node
    <2>3. state[task[t].node].content.policy \in [Channel -> Policies]
      BY <2>1 DEF Types, Tasks, States, Contents
    <2>4. todo \in SUBSET Channel
      BY <2>2 DEF RequestTask
    <2> HIDE DEF todo
    <2>5. TaskOf(t, w)
      BY <2>1, <2>2, <2>3, <2>4 DEF TaskOf, Tasks, RequestTask
    <2>6. task' = [task EXCEPT ![t] = w]
      BY <1>16 DEF List, todo
    <2>7. TaskTypes' /\ (mut'.by # None => task'[mut'.by].step = "mutate")
      BY <1>16, <2>1, <2>5, <2>6, TaskStep DEF List
    <2> QED
      BY <1>16, <2>7 DEF Types, List, store, history
  <1>17. ASSUME NEW t \in Task, NEW c \in Channel,
                \/ ApplyNothing(t, c) \/ ApplyRefused(t, c) \/ ApplyStart(t, c)
         PROVE  Types'
    <2> DEFINE n == task[t].node
    <2>1. /\ n \in Node /\ Prev(n, c) \in Policies \cup {None}
          /\ task[t] \in Tasks /\ task[t].step = "apply" /\ task[t].todo \in SUBSET Channel
      BY <1>17, ApplyTypes DEF ApplyNothing, ApplyRefused, ApplyStart, Applying, Tasks
    <2>2. mem' = [mem EXCEPT ![n][c] = Prev(n, c)]
      BY <1>17 DEF ApplyNothing, ApplyRefused, ApplyStart
    <2>3. mem' \in [Node -> [Channel -> Policies \cup {None}]]
      BY <2>1, <2>2 DEF Types
    <2>4. \/ UNCHANGED task
          \/ task' = [task EXCEPT ![t] = NoTask]
          \/ task' = [task EXCEPT ![t] = [task[t] EXCEPT !.todo = task[t].todo \ {c}]]
      BY <1>17 DEF ApplyNothing, ApplyRefused, ApplyStart
    <2>5. \A w : TaskOf(t, w) /\ task' = [task EXCEPT ![t] = w] /\ mut' = mut =>
             TaskTypes' /\ (mut'.by # None => task'[mut'.by].step = "mutate")
      BY <2>1, TaskStep
    <2>6. mut' = mut
      BY <1>17 DEF ApplyNothing, ApplyRefused, ApplyStart
    <2>7. TaskTypes' /\ (mut'.by # None => task'[mut'.by].step = "mutate")
      <3>1. CASE UNCHANGED task
        BY <2>6, <3>1 DEF Types, TaskTypes, TaskOf
      <3>2. TaskOf(t, [task[t] EXCEPT !.todo = task[t].todo \ {c}])
        BY <2>1, LessToDo
      <3> QED
        BY <2>4, <2>5, <2>6, <3>1, <3>2, NoTaskType
    <2>8. lock' \in [Node -> Locks]
      <3>1. [by |-> t, chan |-> c, step |-> "purge"] \in Locks
        BY DEF Locks
      <3> QED
        BY <1>17, <3>1 DEF Types, ApplyNothing, ApplyRefused, ApplyStart
    <2>9. blocked' \in [Node -> SUBSET Channel]
      BY <1>17, <2>1 DEF Types, ApplyNothing, ApplyRefused, ApplyStart, store
    <2>10. up' \in [Node -> {"down", "starting", "up"}]
      BY <1>17 DEF Types, ApplyNothing, ApplyRefused, ApplyStart
    <2>11. UNCHANGED <<state, applied, cutoff, net, crashes, history>>
      BY <1>17 DEF ApplyNothing, ApplyRefused, ApplyStart, store
    <2> QED
      BY <2>3, <2>6, <2>7, <2>8, <2>10, <2>11, <2>9 DEF Types, history
  <1>18. ASSUME NEW n \in Node, ApplyPurge(n) PROVE Types'
    <2> DEFINE c == lock[n].chan
    <2>1. /\ lock[n].by \in Task /\ c \in Channel /\ Held(n).purge \in 0 .. MaxTime
          /\ lock[n] = [by |-> lock[n].by, chan |-> c, step |-> lock[n].step]
      BY <1>18, HolderTypes DEF ApplyPurge, ApplyAt
    <2>2. Larger(cutoff[n][c], Held(n).purge) \in 0 .. MaxTime
      BY <2>1 DEF Larger, Types
    <2>3. cutoff' \in [Node -> [Channel -> 0 .. MaxTime]]
      BY <1>18, <2>1, <2>2 DEF Types, ApplyPurge
    <2>4. [lock[n] EXCEPT !.step = "persist"] \in Locks
      BY <2>1 DEF Locks
    <2>5. lock' \in [Node -> Locks]
      BY <1>18, <2>4 DEF Types, ApplyPurge
    <2> QED
      BY <1>18, <2>3, <2>5 DEF Types, ApplyPurge, history, TaskTypes, TaskOf
  <1>19. ASSUME NEW n \in Node, ApplyPersist(n) PROVE Types'
    <2> DEFINE c == lock[n].chan
    <2>1. /\ lock[n].by \in Task /\ c \in Channel /\ Held(n) \in Policies
          /\ lock[n] = [by |-> lock[n].by, chan |-> c, step |-> lock[n].step]
      BY <1>19, HolderTypes DEF ApplyPersist, ApplyAt
    <2>2. applied' \in [Node -> [Channel -> Policies \cup {None}]]
      BY <1>19, <2>1 DEF Types, ApplyPersist
    <2>3. [lock[n] EXCEPT !.step = "insert"] \in Locks
      BY <2>1 DEF Locks
    <2>4. lock' \in [Node -> Locks]
      BY <1>19, <2>3 DEF Types, ApplyPersist
    <2> QED
      BY <1>19, <2>2, <2>4 DEF Types, ApplyPersist, history, TaskTypes, TaskOf
  <1>20. ASSUME NEW n \in Node, ApplyInsert(n) PROVE Types'
    <2> DEFINE c == lock[n].chan
               t == lock[n].by
               w == [task[t] EXCEPT !.todo = task[t].todo \ {c}]
    <2>1. /\ t \in Task /\ c \in Channel /\ Held(n) \in Policies
          /\ task[t].step = "apply" /\ task[t] \in Tasks /\ task[t].todo \in SUBSET Channel
      BY <1>20, HolderTypes DEF ApplyInsert, ApplyAt, Tasks
    <2>2. mem' \in [Node -> [Channel -> Policies \cup {None}]]
      BY <1>20, <2>1 DEF Types, ApplyInsert
    <2>3. TaskOf(t, w)
      BY <2>1, LessToDo
    <2>4. task' = [task EXCEPT ![t] = w] /\ mut' = mut
      BY <1>20 DEF ApplyInsert
    <2> HIDE DEF w
    <2>5. TaskTypes' /\ (mut'.by # None => task'[mut'.by].step = "mutate")
      BY <2>1, <2>3, <2>4, TaskStep
    <2>6. lock' \in [Node -> Locks]
      BY <1>20, Constants DEF Types, ApplyInsert
    <2> QED
      BY <1>20, <2>2, <2>5, <2>6 DEF Types, ApplyInsert, store, history
  <1>21. ASSUME NEW q \in Request, NEW n \in Node, NEW c \in Channel,
                NEW kind \in Kinds \ {"pin"}, Begin(q, n, kind, c)
         PROVE  Types'
    <2>1. kind \in RequestKinds /\ q \in Task /\ task[q] \in Tasks
      BY <1>21 DEF RequestKinds, Types, TaskTypes, Task
    <2>2. TaskOf(q, task[q]) /\ task[q].kind = "none"
      BY <1>21, <2>1 DEF Types, TaskTypes, Begin
    <2>3. task[q].step # "mutate"
      BY <2>2 DEF TaskOf, NodeTask, RequestTask, RequestKinds, NoTask
    <2>4. /\ Start(n, kind) \in Tasks /\ Start(n, kind).step = "list"
          /\ Start(n, kind).kind = kind /\ Start(n, kind).home = n /\ Start(n, kind).node = n
      BY <2>1, Constants DEF Start, Tasks
    <2>5. ASSUME NEW w \in Tasks, w.kind = kind, w.home = n, w.node = n, w.chan = c,
                 w.step = IF kind = "read" THEN "list" ELSE "mutate"
          PROVE  TaskOf(q, w)
      BY <2>1, <2>5 DEF TaskOf, RequestTask, RequestKinds
    <2>6. \E w : TaskOf(q, w) /\ task' = [task EXCEPT ![q] = w]
      <3>1. CASE kind = "read"
        <4> DEFINE w == [Start(n, kind) EXCEPT !.chan = c, !.since = acked]
        <4>1. /\ w \in Tasks /\ w.kind = kind /\ w.home = n /\ w.node = n /\ w.chan = c
              /\ w.step = "list"
          BY <2>4 DEF Tasks, Types
        <4>2. task' = [task EXCEPT ![q] = w]
          BY <1>21, <3>1 DEF Begin
        <4> HIDE DEF w
        <4> QED
          BY <2>5, <3>1, <4>1, <4>2
      <3>2. CASE kind = "purge"
        <4>1. PICK t \in ClockReads(c) :
                 task' = [task EXCEPT ![q] =
                            [Start(n, kind) EXCEPT !.chan = c, !.step = "mutate", !.at = t]]
          BY <1>21, <3>2 DEF Begin
        <4> DEFINE w == [Start(n, kind) EXCEPT !.chan = c, !.step = "mutate", !.at = t]
        <4>2. t \in 0 .. MaxTime
          BY DEF ClockReads
        <4>3. /\ w \in Tasks /\ w.kind = kind /\ w.home = n /\ w.node = n /\ w.chan = c
              /\ w.step = "mutate"
          BY <2>4, <4>2 DEF Tasks
        <4> HIDE DEF w
        <4> QED
          BY <2>5, <3>2, <4>1, <4>3 DEF w
      <3>3. CASE kind \in {"ignore", "unignore"}
        <4> DEFINE w == [Start(n, kind) EXCEPT !.chan = c, !.step = "mutate"]
        <4>1. /\ w \in Tasks /\ w.kind = kind /\ w.home = n /\ w.node = n /\ w.chan = c
              /\ w.step = "mutate"
          BY <2>4 DEF Tasks
        <4>2. task' = [task EXCEPT ![q] = w]
          BY <1>21, <3>3 DEF Begin
        <4> HIDE DEF w
        <4> QED
          BY <2>5, <3>3, <4>1, <4>2
      <3> QED
        BY <2>1, <3>1, <3>2, <3>3 DEF RequestKinds
    <2>7. TaskTypes' /\ (mut'.by # None => task'[mut'.by].step = "mutate")
      BY <1>21, <2>1, <2>3, <2>6, TaskStep DEF Begin
    <2> QED
      BY <1>21, <2>7 DEF Types, Begin, store, history
  <1>22. ASSUME NEW q \in Request, Direct(q) PROVE Types'
    <2> DEFINE n == task[q].home
               c == task[q].chan
    <2>1. task[q] \in Tasks /\ TaskOf(q, task[q]) /\ task[q].step = "direct" /\ q \in Task
      BY <1>22 DEF Direct, Types, TaskTypes, Task
    <2>2. RequestTask(task[q]) /\ task[q].kind # "read"
      BY <2>1 DEF TaskOf, NodeTask, NoTask, RequestTask
    <2>3. TaskOf(q, [task[q] EXCEPT !.step = "list", !.node = n])
      BY <2>1, <2>2 DEF TaskOf, Tasks, RequestTask
    <2>4. task' = [task EXCEPT ![q] = [task[q] EXCEPT !.step = "list", !.node = n]]
      BY <1>22, <2>1 DEF Direct, Types, TaskTypes
    <2>5. TaskTypes' /\ (mut'.by # None => task'[mut'.by].step = "mutate")
      BY <1>22, <2>1, <2>3, <2>4, TaskStep DEF Direct
    <2>6. n \in Node /\ c \in Channel /\ Larger(cutoff[n][c], task[q].at) \in 0 .. MaxTime
      BY <2>1, <2>2 DEF Tasks, RequestTask, Types, Larger
    <2>7. blocked' \in [Node -> SUBSET Channel]
      BY <1>22, <2>6 DEF Types, Direct
    <2>8. \/ cutoff' = cutoff
          \/ \E v \in 0 .. MaxTime : cutoff' = [cutoff EXCEPT ![n][c] = v]
      BY <1>22, <2>6 DEF Direct
    <2>9. cutoff \in [Node -> [Channel -> 0 .. MaxTime]] /\ n \in Node /\ c \in Channel
      BY <2>6 DEF Types
    <2> HIDE DEF n, c
    <2>10. cutoff' \in [Node -> [Channel -> 0 .. MaxTime]]
      BY <2>8, <2>9
    <2> QED
      BY <1>22, <2>5, <2>7, <2>10 DEF Types, Direct, history
  <1>23. ASSUME NEW q \in Request, RequestApplied(q) PROVE Types'
    <2>1. task[q].step = "apply" /\ q \in Task /\ q \notin Node
      BY <1>23 DEF RequestApplied, Applied, Task, Node
    <2>2. task[q] \in Tasks /\ TaskOf(q, task[q])
      BY <2>1 DEF Types, TaskTypes
    <2>3. RequestTask(task[q])
      BY <2>1, <2>2 DEF TaskOf, NoTask
    <2>4. /\ task[q].node # task[q].home =>
                TaskOf(q, [task[q] EXCEPT !.step = "direct", !.node = task[q].home])
          /\ task[q].kind = "read" => TaskOf(q, [task[q] EXCEPT !.step = "serve"])
      BY <2>1, <2>2, <2>3 DEF TaskOf, Tasks, RequestTask
    <2>5. \E w : TaskOf(q, w) /\ task' = [task EXCEPT ![q] = w]
      BY <1>23, <2>1, <2>4, NoTaskType DEF RequestApplied
    <2>6. TaskTypes' /\ (mut'.by # None => task'[mut'.by].step = "mutate")
      BY <1>23, <2>1, <2>5, TaskStep DEF RequestApplied
    <2> QED
      BY <1>23, <2>6 DEF Types, RequestApplied, store, history
  <1>24. ASSUME NEW q \in Request, DropRequest(q) PROVE Types'
    <2>1. lock' \in [Node -> Locks] /\ q \in Task
      BY <1>24, Constants DEF Types, DropRequest, Release, Locks, Task
    <2>2. CASE mut.by # q
      <3>1. task' = [task EXCEPT ![q] = NoTask] /\ mut' = mut /\ net' = net
        BY <1>24, <2>2 DEF DropRequest
      <3>2. TaskTypes' /\ \A u \in Task : task'[u] = IF u = q THEN NoTask ELSE task[u]
        BY <2>1, <3>1, OneTask, NoTaskType
      <3>3. mut'.by # None => task'[mut'.by].step = "mutate"
        BY <2>2, <3>1, <3>2 DEF Types, Changes, Task
      <3> QED
        BY <1>24, <2>1, <3>1, <3>2, <3>3 DEF Types, DropRequest, store, history
    <2>3. CASE mut' = NoMut /\ net' = LateNet(Mirror)
               /\ task' = [LateTask(Mirror) EXCEPT ![q] = NoTask]
      <3>1. mut' \in Changes /\ mut'.by = None /\ net' \subseteq Snapshots
        BY <2>3, LateTypes, Constants DEF NoMut
      <3>2. LateTask(Mirror) \in [Task -> Tasks]
            /\ \A t \in Task : TaskOf(t, LateTask(Mirror)[t])
        BY LateTypes, LateTaskTypes
      <3>3. TaskTypes'
        BY <2>1, <2>3, <3>2, NoTaskType, Constants DEF TaskTypes
      <3> QED
        BY <1>24, <2>1, <3>1, <3>3 DEF Types, DropRequest, store, history
    <2>4. CASE mut' = [mut EXCEPT !.by = None] /\ net' = net
               /\ task' = [task EXCEPT ![q] = NoTask]
      <3>1. mut' \in Changes /\ mut'.by = None
        BY <2>4 DEF Types, Changes
      <3>2. TaskTypes'
        BY <2>1, <2>4, OneTask, NoTaskType
      <3> QED
        BY <1>24, <2>1, <2>4, <3>1, <3>2 DEF Types, DropRequest, store, history
    <2> QED
      BY <1>24, <2>2, <2>3, <2>4 DEF DropRequest
  <1>25. ASSUME NEW n \in Node, Boot(n) PROVE Types'
    <2>1. state[n].content.policy \in [Channel -> Policies] /\ n \in Task
      BY DEF Types, States, Contents, Task
    <2>2. TaskOf(n, Synchronize(n, "boot", state[n].content.policy))
      BY <2>1, SynchronizeTypes
    <2>3. task' = task \/ task' = [task EXCEPT ![n] = Synchronize(n, "boot", state[n].content.policy)]
      BY <1>25 DEF Boot
    <2>4. TaskTypes' /\ (mut'.by # None => task'[mut'.by].step = "mutate")
      <3>1. CASE task' = task
        BY <1>25, <3>1 DEF Boot, Types, TaskTypes, TaskOf
      <3>2. CASE task' = [task EXCEPT ![n] = Synchronize(n, "boot", state[n].content.policy)]
        BY <1>25, <2>2, <3>2, NodeStep DEF Boot
      <3> QED
        BY <2>3, <3>1, <3>2
    <2>5. /\ up' \in [Node -> {"down", "starting", "up"}]
          /\ blocked' \in [Node -> SUBSET Channel]
      BY <1>25 DEF Boot, Types, Ignored
    <2> QED
      BY <1>25, <2>4, <2>5 DEF Types, Boot, history
  <1>26. ASSUME NEW n \in Node, Booted(n) PROVE Types'
    <2>1. state[n] \in States
      BY DEF Types
    <2>2. [state[n] EXCEPT !.ready = TRUE] \in States
      BY <2>1 DEF States
    <2>3. state' = [state EXCEPT ![n] = [state[n] EXCEPT !.ready = TRUE]]
      BY <1>26 DEF Booted
    <2>4. state' \in [Node -> States] /\ up' \in [Node -> {"down", "starting", "up"}]
      BY <1>26, <2>2, <2>3 DEF Types, Booted
    <2>5. n \in Task
      BY DEF Task
    <2>6. TaskTypes' /\ (mut'.by # None => task'[mut'.by].step = "mutate")
      BY <1>26, <2>5, NodeStep, NoTaskType DEF Booted
    <2> QED
      BY <1>26, <2>4, <2>6 DEF Types, Booted, store, history
  <1>27. ASSUME NEW n \in Node, Crash(n) PROVE Types'
    <2> DEFINE gone == {t \in Task : task[t].kind # "none" /\ n \in {t, task[t].home, task[t].node}}
    <2>1. /\ up' \in [Node -> {"down", "starting", "up"}]
          /\ mem' \in [Node -> [Channel -> Policies \cup {None}]]
          /\ crashes' \in 0 .. MaxCrash
      BY <1>27 DEF Types, Crash
    <2>2. lock' \in [Node -> Locks]
      BY <1>27, Constants DEF Types, Crash, Locks
    <2>3. CASE n = Owner
      <3>1. mut' = NoMut /\ net' \subseteq LateNet(Mirror)
        BY <1>27, <2>3 DEF Crash
      <3>2. mut' \in Changes /\ mut'.by = None /\ net' \subseteq Snapshots
        BY <3>1, LateTypes, Constants DEF NoMut
      <3>3. LateTask(Mirror) \in [Task -> Tasks]
            /\ \A t \in Task : TaskOf(t, LateTask(Mirror)[t])
        BY LateTypes, LateTaskTypes
      <3>4. \A t \in Task : task'[t] = NoTask \/ task'[t] = LateTask(Mirror)[t]
        BY <1>27, <2>3 DEF Crash
      <3>5. task' = [t \in Task |-> task'[t]]
        BY <1>27, <2>3 DEF Crash
      <3>6. TaskTypes'
        BY <3>3, <3>4, <3>5, NoTaskType DEF TaskTypes, TaskOf
      <3> QED
        BY <1>27, <2>1, <2>2, <3>6, <3>2 DEF Types, Crash, store, history
    <2>4. CASE n # Owner
      <3>1. mut' = IF mut.by \in gone THEN [mut EXCEPT !.by = None] ELSE mut
        BY <1>27, <2>4 DEF Crash
      <3>2. task' = [t \in Task |-> IF t \in gone THEN NoTask ELSE task[t]]
        BY <1>27, <2>4 DEF Crash
      <3>3. net' \subseteq net
        BY <1>27, <2>4 DEF Crash
      <3> HIDE DEF gone
      <3>4. TaskTypes'
        BY <3>2, NoTaskType, Constants DEF Types, TaskTypes, TaskOf
      <3>5. mut' \in Changes /\ (mut'.by = None \/ (mut'.by = mut.by /\ mut.by \notin gone))
        BY <3>1 DEF Types, Changes
      <3>6. mut'.by # None => task'[mut'.by].step = "mutate"
        BY <3>2, <3>5 DEF Types, Changes, Task
      <3> QED
        BY <1>27, <2>1, <2>2, <3>3, <3>4, <3>5, <3>6 DEF Types, Crash, store, history
    <2> QED
      BY <2>3, <2>4
  <1>28. CASE UNCHANGED vars
    BY <1>28 DEF Types, TaskTypes, TaskOf, vars, store, history
  <1> QED
    BY <1>1, <1>2, <1>3, <1>4, <1>5, <1>6, <1>7, <1>8, <1>9, <1>10, <1>11, <1>12, <1>13,
       <1>14, <1>15, <1>16, <1>17, <1>18, <1>19, <1>20, <1>21, <1>22, <1>23, <1>24, <1>25,
       <1>26, <1>27, <1>28
    DEF Next, Change, Replicate, Deliver, Apply, ApplyStep, Serve

-----------------------------------------------------------------------------
LEMMA InitLocked == Init => Locked
  BY DEF Init, Locked, Free, NoTask, Task

\* Only tasks change that hold no mutex afterwards.
LEMMA LockedFrame ==
    ASSUME Types, Types', Locked,
           \A n \in Node : lock'[n] = Free \/ lock'[n] = lock[n],
           \A n \in Node : up'[n] = "down" => task'[n] = NoTask,
           \A t \in Task :
              \/ /\ task'[t].step = task[t].step /\ task'[t].node = task[t].node
                 /\ task'[t].todo = task[t].todo
              \/ \A n \in Node : lock'[n].by # t
    PROVE  Locked'
  <1>1. ASSUME NEW n \in Node, lock'[n] # Free
        PROVE  LET w == task'[lock'[n].by]
               IN w.step = "apply" /\ w.node = n /\ lock'[n].chan \in w.todo
    <2>1. lock'[n] = lock[n] /\ lock[n] # Free
      BY <1>1
    <2>2. lock[n].by \in Task
      BY <2>1 DEF Types, Locks
    <2> QED
      BY <2>1, <2>2 DEF Locked
  <1>2. \A n \in Node : up'[n] = "down" => task'[n] = NoTask
    OBVIOUS
  <1> QED
    BY <1>1, <1>2, Zenon DEF Locked

\* A task that has nothing to apply, or applies where the mutex is free, holds none.
LEMMA HoldsNone ==
    ASSUME Types, Locked, NEW t \in Task,
           task[t].step # "apply" \/ task[t].todo = {} \/ lock[task[t].node] = Free
    PROVE  \A n \in Node : lock[n].by # t
  <1> SUFFICES ASSUME NEW n \in Node, lock[n].by = t PROVE FALSE
    OBVIOUS
  <1>1. lock[n].by # None
    BY Constants
  <1>2. /\ lock[n] # Free /\ task[lock[n].by].step = "apply" /\ task[lock[n].by].node = n
        /\ lock[n].chan \in task[lock[n].by].todo
    BY <1>1, HolderTypes
  <1> QED
    BY <1>2

LEMMA OneTaskLocked ==
    ASSUME Types, Types', Locked, NEW t \in Task, NEW w, task' = [task EXCEPT ![t] = w],
           \A n \in Node : lock'[n] = Free \/ lock'[n] = lock[n],
           \A n \in Node : lock'[n].by # t,
           \A n \in Node : up'[n] = up[n] \/ n = t,
           t \in Node /\ up'[t] = "down" => w = NoTask
    PROVE  Locked'
  <1>1. \A u \in Task : task'[u] = IF u = t THEN w ELSE task[u]
    BY DEF Types, TaskTypes
  <1>2. \A u \in Task : \/ /\ task'[u].step = task[u].step /\ task'[u].node = task[u].node
                           /\ task'[u].todo = task[u].todo
                        \/ \A n \in Node : lock'[n].by # u
    BY <1>1
  <1>3. \A n \in Node : up'[n] = "down" => task'[n] = NoTask
    BY <1>1 DEF Task, Locked
  <1> QED
    BY <1>2, <1>3, LockedFrame

LEMMA LockedStep == Types /\ Types' /\ Locked /\ [Next]_vars => Locked'
  <1> SUFFICES ASSUME Types, Types', Locked, [Next]_vars PROVE Locked'
    OBVIOUS
  <1> USE NodeAssumption
  <1>1. ASSUME UNCHANGED <<task, lock, up>> PROVE Locked'
    BY <1>1 DEF Locked
  <1>2. ASSUME NEW q \in Request, ChangeFor(q) PROVE Locked'
    <2>1. \E new, by : Mutate(new, by)
      BY <1>2 DEF ChangeFor
    <2> QED
      BY <1>1, <2>1 DEF Mutate
  <1>3. ASSUME NEW c \in Channel, PinRefused(c) \/ \E pin \in BOOLEAN : Pin(c, pin) PROVE Locked'
    BY <1>1, <1>3 DEF PinRefused, Pin, Mutate
  <1>4. ASSUME NEW pins \in SUBSET Channel, ReplacePins(pins) PROVE Locked'
    BY <1>1, <1>4 DEF ReplacePins, Mutate
  <1>5. ASSUME NEW t \in Token, SaveAuth(t) \/ Revoke(t) PROVE Locked'
    BY <1>1, <1>5 DEF SaveAuth, Revoke, Mutate
  <1>6. ASSUME NEW n \in Node, NEW w, lock' = lock, up' = up, up[n] # "down",
               task' = [task EXCEPT ![n] = w],
               task[n].step # "apply" \/ task[n].todo = {}
        PROVE  Locked'
    <2>1. n \in Task /\ \A m \in Node : lock[m].by # n
      BY <1>6, HoldsNone DEF Task
    <2> QED
      BY <1>6, <2>1, OneTaskLocked
  <1>7. ASSUME NEW t \in Task, NEW w, lock' = lock, up' = up, t \notin Node,
               task' = [task EXCEPT ![t] = w],
               task[t].step # "apply" \/ task[t].todo = {}
        PROVE  Locked'
    <2>1. \A m \in Node : lock[m].by # t
      BY <1>7, HoldsNone
    <2> QED
      BY <1>7, <2>1, OneTaskLocked
  <1>8. \A n \in Node : up[n] = "down" => task[n] = NoTask
    BY DEF Locked
  <1>9. CASE OwnerPush
    <2>1. task[Owner].step = "apply" /\ Owner \in Node
      BY <1>9 DEF OwnerPush, Applied, Node
    <2>2. up[Owner] # "down"
      BY <1>8, <2>1 DEF NoTask
    <2> QED
      BY <1>6, <1>9, <2>1, <2>2 DEF OwnerPush, Applied
  <1>10. ASSUME NEW rs \in SUBSET Mirror, task' = LateTask(rs), lock' = lock, up' = up
         PROVE  Locked'
    <2>1. \A t \in Task : /\ task'[t].step = task[t].step /\ task'[t].node = task[t].node
                          /\ task'[t].todo = task[t].todo
                          /\ task[t] = NoTask => task'[t] = NoTask
      BY <1>10, LateTaskKeeps
    <2> QED
      BY <1>8, <1>10, <2>1, LockedFrame DEF Task
  <1>11. ASSUME NEW r \in Mirror, PushFails(r) PROVE Locked'
    BY <1>10, <1>11 DEF PushFails
  <1>12. CASE DropChange
    BY <1>10, <1>12 DEF DropChange
  <1>13. CASE PushDone
    <2>1. CASE mut.by = None
      BY <1>1, <1>13, <2>1 DEF PushDone
    <2>2. CASE mut.by # None
      <3>1. mut.by \in Task /\ mut.by \notin Node /\ task[mut.by].step = "mutate"
        BY <2>2 DEF Types, Changes, Task, Node
      <3>2. \E w : task' = [task EXCEPT ![mut.by] = w]
        BY <1>13, <2>2 DEF PushDone
      <3> QED
        BY <1>7, <1>13, <3>1, <3>2 DEF PushDone
    <2> QED
      BY <2>1, <2>2
  <1>14. CASE OwnerSync
    <2>1. Owner \in Node /\ task[Owner].step = "idle"
      BY <1>14, IdleTask DEF OwnerSync, Task, Node
    <2> QED
      BY <1>6, <1>14, <2>1 DEF OwnerSync
  <1>15. ASSUME NEW r \in Mirror, Pull(r) PROVE Locked'
    BY <1>1, <1>15 DEF Pull
  <1>16. ASSUME NEW t \in Task, lock' = Release(t), up' = up,
                task' = [task EXCEPT ![t] = NoTask]
         PROVE  Locked'
    <2>1. /\ \A n \in Node : lock'[n] = Free \/ lock'[n] = lock[n]
          /\ \A n \in Node : lock'[n].by # t
      BY <1>16, Constants DEF Release, Free
    <2> QED
      BY <1>16, <2>1, OneTaskLocked
  <1>17. ASSUME NEW r \in Mirror, DropAccept(r) PROVE Locked'
    BY <1>16, <1>17 DEF DropAccept, Task, Node
  <1>18. ASSUME NEW r \in Mirror, Accepted(r) PROVE Locked'
    <2>1. r \in Node /\ up[r] # "down"
      BY <1>8, <1>18 DEF Accepted, Applied, NoTask, Node
    <2> QED
      BY <1>6, <1>18, <2>1 DEF Accepted, Applied
  <1>19. ASSUME NEW m \in net, Lose(m) \/ Refuse(m) PROVE Locked'
    BY <1>1, <1>19 DEF Lose, Refuse
  <1>20. ASSUME NEW m \in net, Receive(m) PROVE Locked'
    <2>1. m.to \in Node /\ m.to \in Task
      BY DEF Types, Snapshots, Node, Task
    <2>2. task[m.to].step = "idle" /\ up[m.to] # "down"
      BY <1>20, <2>1, IdleTask DEF Receive
    <2> QED
      BY <1>6, <1>20, <2>1, <2>2 DEF Receive
  <1>21. ASSUME NEW t \in Task, List(t) PROVE Locked'
    <2>1. task[t].step = "list" /\ task[t] \in Tasks /\ TaskOf(t, task[t])
      BY <1>21 DEF List, Types, TaskTypes
    <2>2. t \notin Node
      BY <2>1 DEF TaskOf, NodeTask, NoTask, Node
    <2>3. \E w : task' = [task EXCEPT ![t] = w]
      BY <1>21 DEF List
    <2> QED
      BY <1>7, <1>21, <2>1, <2>2, <2>3 DEF List
  <1>22. ASSUME NEW t \in Task, NEW c \in Channel, ApplyNothing(t, c) \/ ApplyRefused(t, c)
         PROVE  Locked'
    <2> DEFINE n == task[t].node
    <2>1. /\ lock[n] = Free /\ lock' = lock /\ n \in Node /\ TaskOf(t, task[t])
          /\ task[t].step = "apply"
      BY <1>22, ApplyTypes DEF ApplyNothing, ApplyRefused, Applying, Types, TaskTypes
    <2>2. \A m \in Node : lock[m].by # t
      BY <2>1, HoldsNone
    <2>3. PICK w : task' = [task EXCEPT ![t] = w]
      BY <1>22 DEF ApplyNothing, ApplyRefused
    <2>4. CASE t \in Node
      <3>1. t = n /\ up[t] # "down"
        BY <1>8, <2>1, <2>4, NodeAssumption DEF TaskOf, NodeTask, NoTask, Node
      <3>2. up'[t] = "down" => task' = [task EXCEPT ![t] = NoTask]
        BY <1>22, <3>1 DEF ApplyNothing, ApplyRefused, Types
      <3>3. \A m \in Node : up'[m] = up[m] \/ m = t
        BY <1>22, <3>1 DEF ApplyNothing, ApplyRefused, Types
      <3> QED
        BY <2>1, <2>2, <2>3, <3>2, <3>3, OneTaskLocked
    <2>5. CASE t \notin Node
      <3>1. up' = up
        BY <1>22, <2>1, <2>5
        DEF ApplyNothing, ApplyRefused, TaskOf, RequestTask, RequestKinds, NoTask
      <3> QED
        BY <2>1, <2>2, <2>3, <2>5, <3>1, OneTaskLocked
    <2> QED
      BY <2>4, <2>5
  <1>23. ASSUME NEW t \in Task, NEW c \in Channel, ApplyStart(t, c) PROVE Locked'
    <2> DEFINE n == task[t].node
    <2>1. /\ task[t].step = "apply" /\ c \in task[t].todo /\ n \in Node
          /\ task' = task /\ up' = up
          /\ lock' = [lock EXCEPT ![n] = [by |-> t, chan |-> c, step |-> "purge"]]
      BY <1>23, ApplyTypes DEF ApplyStart, Applying
    <2>2. \A m \in Node : lock'[m] = IF m = n THEN [by |-> t, chan |-> c, step |-> "purge"] ELSE lock[m]
      BY <2>1 DEF Types
    <2> QED
      BY <2>1, <2>2 DEF Locked
  <1>24. ASSUME NEW n \in Node, ApplyPurge(n) \/ ApplyPersist(n) PROVE Locked'
    <2>1. lock[n] # Free /\ lock[n] = [by |-> lock[n].by, chan |-> lock[n].chan, step |-> lock[n].step]
      BY <1>24, HolderTypes DEF ApplyPurge, ApplyPersist, ApplyAt
    <2>2. /\ lock'[n].by = lock[n].by /\ lock'[n].chan = lock[n].chan
          /\ \A m \in Node : m # n => lock'[m] = lock[m]
          /\ task' = task /\ up' = up
      BY <1>24, <2>1 DEF ApplyPurge, ApplyPersist, Types
    <2> QED
      BY <2>1, <2>2 DEF Locked
  <1>25. ASSUME NEW n \in Node, ApplyInsert(n) PROVE Locked'
    <2>1. lock[n].by # None
      BY <1>25 DEF ApplyInsert, ApplyAt
    <2>2. /\ lock[n].by \in Task /\ task[lock[n].by].node = n /\ task[lock[n].by].step = "apply"
      BY <2>1, HolderTypes
    <2>3. task[lock[n].by] # NoTask
      BY <2>2 DEF NoTask
    <2>4. /\ \A m \in Node : lock'[m] = IF m = n THEN Free ELSE lock[m]
          /\ up' = up
      BY <1>25 DEF ApplyInsert, Types
    <2>5. \A m \in Node : lock'[m].by # lock[n].by
      <3> SUFFICES ASSUME NEW m \in Node, lock'[m].by = lock[n].by PROVE FALSE
        OBVIOUS
      <3>1. m # n
        BY <2>2, <2>4, Constants DEF Free
      <3>2. lock[m].by # None /\ lock[m].by = lock[n].by
        BY <2>2, <2>4, <3>1, Constants
      <3>3. task[lock[n].by].node = m
        BY <3>2, HolderTypes
      <3> QED
        BY <2>2, <3>1, <3>3
    <2>6. lock[n].by \in Node => up[lock[n].by] # "down"
      BY <1>8, <2>3
    <2>7. \E w : task' = [task EXCEPT ![lock[n].by] = w]
      BY <1>25 DEF ApplyInsert
    <2>8. \A m \in Node : lock'[m] = Free \/ lock'[m] = lock[m]
      BY <2>4
    <2> HIDE <1>25
    <2> QED
      BY <2>2, <2>4, <2>5, <2>6, <2>7, <2>8, OneTaskLocked
  <1>26. ASSUME NEW q \in Request, NEW n \in Node, NEW c \in Channel,
                NEW kind \in Kinds \ {"pin"}, Begin(q, n, kind, c)
         PROVE  Locked'
    <2>1. q \in Task /\ q \notin Node /\ task[q].step = "idle"
      BY <1>26, IdleTask DEF Begin, Task, Node
    <2>2. \E w : task' = [task EXCEPT ![q] = w]
      BY <1>26 DEF Begin
    <2> QED
      BY <1>7, <1>26, <2>1, <2>2 DEF Begin
  <1>27. ASSUME NEW q \in Request, Direct(q) PROVE Locked'
    <2>1. q \in Task /\ q \notin Node /\ task[q].step = "direct"
      BY <1>27 DEF Direct, Task, Node
    <2>2. task' = [task EXCEPT ![q] = [task[q] EXCEPT !.step = "list", !.node = task[q].home]]
      BY <1>27, <2>1 DEF Direct, Types, TaskTypes
    <2> QED
      BY <1>7, <1>27, <2>1, <2>2 DEF Direct
  <1>28. ASSUME NEW q \in Request, RequestApplied(q) PROVE Locked'
    <2>1. q \in Task /\ q \notin Node /\ task[q].todo = {}
      BY <1>28 DEF RequestApplied, Applied, Task, Node
    <2>2. \E w : task' = [task EXCEPT ![q] = w]
      BY <1>28 DEF RequestApplied
    <2> QED
      BY <1>7, <1>28, <2>1, <2>2 DEF RequestApplied
  <1>29. ASSUME NEW q \in Request, DropRequest(q) PROVE Locked'
    <2>1. q \in Task /\ q \notin Node /\ q \notin Mirror /\ lock' = Release(q) /\ up' = up
      BY <1>29 DEF DropRequest, Task, Node
    <2>2. CASE task' = [task EXCEPT ![q] = NoTask]
      BY <1>16, <2>1, <2>2
    <2>3. CASE task' = [LateTask(Mirror) EXCEPT ![q] = NoTask]
      <3>1. \A t \in Task : task'[t] = IF t = q THEN NoTask ELSE LateTask(Mirror)[t]
        BY <2>3, LateTypes
      <3>2. \A n \in Node : lock'[n] = Free \/ lock'[n] = lock[n]
        BY <2>1 DEF Release
      <3>3. \A n \in Node : lock'[n].by # q
        BY <2>1, Constants DEF Release, Free
      <3>4. \A n \in Node : up'[n] = "down" => task'[n] = NoTask
        BY <1>8, <2>1, <3>1, LateTaskKeeps DEF Task
      <3>5. \A t \in Task : \/ /\ task'[t].step = task[t].step /\ task'[t].node = task[t].node
                               /\ task'[t].todo = task[t].todo
                            \/ \A n \in Node : lock'[n].by # t
        BY <3>1, <3>3, LateTaskKeeps
      <3> QED
        BY <3>2, <3>4, <3>5, LockedFrame
    <2> QED
      BY <1>29, <2>2, <2>3 DEF DropRequest
  <1>30. ASSUME NEW n \in Node, Boot(n) PROVE Locked'
    <2>1. task[n] = NoTask /\ n \in Task /\ lock' = lock
      BY <1>8, <1>30 DEF Boot, Task
    <2>2. \A m \in Node : lock[m].by # n
      BY <2>1, HoldsNone DEF NoTask
    <2>3. task' = task \/ \E w : task' = [task EXCEPT ![n] = w]
      BY <1>30 DEF Boot
    <2>4. task' = task => task' = [task EXCEPT ![n] = task[n]]
      BY DEF Types, TaskTypes
    <2>5. up'[n] # "down" /\ \A m \in Node : m # n => up'[m] = up[m]
      BY <1>30 DEF Boot, Types
    <2> QED
      BY <2>1, <2>2, <2>3, <2>4, <2>5, OneTaskLocked
  <1>31. ASSUME NEW n \in Node, Booted(n) PROVE Locked'
    <2>1. n \in Task /\ task[n].todo = {} /\ lock' = lock /\ task' = [task EXCEPT ![n] = NoTask]
      BY <1>31 DEF Booted, Applied, Task
    <2>2. \A m \in Node : lock[m].by # n
      BY <2>1, HoldsNone
    <2>3. \A m \in Node : m # n => up'[m] = up[m]
      BY <1>31 DEF Booted, Types
    <2> QED
      BY <2>1, <2>2, <2>3, OneTaskLocked
  <1>32. ASSUME NEW n \in Node, Crash(n) PROVE Locked'
    <2> DEFINE gone == {t \in Task : task[t].kind # "none" /\ n \in {t, task[t].home, task[t].node}}
    <2>1. lock' = [m \in Node |-> IF m = n \/ lock[m].by \in gone THEN Free ELSE lock[m]]
      BY <1>32 DEF Crash
    <2>2. \A t \in Task : \/ task'[t] = NoTask
                          \/ task'[t] = task[t] /\ t \notin gone
                          \/ task'[t] = LateTask(Mirror)[t] /\ t \notin gone
      BY <1>32 DEF Crash
    <2>3. \A t \in Task : task'[t] = NoTask =>
             t \in gone \/ task[t] = NoTask \/ task[t].step = "mutate"
      <3> SUFFICES ASSUME NEW t \in Task, task'[t] = NoTask, t \notin gone
                   PROVE  task[t] = NoTask \/ task[t].step = "mutate"
        OBVIOUS
      <3>1. CASE task[t] = NoTask \/ task[t].kind = "none"
        BY <3>1, IdleTask
      <3>2. CASE task'[t] = task[t] \/ task'[t] = LateTask(Mirror)[t]
        <4>1. task'[t].step = "idle" /\ task[t].step = "idle"
          BY <3>2, LateTaskKeeps DEF NoTask
        <4> QED
          BY <4>1, IdleStep
      <3>3. CASE n = Owner /\ t \in Request /\ mut.by = t
        BY <3>3 DEF Types
      <3> QED
        BY <1>32, <3>1, <3>2, <3>3 DEF Crash
    <2>4. \A m \in Node : lock'[m] = Free \/ lock'[m] = lock[m]
      BY <2>1
    <2> HIDE DEF gone
    <2>5. ASSUME NEW t \in Task
          PROVE  \/ /\ task'[t].step = task[t].step /\ task'[t].node = task[t].node
                    /\ task'[t].todo = task[t].todo
                 \/ \A m \in Node : lock'[m].by # t
      <3>1. CASE task'[t] # NoTask
        BY <2>2, <3>1, LateTaskKeeps
      <3>2. CASE t \in gone
        BY <2>1, <3>2, Constants DEF Free
      <3>3. CASE task[t] = NoTask \/ task[t].step = "mutate"
        <4>1. \A m \in Node : lock[m].by # t
          BY <3>3, HoldsNone DEF NoTask
        <4> QED
          BY <2>4, <4>1, Constants DEF Free
      <3> QED
        BY <2>3, <3>1, <3>2, <3>3
    <2>6. \A m \in Node : up'[m] = "down" => task'[m] = NoTask
      <3> SUFFICES ASSUME NEW m \in Node, up'[m] = "down" PROVE task'[m] = NoTask
        OBVIOUS
      <3>1. m \in Task
        BY DEF Task
      <3>2. CASE m = n
        <4>1. m \in gone \/ task[m] = NoTask
          BY <3>1, <3>2, IdleTask DEF gone
        <4> QED
          BY <2>2, <3>1, <4>1, LateTaskKeeps
      <3>3. CASE m # n
        <4>1. task[m] = NoTask
          BY <1>8, <1>32, <3>3 DEF Crash, Types
        <4> QED
          BY <2>2, <3>1, <4>1, LateTaskKeeps
      <3> QED
        BY <3>2, <3>3
    <2> QED
      BY <2>4, <2>5, <2>6, LockedFrame
  <1>33. CASE UNCHANGED vars
    BY <1>1, <1>33 DEF vars
  <1> QED
    BY <1>2, <1>3, <1>4, <1>5, <1>9, <1>11, <1>12, <1>13, <1>14, <1>15, <1>17, <1>18, <1>19,
       <1>20, <1>21, <1>22, <1>23, <1>24, <1>25, <1>26, <1>27, <1>28, <1>29, <1>30, <1>31,
       <1>32, <1>33
    DEF Next, Change, Replicate, Deliver, Apply, ApplyStep, Serve

THEOREM Typed == Spec => [](Types /\ Locked)
  <1>1. Init => Types /\ Locked
    BY InitTypes, InitLocked
  <1>2. Types /\ Locked /\ [Next]_vars => (Types /\ Locked)'
    BY TypesStep, LockedStep
  <1> QED
    BY <1>1, <1>2, PTL DEF Spec

-----------------------------------------------------------------------------
(* The log.  A step leaves the states as they are, commits one, or a mirror *)
(* takes one over; what is on its way to a mirror the owner has sent.       *)

Quiet ==
    /\ log' = log
    /\ \A n \in Node : /\ state'[n].rev = state[n].rev /\ state'[n].content = state[n].content
                       /\ state'[n].known = state[n].known
Commits == \E new \in Contents : Grows(new) /\ Commit(new) /\ ~mut.held
Follows == \E m \in net : Receive(m) /\ log' = log

Sent ==
    \A m \in net' :
        \/ \E o \in net : m.to = o.to /\ m.rev = o.rev /\ m.content = o.content
        \/ m.rev = state'[Owner].rev /\ m.content = state'[Owner].content
MutMoves ==
    \/ mut' = NoMut
    \/ mut.held /\ mut'.held /\ mut'.rev = mut.rev
    \/ mut'.held /\ mut'.rev = state'[Owner].rev
Acknowledges == acked' = acked \/ (mut.held /\ acked' = mut.rev /\ log' = log)

LEMMA MutateMoves ==
    ASSUME Types, NEW new \in Contents, NEW by, Grows(new), Mutate(new, by)
    PROVE  Commits /\ Sent /\ MutMoves /\ Acknowledges
  <1>1. state'[Owner].rev = state[Owner].rev + 1 /\ state'[Owner].content = new
    BY DEF Mutate, Commit, Types, States, Node
  <1>2. Commits /\ Acknowledges
    BY DEF Commits, Mutate, Commit, Acknowledges
  <1>3. MutMoves
    BY <1>1 DEF MutMoves, Mutate
  <1>4. Sent
    BY <1>1 DEF Sent, Mutate, Snapshot
  <1> QED
    BY <1>2, <1>3, <1>4

LEMMA LateMoves ==
    ASSUME NEW rs, net' \subseteq LateNet(rs), Types
    PROVE  Sent
  <1>1. ASSUME NEW m \in LateNet(rs)
        PROVE  \E o \in net : m.to = o.to /\ m.rev = o.rev /\ m.content = o.content
    <2>1. CASE m \in net
      BY <2>1
    <2>2. CASE m \notin net
      <3>1. PICK o \in net : m = [o EXCEPT !.kind = "late"]
        BY <2>2 DEF LateNet
      <3>2. o \in Snapshots
        BY DEF Types
      <3> QED
        BY <3>1, <3>2 DEF Snapshots
    <2> QED
      BY <2>1, <2>2
  <1> QED
    BY <1>1 DEF Sent

LEMMA Moves ==
    ASSUME Types, Types', Locked, mut.held \/ mut = NoMut, [Next]_vars
    PROVE  (Quiet \/ Commits \/ Follows) /\ Sent /\ MutMoves /\ Acknowledges
  <1> DEFINE Goal == (Quiet \/ Commits \/ Follows) /\ Sent /\ MutMoves /\ Acknowledges
  <1> USE NodeAssumption, BoundAssumption
  <1>1. ASSUME UNCHANGED <<state, net, mut, history>> PROVE Goal
    BY <1>1 DEF Quiet, Sent, MutMoves, Acknowledges, history, Types, Changes
  <1>2. ASSUME NEW q \in Request, ChangeFor(q) PROVE Goal
    <2>1. PICK p \in Policies :
              /\ Mutate(WithPolicy(task[q].chan, p), q) /\ RequestTask(task[q])
              /\ p.purge >= OwnerPolicy(task[q].chan).purge
      BY <1>2, RequestedPolicy
    <2> QED
      BY <2>1, PolicyTypes, MutateMoves DEF RequestTask
  <1>3. ASSUME NEW c \in Channel, PinRefused(c) PROVE Goal
    <2>1. state[Owner].content \in Contents /\ Grows(state[Owner].content)
      BY OtherChanges
    <2> QED
      BY <1>3, <2>1 DEF PinRefused, Commits, Commit, Sent, MutMoves, Acknowledges, Types, Changes
  <1>4. ASSUME NEW c \in Channel, NEW pin \in BOOLEAN, Pin(c, pin) PROVE Goal
    <2> DEFINE new == WithPolicy(c, [OwnerPolicy(c) EXCEPT !.pin = pin])
    <2>1. new \in Contents /\ Grows(new)
      BY OtherChanges
    <2> QED
      BY <1>4, <2>1, MutateMoves DEF Pin
  <1>5. ASSUME NEW pins \in SUBSET Channel, ReplacePins(pins) PROVE Goal
    <2> DEFINE new == [state[Owner].content EXCEPT !.policy =
                          [c \in Channel |-> [@[c] EXCEPT !.pin = c \in pins]]]
    <2>1. new \in Contents /\ Grows(new)
      BY OtherChanges
    <2> QED
      BY <1>5, <2>1, MutateMoves DEF ReplacePins
  <1>6. ASSUME NEW t \in Token, SaveAuth(t) \/ Revoke(t) PROVE Goal
    <2> DEFINE with == [state[Owner].content EXCEPT !.sessions = @ \cup {t}]
               without == [state[Owner].content EXCEPT !.sessions = @ \ {t}]
    <2>1. with \in Contents /\ Grows(with) /\ without \in Contents /\ Grows(without)
      BY OtherChanges
    <2> QED
      BY <1>6, <2>1, MutateMoves DEF SaveAuth, Revoke
  <1>7. ASSUME OwnerPush PROVE Goal
    <2>1. Quiet /\ Acknowledges /\ MutMoves
      BY <1>7 DEF OwnerPush, Quiet, Acknowledges, MutMoves, history
    <2>2. Sent
      BY <1>7 DEF OwnerPush, Sent, Snapshot
    <2> QED
      BY <2>1, <2>2
  <1>8. ASSUME NEW r \in Mirror, PushFails(r) PROVE Goal
    <2>1. Quiet /\ Acknowledges /\ net' \subseteq LateNet({r})
      BY <1>8 DEF PushFails, Quiet, Acknowledges, history
    <2>2. MutMoves
      BY <1>8 DEF PushFails, MutMoves, Types, Changes, NoMut
    <2> QED
      BY <2>1, <2>2, LateMoves
  <1>9. ASSUME PushDone PROVE Goal
    BY <1>9 DEF PushDone, Quiet, Sent, MutMoves, Acknowledges
  <1>10. ASSUME DropChange PROVE Goal
    <2>1. Quiet /\ Acknowledges /\ MutMoves /\ net' \subseteq LateNet(Mirror)
      BY <1>10 DEF DropChange, Quiet, Acknowledges, MutMoves, history
    <2> QED
      BY <2>1, LateMoves
  <1>11. ASSUME NEW r \in Mirror, Pull(r) PROVE Goal
    BY <1>11 DEF Pull, Quiet, Sent, MutMoves, Acknowledges, Snapshot, history, Types, Changes
  <1>12. ASSUME NEW m \in net, Lose(m) \/ Refuse(m) PROVE Goal
    BY <1>12 DEF Lose, Refuse, Quiet, Sent, MutMoves, Acknowledges, history, Types, Changes
  <1>13. ASSUME NEW m \in net, Receive(m) PROVE Goal
    BY <1>13 DEF Receive, Follows, Sent, MutMoves, Acknowledges, history, Types, Changes
  <1>14. ASSUME NEW n \in Node, log' = log, state' = [state EXCEPT ![n].ready = TRUE]
         PROVE  Quiet
    BY <1>14 DEF Quiet, Types, States
  <1>15. ASSUME NEW r \in Mirror, Accepted(r) PROVE Goal
    <2>1. Quiet
      BY <1>14, <1>15 DEF Accepted, history, Node
    <2>2. Sent /\ Acknowledges
      BY <1>15 DEF Accepted, Sent, Acknowledges, history
    <2>3. MutMoves
      <3>1. mut.held => mut'.held /\ mut'.rev = mut.rev
        BY <1>15 DEF Accepted, Types, Changes
      <3>2. mut = NoMut => mut' = NoMut
        <4>1. mut = NoMut => mut.waiting \ {r} = mut.waiting
          BY DEF NoMut
        <4>2. mut = NoMut => [mut EXCEPT !.waiting = mut.waiting] = mut
          BY DEF NoMut
        <4> QED
          BY <1>15, <4>1, <4>2, Zenon DEF Accepted
      <3> QED
        BY <3>1, <3>2 DEF MutMoves
    <2> QED
      BY <2>1, <2>2, <2>3
  <1>16. ASSUME NEW n \in Node, Booted(n) PROVE Goal
    <2>1. Quiet
      BY <1>14, <1>16 DEF Booted, history
    <2>2. Sent /\ MutMoves /\ Acknowledges
      BY <1>16 DEF Booted, Sent, MutMoves, Acknowledges, history, Types, Changes
    <2> QED
      BY <2>1, <2>2
  <1>17. ASSUME NEW q \in Request, DropRequest(q) PROVE Goal
    <2>1. Quiet /\ Acknowledges
      BY <1>17 DEF DropRequest, Quiet, Acknowledges, history
    <2>2. /\ net' = net \/ net' = LateNet(Mirror)
          /\ mut' = mut \/ mut' = NoMut \/ mut' = [mut EXCEPT !.by = None]
      BY <1>17 DEF DropRequest
    <2>3. mut' = mut \/ mut' = NoMut \/ (mut.held /\ mut' = [mut EXCEPT !.by = None])
      BY <1>17 DEF DropRequest, NoMut
    <2>4. MutMoves
      BY <2>3 DEF MutMoves, Types, Changes
    <2>5. Sent
      BY <2>2, LateMoves DEF Sent
    <2> QED
      BY <2>1, <2>4, <2>5
  <1>18. ASSUME NEW n \in Node, Crash(n) PROVE Goal
    <2>1. Quiet /\ Acknowledges
      BY <1>18 DEF Crash, Quiet, Acknowledges, history
    <2>2. /\ net' \subseteq net \/ net' \subseteq LateNet(Mirror)
          /\ mut' = mut \/ mut' = NoMut \/ mut' = [mut EXCEPT !.by = None]
      BY <1>18 DEF Crash
    <2>3. mut' = mut \/ mut' = NoMut \/ (mut.held /\ mut' = [mut EXCEPT !.by = None])
      <3>1. mut = NoMut => mut.by \notin Task
        BY Constants DEF NoMut
      <3> QED
        BY <1>18, <3>1 DEF Crash
    <2>4. MutMoves
      BY <2>3 DEF MutMoves, Types, Changes
    <2>5. Sent
      BY <2>2, LateMoves DEF Sent
    <2> QED
      BY <2>1, <2>4, <2>5
  <1>19. ASSUME NEW t \in Task, List(t) PROVE Goal
    BY <1>1, <1>19 DEF List
  <1>20. ASSUME NEW t \in Task, NEW c \in Channel,
                ApplyNothing(t, c) \/ ApplyRefused(t, c) \/ ApplyStart(t, c)
         PROVE  Goal
    BY <1>1, <1>20 DEF ApplyNothing, ApplyRefused, ApplyStart
  <1>21. ASSUME NEW n \in Node, ApplyStep(n) \/ Boot(n) PROVE Goal
    BY <1>1, <1>21 DEF ApplyStep, ApplyPurge, ApplyPersist, ApplyInsert, Boot
  <1>22. ASSUME NEW q \in Request,
                \/ Direct(q) \/ RequestApplied(q)
                \/ \E n \in Node, c \in Channel, kind \in Kinds \ {"pin"} : Begin(q, n, kind, c)
         PROVE  Goal
    BY <1>1, <1>22 DEF Direct, RequestApplied, Begin
  <1>23. ASSUME OwnerSync \/ \E r \in Mirror : DropAccept(r) PROVE Goal
    BY <1>1, <1>23 DEF OwnerSync, DropAccept
  <1>24. ASSUME UNCHANGED vars PROVE Goal
    BY <1>1, <1>24 DEF vars
  <1> HIDE DEF Goal
  <1>25. Change => Goal
    BY <1>2, <1>3, <1>4, <1>5, <1>6, <1>7, <1>9, <1>10 DEF Change
  <1>26. ASSUME NEW r \in Mirror, Replicate(r) PROVE Goal
    BY <1>8, <1>11, <1>15, <1>23, <1>26 DEF Replicate
  <1>27. ASSUME NEW m \in net, Deliver(m) PROVE Goal
    BY <1>12, <1>13, <1>27 DEF Deliver
  <1>28. ASSUME NEW t \in Task, Apply(t) PROVE Goal
    BY <1>19, <1>20, <1>28 DEF Apply
  <1>29. ASSUME NEW q \in Request, Serve(q) PROVE Goal
    BY <1>17, <1>22, <1>29 DEF Serve
  <1>30. Goal
    BY <1>16, <1>18, <1>21, <1>23, <1>24, <1>25, <1>26, <1>27, <1>28, <1>29 DEF Next
  <1> QED
    BY <1>30 DEF Goal

\* Every state and every snapshot is an entry of the log; a push is of the last one.
Following ==
    /\ state[Owner].rev = Len(log) /\ state[Owner].known
    /\ \A n \in Node : /\ state[n].rev \in 0 .. Len(log)
                       /\ state[n].content = Entry(state[n].rev)
                       /\ ~state[n].known => state[n].rev = 0
    /\ \A m \in net : m.rev \in 0 .. Len(log) /\ m.content = Entry(m.rev)
    /\ mut = NoMut \/ (mut.held /\ mut.rev = Len(log))
    /\ acked \in 0 .. Len(log)

\* No entry takes a purge of an earlier one back.
PurgesGrow ==
    \A j, k \in 0 .. Len(log) :
        j <= k => \A c \in Channel : Entry(j).policy[c].purge <= Entry(k).policy[c].purge

\* The log after the step.
NextEntry(k) == IF k = 0 THEN Nothing ELSE log'[k]

LEMMA EntryTypes ==
    ASSUME Types
    PROVE  /\ Len(log) \in Nat
           /\ \A k \in 0 .. Len(log) : /\ Entry(k) \in Contents
                                       /\ \A c \in Channel : /\ Entry(k).policy[c] \in Policies
                                                             /\ Entry(k).policy[c].purge \in 0 .. MaxTime
                                                             /\ Entry(k).policy[c].purge \in Nat
  <1>1. log \in Seq(Contents) /\ Len(log) \in Nat
    BY DEF Types
  <1>2. \A k \in 0 .. Len(log) : Entry(k) \in Contents
    BY <1>1, Constants DEF Entry
  <1>3. \A e \in Contents, c \in Channel : /\ e.policy[c] \in Policies
                                           /\ e.policy[c].purge \in 0 .. MaxTime
    BY DEF Contents, Policies
  <1> QED
    BY <1>1, <1>2, <1>3, BoundAssumption

\* What has happened stays: the log only grows, and a node only goes forward in it.
LEMMA Grow ==
    ASSUME Types, Types', Following, Quiet \/ Commits \/ Follows
    PROVE  /\ Len(log) <= Len(log')
           /\ \A k \in 0 .. Len(log) : NextEntry(k) = Entry(k)
           /\ \A n \in Node : state[n].rev <= state'[n].rev
           /\ log' = log \/ (~mut.held /\ Len(log') = Len(log) + 1)
  <1> USE BoundAssumption
  <1>1. Len(log) \in Nat /\ \A n \in Node : state[n].rev \in Nat
    BY EntryTypes DEF Types, States
  <1>2. CASE Quiet
    BY <1>1, <1>2 DEF Quiet, Entry, NextEntry
  <1>3. CASE Commits
    <2>1. PICK new \in Contents : Commit(new) /\ ~mut.held
      BY <1>3 DEF Commits
    <2>2. log' = Append(log, new) /\ log \in Seq(Contents)
      BY <2>1 DEF Commit, Types
    <2>3. Len(log') = Len(log) + 1 /\ \A k \in 1 .. Len(log) : log'[k] = log[k]
      BY <2>2, AppendProperties
    <2>4. \A n \in Node : state[n].rev <= state'[n].rev
      BY <1>1, <2>1 DEF Commit, Types, States
    <2> QED
      BY <1>1, <2>1, <2>3, <2>4 DEF Entry, NextEntry
  <1>4. CASE Follows
    <2>1. PICK m \in net : Receive(m) /\ log' = log
      BY <1>4 DEF Follows
    <2>2. m.to \in Node /\ m.rev \in Nat /\ (state[m.to].known => m.rev >= state[m.to].rev)
      BY <2>1 DEF Receive, Acceptable, Types, Snapshots, Node
    <2>3. m.rev >= state[m.to].rev
      BY <2>2 DEF Following
    <2>4. \A n \in Node : state[n].rev <= state'[n].rev
      BY <1>1, <2>1, <2>2, <2>3 DEF Receive, Types, States
    <2> QED
      BY <1>1, <2>1, <2>4 DEF Entry, NextEntry
  <1> QED
    BY <1>2, <1>3, <1>4

LEMMA InitFollowing == Init => Following /\ PurgesGrow
  <1> SUFFICES ASSUME Init PROVE Following /\ PurgesGrow
    OBVIOUS
  <1>1. Len(log) = 0 /\ Entry(0) = Nothing
    BY DEF Init, Entry
  <1>2. \A n \in Node : /\ state[n].rev = 0 /\ state[n].content = Nothing
                        /\ state[n].known <=> n = Owner
    BY DEF Init
  <1>3. net = {} /\ mut = NoMut /\ acked = 0
    BY DEF Init
  <1>4. Following
    BY <1>1, <1>2, <1>3 DEF Following, Node
  <1>5. \A c \in Channel : Nothing.policy[c].purge = 0
    BY DEF Nothing, NoPolicies, NoPolicy
  <1> QED
    BY <1>1, <1>4, <1>5 DEF PurgesGrow

LEMMA FollowingStep ==
    Types /\ Types' /\ Locked /\ Following /\ PurgesGrow /\ [Next]_vars => Following' /\ PurgesGrow'
  <1> SUFFICES ASSUME Types, Types', Locked, Following, PurgesGrow, [Next]_vars
               PROVE  Following' /\ PurgesGrow'
    OBVIOUS
  <1> USE NodeAssumption, BoundAssumption
  <1>1. /\ Quiet \/ Commits \/ Follows
        /\ Sent /\ MutMoves /\ Acknowledges
    BY Moves DEF Following
  <1>2. /\ Len(log) \in Nat /\ Len(log') \in Nat /\ Len(log) <= Len(log')
        /\ \A k \in 0 .. Len(log) : NextEntry(k) = Entry(k)
        /\ log' = log \/ (~mut.held /\ Len(log') = Len(log) + 1)
    BY <1>1, EntryTypes, Grow DEF Types
  <1>3. /\ state'[Owner].rev = Len(log') /\ state'[Owner].known
        /\ \A n \in Node : /\ state'[n].rev \in 0 .. Len(log')
                           /\ state'[n].content = NextEntry(state'[n].rev)
                           /\ ~state'[n].known => state'[n].rev = 0
    <2>1. CASE Quiet
      BY <1>2, <2>1 DEF Quiet, Following, Node, Entry, NextEntry
    <2>2. CASE Commits
      <3>1. PICK new \in Contents : Commit(new)
        BY <2>2 DEF Commits
      <3>2. /\ Len(log') = Len(log) + 1 /\ log'[Len(log) + 1] = new
        BY <3>1, AppendProperties DEF Commit, Types
      <3>3. /\ state'[Owner].rev = Len(log) + 1 /\ state'[Owner].content = new
            /\ state'[Owner].known = state[Owner].known
            /\ \A n \in Node \ {Owner} : state'[n] = state[n]
        <4>1. state \in [Node -> States] /\ Owner \in Node /\ state[Owner] \in States
          BY DEF Types, Node
        <4>2. /\ state'[Owner].rev = state[Owner].rev + 1 /\ state'[Owner].content = new
              /\ state'[Owner].known = state[Owner].known
              /\ \A n \in Node \ {Owner} : state'[n] = state[n]
          BY <3>1, <4>1 DEF Commit, States
        <4> QED
          BY <4>2 DEF Following
      <3>4. state'[Owner].content = NextEntry(state'[Owner].rev)
        BY <1>2, <3>2, <3>3 DEF Entry, NextEntry
      <3>5. state'[Owner].known
        BY <3>3 DEF Following
      <3> QED
        BY <1>2, <3>2, <3>3, <3>4, <3>5 DEF Following
    <2>3. CASE Follows
      <3>1. PICK m \in net : Receive(m) /\ log' = log
        BY <2>3 DEF Follows
      <3>2. m.to \in Node /\ m.to # Owner /\ m.rev \in 0 .. Len(log) /\ m.content = Entry(m.rev)
        BY DEF Types, Snapshots, Node, Following
      <3>3. \A n \in Node :
              \/ state'[n] = state[n]
              \/ /\ n = m.to /\ state'[n].rev = m.rev /\ state'[n].content = m.content
                 /\ state'[n].known
        BY <3>1, <3>2 DEF Receive, Types
      <3>4. state'[Owner] = state[Owner]
        BY <3>2, <3>3 DEF Node
      <3> QED
        BY <1>2, <3>1, <3>2, <3>3, <3>4 DEF Following
    <2> QED
      BY <1>1, <2>1, <2>2, <2>3
  <1>4. \A m \in net' : m.rev \in 0 .. Len(log') /\ m.content = NextEntry(m.rev)
    <2> SUFFICES ASSUME NEW m \in net' PROVE m.rev \in 0 .. Len(log') /\ m.content = NextEntry(m.rev)
      OBVIOUS
    <2>1. CASE \E o \in net : m.rev = o.rev /\ m.content = o.content
      BY <1>2, <2>1 DEF Following
    <2>2. CASE m.rev = state'[Owner].rev /\ m.content = state'[Owner].content
      BY <1>3, <2>2 DEF Node
    <2> QED
      BY <1>1, <2>1, <2>2 DEF Sent
  <1>5. mut' = NoMut \/ (mut'.held /\ mut'.rev = Len(log'))
    BY <1>1, <1>2, <1>3 DEF MutMoves, Following, NoMut
  <1>6. acked' \in 0 .. Len(log')
    BY <1>1, <1>2 DEF Acknowledges, Following, NoMut
  <1>7. PurgesGrow'
    <2> SUFFICES ASSUME NEW j \in 0 .. Len(log'), NEW k \in 0 .. Len(log'), j <= k, NEW c \in Channel
                 PROVE  NextEntry(j).policy[c].purge <= NextEntry(k).policy[c].purge
      BY DEF PurgesGrow, Entry, NextEntry
    <2>1. CASE k <= Len(log)
      BY <1>2, <2>1 DEF PurgesGrow
    <2>2. CASE k > Len(log)
      <3>1. Len(log') = Len(log) + 1 /\ k = Len(log) + 1
        BY <1>2, <2>2
      <3>2. Commits
        BY <1>1, <3>1 DEF Quiet, Follows
      <3>3. PICK new \in Contents : Commit(new) /\ Grows(new)
        BY <3>2 DEF Commits
      <3>4. log'[Len(log) + 1] = new
        BY <3>3, AppendProperties DEF Commit, Types
      <3>5. NextEntry(k) = new
        BY <1>2, <3>1, <3>4 DEF Entry, NextEntry
      <3>6. new.policy[c].purge >= Entry(Len(log)).policy[c].purge
        BY <3>3 DEF Grows, Following, Node
      <3>7. /\ Entry(Len(log)).policy[c].purge \in Nat /\ new.policy[c].purge \in Nat
            /\ NextEntry(k) \in Contents
        BY <1>2, <3>5, EntryTypes DEF Contents, Policies
      <3>8. CASE j = k
        BY <3>5, <3>7, <3>8
      <3>9. CASE j # k
        <4>1. j \in 0 .. Len(log) /\ Len(log) \in 0 .. Len(log)
          BY <1>2, <3>1, <3>9
        <4>2. /\ Entry(j).policy[c].purge <= Entry(Len(log)).policy[c].purge
              /\ Entry(j).policy[c].purge \in Nat /\ NextEntry(j) = Entry(j)
          BY <1>2, <4>1, EntryTypes DEF PurgesGrow
        <4> QED
          BY <3>5, <3>6, <3>7, <4>2
      <3> QED
        BY <3>8, <3>9
    <2> QED
      BY <1>2, <2>1, <2>2
  <1> QED
    BY <1>3, <1>4, <1>5, <1>6, <1>7 DEF Following, Entry, NextEntry


-----------------------------------------------------------------------------
(* The tasks.  What a step can do to a task: end it, turn its push into a   *)
(* late one, tick a channel off its list, list the policies it will apply,  *)
(* or take a request one handler's step on.                                 *)

SameRequest(t) ==
    /\ task'[t].kind = task[t].kind /\ task'[t].home = task[t].home
    /\ task'[t].chan = task[t].chan /\ task'[t].since = task[t].since
GivesUp(t) ==
    /\ t \in Mirror /\ task[t].kind = "push"
    /\ task'[t] = [task[t] EXCEPT !.kind = "late"]

\* The policy of a channel is the one in force, or it was before.
Done(t, c) ==
    LET n == task[t].node
        p == task[t].policies[c]
    IN \/ mem'[n][c] = p
       \/ mem'[n][c] = Prev(n, c) /\ applied' = applied /\ (p = Prev(n, c) \/ p.purge = 0)
TicksOff(t) ==
    /\ task[t].step = "apply"
    /\ \E c \in task[t].todo : Done(t, c) /\ task'[t] = [task[t] EXCEPT !.todo = @ \ {c}]
Synchronizes(t) ==
    /\ t \in Node /\ task[t] = NoTask
    /\ task'[t].step = "apply" /\ task'[t].node = t /\ task'[t].todo = Channel
    /\ task'[t].policies = state'[t].content.policy
    /\ task'[t].kind = "push" => \E m \in net : m.to = t /\ m.kind = "push" /\ Receive(m)
Lists(t) ==
    /\ t \in Request /\ task[t].step = "list" /\ task'[t].step = "apply"
    /\ SameRequest(t) /\ task'[t].node = task[t].node /\ state' = state
    /\ task'[t].policies = state[task[t].node].content.policy
    /\ task'[t].todo = IF task[t].node = task[t].home THEN {task[t].chan} ELSE Channel
Comes(t) ==
    /\ t \in Request /\ task[t] = NoTask
    /\ task'[t].step = IF task'[t].kind = "read" THEN "list" ELSE "mutate"
    /\ task'[t].kind = "read" => task'[t].since = acked
Changed(t) ==
    /\ t \in Request /\ SameRequest(t) /\ task[t].kind # "read"
    /\ task[t].step = "mutate" /\ task'[t].step \in {"direct", "list"}
    /\ mut.by = t /\ mut.held /\ mut.waiting = {} /\ ~mut.failed
GoesOn(t) ==
    /\ t \in Request /\ SameRequest(t) /\ task[t].kind # "read"
    /\ task[t].step \in {"direct", "apply"} /\ task'[t].step \in {"direct", "list"}
Serves(t) ==
    /\ t \in Request /\ task[t].kind = "read" /\ task[t].step = "apply" /\ task[t].todo = {}
    /\ task'[t] = [task[t] EXCEPT !.step = "serve"]

TaskMoved(t) ==
    \/ task'[t] = task[t] \/ task'[t] = NoTask \/ GivesUp(t) \/ TicksOff(t)
    \/ Synchronizes(t) \/ Lists(t) \/ Comes(t) \/ Changed(t) \/ GoesOn(t) \/ Serves(t)

LEMMA StateTypes ==
    ASSUME Types, NEW n \in Node
    PROVE  state[n].content.policy \in [Channel -> Policies]
  BY DEF Types, States, Contents

LEMMA TaskMoves ==
    ASSUME Types, Types', Locked, [Next]_vars, NEW t \in Task
    PROVE  TaskMoved(t)
  <1> USE NodeAssumption
  <1>1. ASSUME UNCHANGED task PROVE TaskMoved(t)
    BY <1>1 DEF TaskMoved
  <1>2. ASSUME NEW u \in Task, NEW w, task' = [task EXCEPT ![u] = w]
        PROVE  task'[u] = w /\ (TaskMoved(u) => TaskMoved(t))
    <2>1. task'[u] = w /\ (t # u => task'[t] = task[t])
      BY <1>2 DEF Types, TaskTypes
    <2> QED
      BY <2>1 DEF TaskMoved
  <1>3. ASSUME NEW u \in Task, task' = [task EXCEPT ![u] = NoTask] PROVE TaskMoved(t)
    BY <1>2, <1>3 DEF TaskMoved
  <1>4. ASSUME NEW rs \in SUBSET Mirror, task'[t] = LateTask(rs)[t] PROVE TaskMoved(t)
    BY <1>4, LateTypes DEF TaskMoved, GivesUp
  <1>5. ASSUME NEW q \in Request, ChangeFor(q) PROVE TaskMoved(t)
    <2>1. \E new, by : Mutate(new, by)
      BY <1>5 DEF ChangeFor
    <2> QED
      BY <1>1, <2>1 DEF Mutate
  <1>6. ASSUME \/ \E c \in Channel : PinRefused(c) \/ \E pin \in BOOLEAN : Pin(c, pin)
               \/ \E pins \in SUBSET Channel : ReplacePins(pins)
               \/ \E u \in Token : SaveAuth(u) \/ Revoke(u)
        PROVE  TaskMoved(t)
    BY <1>1, <1>6 DEF PinRefused, Pin, ReplacePins, SaveAuth, Revoke, Mutate
  <1>7. ASSUME OwnerPush PROVE TaskMoved(t)
    BY <1>3, <1>7 DEF OwnerPush, Task, Node
  <1>8. ASSUME DropChange PROVE TaskMoved(t)
    <2>1. task'[t] = LateTask(Mirror)[t]
      BY <1>8 DEF DropChange
    <2> QED
      BY <1>4, <2>1
  <1>9. ASSUME NEW r \in Mirror, PushFails(r) PROVE TaskMoved(t)
    <2>1. task'[t] = LateTask({r})[t]
      BY <1>9 DEF PushFails
    <2> QED
      BY <1>4, <2>1
  <1>10. ASSUME PushDone PROVE TaskMoved(t)
    <2>1. CASE mut.by = None
      BY <1>1, <1>10, <2>1 DEF PushDone
    <2>2. CASE mut.by # None
      <3> DEFINE q == mut.by
      <3>1. q \in Request /\ q \in Task /\ task[q] \in Tasks /\ task[q].step = "mutate"
            /\ TaskOf(q, task[q]) /\ q \notin Node
        BY <2>2 DEF Types, Changes, Task, TaskTypes, Node
      <3>2. RequestTask(task[q]) /\ task[q].kind # "read"
        BY <3>1 DEF TaskOf, NoTask, RequestTask
      <3>3. CASE mut.failed
        <4>1. task' = [task EXCEPT ![q] = NoTask]
          BY <1>10, <2>2, <3>3, Zenon DEF PushDone
        <4> QED
          BY <1>3, <3>1, <4>1
      <3>4. CASE ~mut.failed
        <4>1. PICK w : /\ task' = [task EXCEPT ![q] = w]
                       /\ \/ w = [task[q] EXCEPT !.step = "direct"]
                          \/ w = [task[q] EXCEPT !.step = "list", !.node = Owner]
          <5>1. CASE task[q].home = Owner
            BY <1>10, <2>2, <3>1, <3>4, <5>1 DEF PushDone, Types, TaskTypes
          <5>2. CASE task[q].home # Owner
            BY <1>10, <2>2, <3>1, <3>4, <5>2 DEF PushDone, Types, TaskTypes
          <5> QED
            BY <5>1, <5>2
        <4>2. /\ w.kind = task[q].kind /\ w.home = task[q].home /\ w.chan = task[q].chan
              /\ w.since = task[q].since /\ w.step \in {"direct", "list"}
          BY <3>1, <4>1 DEF Tasks
        <4>3. task'[q] = w
          BY <1>2, <3>1, <4>1
        <4>4. Changed(q)
          BY <1>10, <3>1, <3>2, <3>4, <4>2, <4>3 DEF Changed, SameRequest, PushDone
        <4> QED
          BY <1>2, <3>1, <4>1, <4>4 DEF TaskMoved
      <3> QED
        BY <3>3, <3>4
    <2> QED
      BY <2>1, <2>2
  <1>11. ASSUME OwnerSync PROVE TaskMoved(t)
    <2> DEFINE w == Synchronize(Owner, "sync", state[Owner].content.policy)
    <2>1. Owner \in Task /\ Owner \in Node /\ state[Owner].content.policy \in [Channel -> Policies]
          /\ task[Owner] = NoTask /\ state' = state
      BY <1>11, StateTypes, IdleTask DEF OwnerSync, Task, Node
    <2>2. /\ w.step = "apply" /\ w.node = Owner /\ w.todo = Channel
          /\ w.policies = state'[Owner].content.policy /\ w.kind = "sync"
      BY <2>1, SynchronizeTypes
    <2>3. task' = [task EXCEPT ![Owner] = w]
      BY <1>11 DEF OwnerSync
    <2> HIDE DEF w
    <2>4. Synchronizes(Owner)
      BY <1>2, <2>1, <2>2, <2>3 DEF Synchronizes
    <2> QED
      BY <1>2, <2>1, <2>3, <2>4 DEF TaskMoved
  <1>12. ASSUME \/ \E r \in Mirror : Pull(r)
                \/ \E m \in net : Lose(m) \/ Refuse(m)
         PROVE  TaskMoved(t)
    BY <1>1, <1>12 DEF Pull, Lose, Refuse
  <1>13. ASSUME NEW r \in Mirror, DropAccept(r) \/ Accepted(r) PROVE TaskMoved(t)
    BY <1>3, <1>13 DEF DropAccept, Accepted, Task, Node
  <1>14. ASSUME NEW m \in net, Receive(m) PROVE TaskMoved(t)
    <2> DEFINE r == m.to
               w == Synchronize(r, m.kind, state'[r].content.policy)
    <2>1. /\ r \in Mirror /\ r \in Node /\ r \in Task /\ r # Owner
          /\ m.kind \in {"push", "late", "pull"}
      BY DEF Types, Snapshots, Task, Node
    <2>2. state'[r].content.policy \in [Channel -> Policies] /\ task[r] = NoTask
      BY <1>14, <2>1, StateTypes, IdleTask DEF Types, States, Contents, Receive
    <2>3. /\ w.step = "apply" /\ w.node = r /\ w.todo = Channel
          /\ w.policies = state'[r].content.policy /\ w.kind = m.kind
      BY <2>1, <2>2, SynchronizeTypes
    <2>4. task' = [task EXCEPT ![r] = w]
      BY <1>14 DEF Receive
    <2> HIDE DEF w
    <2>5. Synchronizes(r)
      BY <1>2, <1>14, <2>1, <2>2, <2>3, <2>4 DEF Synchronizes
    <2> QED
      BY <1>2, <2>1, <2>4, <2>5 DEF TaskMoved
  <1>15. ASSUME NEW u \in Task, List(u) PROVE TaskMoved(t)
    <2> DEFINE w == [task[u] EXCEPT !.step = "apply",
                        !.policies = state[task[u].node].content.policy,
                        !.todo = IF u \in Request /\ task[u].node = task[u].home
                                 THEN {task[u].chan} ELSE Channel]
    <2>1. /\ task' = [task EXCEPT ![u] = w] /\ task[u] \in Tasks /\ state' = state
          /\ task[u].step = "list" /\ TaskOf(u, task[u])
      BY <1>15 DEF List, Types, TaskTypes
    <2>2. u \in Request
      BY <2>1 DEF TaskOf, NodeTask, NoTask
    <2>3. /\ w.kind = task[u].kind /\ w.home = task[u].home /\ w.chan = task[u].chan
          /\ w.since = task[u].since /\ w.step = "apply" /\ w.node = task[u].node
          /\ w.policies = state[task[u].node].content.policy
          /\ w.todo = IF task[u].node = task[u].home THEN {task[u].chan} ELSE Channel
      BY <2>1, <2>2 DEF Tasks
    <2> HIDE DEF w
    <2>4. Lists(u)
      BY <1>2, <2>1, <2>2, <2>3 DEF Lists, SameRequest
    <2> QED
      BY <1>2, <2>1, <2>4 DEF TaskMoved
  <1>16. ASSUME NEW u \in Task, NEW c \in Channel, ApplyRefused(u, c) PROVE TaskMoved(t)
    BY <1>3, <1>16 DEF ApplyRefused
  <1>17. ASSUME NEW u \in Task, NEW c \in task[u].todo, Done(u, c), task[u].step = "apply",
                task' = [task EXCEPT ![u] = [task[u] EXCEPT !.todo = @ \ {c}]]
         PROVE  TaskMoved(t)
    <2> DEFINE w == [task[u] EXCEPT !.todo = @ \ {c}]
    <2>1. task'[u] = w
      BY <1>2, <1>17
    <2>2. TicksOff(u)
      BY <1>17, <2>1 DEF TicksOff
    <2> QED
      BY <1>2, <1>17, <2>2 DEF TaskMoved
  <1>18. ASSUME NEW u \in Task, NEW c \in Channel, ApplyNothing(u, c) PROVE TaskMoved(t)
    <2>1. /\ c \in task[u].todo /\ task[u].step = "apply" /\ task[u].node \in Node
          /\ mem'[task[u].node][c] = Prev(task[u].node, c) /\ applied' = applied
      BY <1>18, ApplyTypes DEF ApplyNothing, Applying, Types, store
    <2>2. Done(u, c)
      BY <1>18, <2>1 DEF ApplyNothing, Done, NoPolicy
    <2>3. task' = [task EXCEPT ![u] = [task[u] EXCEPT !.todo = @ \ {c}]]
      BY <1>18, <2>1 DEF ApplyNothing, Types, TaskTypes
    <2> QED
      BY <1>17, <2>1, <2>2, <2>3
  <1>19. ASSUME NEW n \in Node, ApplyInsert(n) PROVE TaskMoved(t)
    <2> DEFINE u == lock[n].by
               c == lock[n].chan
    <2>1. /\ u \in Task /\ task[u].step = "apply" /\ task[u].node = n /\ c \in task[u].todo
          /\ c \in Channel
      BY <1>19, HolderTypes DEF ApplyInsert, ApplyAt
    <2>2. Done(u, c)
      BY <1>19, <2>1 DEF ApplyInsert, Done, Held, Types
    <2>3. task' = [task EXCEPT ![u] = [task[u] EXCEPT !.todo = @ \ {c}]]
      BY <1>19, <2>1 DEF ApplyInsert, Types, TaskTypes
    <2> HIDE DEF u, c
    <2> QED
      BY <1>17, <2>1, <2>2, <2>3
  <1>20. ASSUME \/ \E u \in Task, c \in Channel : ApplyStart(u, c)
                \/ \E n \in Node : ApplyPurge(n) \/ ApplyPersist(n)
         PROVE  TaskMoved(t)
    BY <1>1, <1>20 DEF ApplyStart, ApplyPurge, ApplyPersist
  <1>21. ASSUME NEW q \in Request, NEW n \in Node, NEW c \in Channel,
                NEW kind \in Kinds \ {"pin"}, Begin(q, n, kind, c)
         PROVE  TaskMoved(t)
    <2>1. q \in Task /\ task[q] = NoTask
      BY <1>21, IdleTask DEF Begin, Task
    <2>2. CASE kind = "read"
      <3> DEFINE w == [Start(n, kind) EXCEPT !.chan = c, !.since = acked]
      <3>1. w.kind = "read" /\ w.step = "list" /\ w.since = acked
        BY <2>2 DEF Start, NoTask
      <3>2. task' = [task EXCEPT ![q] = w]
        BY <1>21, <2>2 DEF Begin
      <3> HIDE DEF w
      <3>3. Comes(q)
        BY <1>2, <2>1, <3>1, <3>2 DEF Comes
      <3> QED
        BY <1>2, <2>1, <3>2, <3>3 DEF TaskMoved
    <2>3. CASE kind # "read"
      <3>1. PICK at : \/ task' = [task EXCEPT ![q] =
                              [Start(n, kind) EXCEPT !.chan = c, !.step = "mutate", !.at = at]]
                      \/ task' = [task EXCEPT ![q] =
                              [Start(n, kind) EXCEPT !.chan = c, !.step = "mutate"]]
        BY <1>21, <2>3 DEF Begin
      <3> DEFINE timed == [Start(n, kind) EXCEPT !.chan = c, !.step = "mutate", !.at = at]
                 other == [Start(n, kind) EXCEPT !.chan = c, !.step = "mutate"]
      <3>2. /\ timed.kind = kind /\ timed.step = "mutate"
            /\ other.kind = kind /\ other.step = "mutate"
        BY DEF Start, NoTask
      <3> HIDE DEF timed, other
      <3>3. task' = [task EXCEPT ![q] = timed] \/ task' = [task EXCEPT ![q] = other]
        BY <3>1 DEF timed, other
      <3>4. PICK w : task' = [task EXCEPT ![q] = w] /\ w.kind # "read" /\ w.step = "mutate"
        BY <2>3, <3>2, <3>3
      <3>5. Comes(q)
        BY <1>2, <2>1, <3>4 DEF Comes
      <3> QED
        BY <1>2, <2>1, <3>4, <3>5 DEF TaskMoved
    <2> QED
      BY <2>2, <2>3
  <1>22. ASSUME NEW q \in Request
         PROVE  q \in Task /\ task[q] \in Tasks /\ (task[q] # NoTask => RequestTask(task[q]))
    <2>1. TaskOf(q, task[q]) /\ q \notin Node
      BY DEF Types, TaskTypes, Task, Node
    <2> QED
      BY <2>1 DEF TaskOf, Task
  <1>23. ASSUME NEW q \in Request, Direct(q) PROVE TaskMoved(t)
    <2> DEFINE w == [task[q] EXCEPT !.step = "list", !.node = task[q].home]
    <2>1. task[q].step = "direct" /\ task[q] # NoTask /\ q \in Task
      BY <1>22, <1>23 DEF Direct, NoTask
    <2>2. task' = [task EXCEPT ![q] = w] /\ task[q].step = "direct" /\ task[q] # NoTask
      BY <1>23, <2>1 DEF Direct, Types, TaskTypes
    <2>3. /\ w.kind = task[q].kind /\ w.home = task[q].home /\ w.chan = task[q].chan
          /\ w.since = task[q].since /\ w.step = "list" /\ task[q].kind # "read"
      BY <1>22, <2>2 DEF Tasks, RequestTask
    <2> HIDE DEF w
    <2>4. GoesOn(q)
      BY <1>2, <1>22, <2>2, <2>3 DEF GoesOn, SameRequest
    <2> QED
      BY <1>2, <1>22, <2>2, <2>4 DEF TaskMoved
  <1>24. ASSUME NEW q \in Request, RequestApplied(q) PROVE TaskMoved(t)
    <2>1. /\ task[q].step = "apply" /\ task[q].todo = {} /\ task[q] # NoTask
      BY <1>24 DEF RequestApplied, Applied, NoTask
    <2>2. task[q] \in Tasks /\ RequestTask(task[q]) /\ q \in Task
      BY <1>22, <2>1
    <2>3. CASE task[q].node # task[q].home
      <3> DEFINE w == [task[q] EXCEPT !.step = "direct", !.node = task[q].home]
      <3>1. task' = [task EXCEPT ![q] = w]
        BY <1>24, <2>2, <2>3 DEF RequestApplied, Types, TaskTypes
      <3>2. /\ w.kind = task[q].kind /\ w.home = task[q].home /\ w.chan = task[q].chan
            /\ w.since = task[q].since /\ w.step = "direct" /\ task[q].kind # "read"
        BY <2>2, <2>3 DEF Tasks, RequestTask
      <3> HIDE DEF w
      <3>3. GoesOn(q)
        BY <1>2, <2>1, <2>2, <3>1, <3>2 DEF GoesOn, SameRequest
      <3> QED
        BY <1>2, <2>2, <3>1, <3>3 DEF TaskMoved
    <2>4. CASE /\ task[q].node = task[q].home /\ task[q].kind = "read"
               /\ ~task[q].policies[task[q].chan].ignored
      <3> DEFINE w == [task[q] EXCEPT !.step = "serve"]
      <3>1. task' = [task EXCEPT ![q] = w]
        BY <1>24, <2>2, <2>4 DEF RequestApplied, Types, TaskTypes
      <3>2. Serves(q)
        BY <1>2, <2>1, <2>2, <2>4, <3>1 DEF Serves
      <3> QED
        BY <1>2, <2>2, <3>1, <3>2 DEF TaskMoved
    <2>5. CASE /\ task[q].node = task[q].home
               /\ ~(task[q].kind = "read" /\ ~task[q].policies[task[q].chan].ignored)
      <3>1. task' = [task EXCEPT ![q] = NoTask]
        BY <1>24, <2>2, <2>5 DEF RequestApplied, Types, TaskTypes
      <3> QED
        BY <1>3, <2>2, <3>1
    <2> QED
      BY <2>3, <2>4, <2>5
  <1>25. ASSUME NEW q \in Request, DropRequest(q) PROVE TaskMoved(t)
    <2>1. CASE task' = [task EXCEPT ![q] = NoTask]
      BY <1>3, <2>1 DEF Task
    <2>2. CASE task' = [LateTask(Mirror) EXCEPT ![q] = NoTask]
      <3>1. task'[t] = IF t = q THEN NoTask ELSE LateTask(Mirror)[t]
        BY <2>2, LateTypes
      <3> QED
        BY <1>4, <3>1 DEF TaskMoved
    <2> QED
      BY <1>25, <2>1, <2>2 DEF DropRequest
  <1>26. ASSUME NEW n \in Node, Boot(n) PROVE TaskMoved(t)
    <2> DEFINE w == Synchronize(n, "boot", state[n].content.policy)
    <2>1. /\ n \in Task /\ state[n].content.policy \in [Channel -> Policies] /\ state' = state
          /\ task[n] = NoTask
      BY <1>26, StateTypes DEF Boot, Task, Locked
    <2>2. /\ w.step = "apply" /\ w.node = n /\ w.todo = Channel
          /\ w.policies = state'[n].content.policy /\ w.kind = "boot"
      BY <2>1, SynchronizeTypes
    <2>3. task' = task \/ task' = [task EXCEPT ![n] = w]
      BY <1>26 DEF Boot
    <2> HIDE DEF w
    <2>4. ASSUME task' = [task EXCEPT ![n] = w] PROVE Synchronizes(n)
      BY <1>2, <2>1, <2>2, <2>4 DEF Synchronizes
    <2> QED
      BY <1>1, <1>2, <2>1, <2>3, <2>4 DEF TaskMoved
  <1>27. ASSUME NEW n \in Node, Booted(n) PROVE TaskMoved(t)
    BY <1>3, <1>27 DEF Booted, Task
  <1>28. ASSUME NEW n \in Node, Crash(n) PROVE TaskMoved(t)
    <2>1. task'[t] = NoTask \/ task'[t] = task[t] \/ task'[t] = LateTask(Mirror)[t]
      BY <1>28 DEF Crash
    <2> QED
      BY <1>4, <2>1 DEF TaskMoved
  <1>29. ASSUME UNCHANGED vars PROVE TaskMoved(t)
    BY <1>1, <1>29 DEF vars
  <1> QED
    BY <1>5, <1>6, <1>7, <1>8, <1>9, <1>10, <1>11, <1>12, <1>13, <1>14, <1>15, <1>16,
       <1>18, <1>19, <1>20, <1>21, <1>23, <1>24, <1>25, <1>26, <1>27, <1>28, <1>29
    DEF Next, Change, Replicate, Deliver, Apply, ApplyStep, Serve

-----------------------------------------------------------------------------
(* The nodes.  What a step can do to a node's store, to its AppliedPolicies *)
(* and to their mutex.                                                      *)

SameStore(n) ==
    applied'[n] = applied[n] /\ blocked'[n] = blocked[n] /\ cutoff'[n] = cutoff[n]
StaysUp(n) == up'[n] # "down" => up[n] # "down"
Rests(n) ==
    SameStore(n) /\ mem'[n] = mem[n] /\ lock'[n] \in {lock[n], Free} /\ StaysUp(n)
Halts(n) ==
    /\ SameStore(n) /\ mem'[n] = [c \in Channel |-> None] /\ lock'[n] = Free
    /\ up'[n] = "down"
Recalls(n) ==
    /\ SameStore(n) /\ lock[n] = Free /\ lock'[n] = Free /\ StaysUp(n)
    /\ \E c \in Channel : mem'[n] = [mem[n] EXCEPT ![c] = Prev(n, c)]

NodeMoved(n) ==
    \/ Rests(n) \/ Halts(n) \/ Recalls(n)
    \/ \E t \in Task, c \in Channel : task[t].node = n /\ ApplyStart(t, c)
    \/ ApplyPurge(n) \/ ApplyPersist(n) \/ ApplyInsert(n)
    \/ \E q \in Request : task[q].home = n /\ Direct(q)
    \/ Boot(n)

LEMMA NodeMoves ==
    ASSUME Types, Locked, [Next]_vars, NEW n \in Node
    PROVE  NodeMoved(n)
  <1> USE NodeAssumption
  <1>1. ASSUME UNCHANGED <<store, mem, lock, up>> PROVE NodeMoved(n)
    BY <1>1 DEF NodeMoved, Rests, SameStore, StaysUp, store
  <1>2. ASSUME NEW q \in Request, ChangeFor(q) PROVE NodeMoved(n)
    <2>1. \E new, by : Mutate(new, by)
      BY <1>2 DEF ChangeFor
    <2> QED
      BY <1>1, <2>1 DEF Mutate
  <1>3. ASSUME Change PROVE NodeMoved(n)
    <2>1. UNCHANGED <<store, mem, lock, up>> \/ \E q \in Request : ChangeFor(q)
      BY <1>3 DEF Change, PinRefused, Pin, ReplacePins, SaveAuth, Revoke, Mutate, OwnerPush,
                  PushDone, DropChange
    <2> QED
      BY <1>1, <1>2, <2>1
  <1>4. ASSUME UNCHANGED <<store, mem, up>>, NEW t, lock' = Release(t) PROVE NodeMoved(n)
    BY <1>4 DEF NodeMoved, Rests, SameStore, StaysUp, store, Release
  <1>5. ASSUME NEW r \in Mirror, Replicate(r) PROVE NodeMoved(n)
    <2>1. UNCHANGED <<store, mem, lock, up>> \/ DropAccept(r)
      BY <1>5 DEF Replicate, PushFails, Pull, Accepted
    <2> QED
      BY <1>1, <1>4, <2>1 DEF DropAccept
  <1>6. ASSUME OwnerSync \/ \E m \in net : Deliver(m) PROVE NodeMoved(n)
    BY <1>1, <1>6 DEF OwnerSync, Deliver, Lose, Refuse, Receive
  <1>7. ASSUME NEW t \in Task, List(t) PROVE NodeMoved(n)
    BY <1>1, <1>7 DEF List
  <1>8. ASSUME NEW t \in Task, NEW c \in Channel, ApplyNothing(t, c) \/ ApplyRefused(t, c)
        PROVE  NodeMoved(n)
    <2> DEFINE m == task[t].node
    <2>1. /\ m \in Node /\ lock[m] = Free /\ lock' = lock /\ UNCHANGED store
          /\ mem' = [mem EXCEPT ![m][c] = Prev(m, c)]
          /\ up' = up \/ up' = [up EXCEPT ![m] = "down"]
      BY <1>8, ApplyTypes DEF ApplyNothing, ApplyRefused, Applying
    <2>2. StaysUp(n)
      BY <2>1 DEF StaysUp, Types
    <2>3. CASE n = m
      <3>1. mem'[n] = [mem[n] EXCEPT ![c] = Prev(n, c)]
        BY <2>1, <2>3 DEF Types
      <3>2. Recalls(n)
        BY <2>1, <2>2, <2>3, <3>1 DEF Recalls, SameStore, store
      <3> QED
        BY <3>2 DEF NodeMoved
    <2>4. CASE n # m
      <3>1. Rests(n)
        BY <2>1, <2>2, <2>4 DEF Rests, SameStore, store, Types
      <3> QED
        BY <3>1 DEF NodeMoved
    <2> QED
      BY <2>3, <2>4
  <1>9. ASSUME NEW t \in Task, NEW c \in Channel, ApplyStart(t, c) PROVE NodeMoved(n)
    <2>1. CASE task[t].node = n
      BY <1>9, <2>1 DEF NodeMoved
    <2>2. CASE task[t].node # n
      <3>1. Rests(n)
        BY <1>9, <2>2 DEF ApplyStart, Rests, SameStore, StaysUp, Types
      <3> QED
        BY <3>1 DEF NodeMoved
    <2> QED
      BY <2>1, <2>2
  <1>10. ASSUME NEW t \in Task, Apply(t) PROVE NodeMoved(n)
    BY <1>7, <1>8, <1>9, <1>10 DEF Apply
  <1>11. ASSUME NEW m \in Node, ApplyStep(m) PROVE NodeMoved(n)
    <2>1. CASE m = n
      BY <1>11, <2>1 DEF ApplyStep, NodeMoved
    <2>2. CASE m # n
      <3>1. Rests(n)
        BY <1>11, <2>2
        DEF ApplyStep, ApplyPurge, ApplyPersist, ApplyInsert, Rests, SameStore, StaysUp, Types, store
      <3> QED
        BY <3>1 DEF NodeMoved
    <2> QED
      BY <2>1, <2>2
  <1>12. ASSUME NEW q \in Request, Direct(q) PROVE NodeMoved(n)
    <2>1. CASE task[q].home = n
      BY <1>12, <2>1 DEF NodeMoved
    <2>2. CASE task[q].home # n
      <3>1. Rests(n)
        BY <1>12, <2>2 DEF Direct, Rests, SameStore, StaysUp, Types
      <3> QED
        BY <3>1 DEF NodeMoved
    <2> QED
      BY <2>1, <2>2
  <1>13. ASSUME NEW q \in Request, Serve(q) PROVE NodeMoved(n)
    <2>1. \/ UNCHANGED <<store, mem, lock, up>> \/ Direct(q)
          \/ UNCHANGED <<store, mem, up>> /\ lock' = Release(q)
      BY <1>13 DEF Serve, Begin, RequestApplied, DropRequest
    <2> QED
      BY <1>1, <1>4, <1>12, <2>1
  <1>14. ASSUME NEW m \in Node, Boot(m) PROVE NodeMoved(n)
    <2>1. CASE m = n
      BY <1>14, <2>1 DEF NodeMoved
    <2>2. CASE m # n
      <3>1. Rests(n)
        BY <1>14, <2>2 DEF Boot, Rests, SameStore, StaysUp, Types
      <3> QED
        BY <3>1 DEF NodeMoved
    <2> QED
      BY <2>1, <2>2
  <1>15. ASSUME NEW m \in Node, Booted(m) PROVE NodeMoved(n)
    <2>1. up[m] # "down"
      BY <1>15 DEF Booted, Applied, Locked, NoTask
    <2>2. StaysUp(n)
      BY <1>15, <2>1 DEF Booted, StaysUp, Types
    <2> QED
      BY <1>15, <2>2 DEF Booted, NodeMoved, Rests, SameStore, store
  <1>16. ASSUME NEW m \in Node, Crash(m) PROVE NodeMoved(n)
    <2>1. UNCHANGED store /\ up[m] # "down" /\ up' = [up EXCEPT ![m] = "down"]
      BY <1>16 DEF Crash
    <2>2. CASE m = n
      <3>1. Halts(n)
        BY <1>16, <2>1, <2>2 DEF Crash, Halts, SameStore, Types, store
      <3> QED
        BY <3>1 DEF NodeMoved
    <2>3. CASE m # n
      <3>1. mem'[n] = mem[n] /\ lock'[n] \in {lock[n], Free}
        BY <1>16, <2>3 DEF Crash, Types
      <3>2. Rests(n)
        BY <2>1, <2>3, <3>1 DEF Rests, SameStore, StaysUp, Types, store
      <3> QED
        BY <3>2 DEF NodeMoved
    <2> QED
      BY <2>2, <2>3
  <1>17. ASSUME UNCHANGED vars PROVE NodeMoved(n)
    BY <1>1, <1>17 DEF vars
  <1> QED
    BY <1>3, <1>5, <1>6, <1>10, <1>11, <1>13, <1>14, <1>15, <1>16, <1>17 DEF Next

-----------------------------------------------------------------------------
(* What is applied.  A task applies what its node's state was when it was   *)
(* listed, and a store has what a task applied: entries the node has passed. *)

Seen(n, c, p) == \E k \in 0 .. state[n].rev : p = Entry(k).policy[c]
SeenNext(n, c, p) == \E k \in 0 .. state'[n].rev : p = NextEntry(k).policy[c]

Reads ==
    /\ \A t \in Task : task[t].step \in {"apply", "serve"} =>
          \A c \in Channel : Seen(task[t].node, c, task[t].policies[c])
    /\ \A n \in Node, c \in Channel :
          /\ applied[n][c] # None => Seen(n, c, applied[n][c])
          /\ mem[n][c] # None => Seen(n, c, mem[n][c])

OneLog == Types /\ Locked /\ Following /\ PurgesGrow

LEMMA FollowingInductive == OneLog /\ [Next]_vars => OneLog'
  BY TypesStep, LockedStep, FollowingStep DEF OneLog

LEMMA Forward ==
    ASSUME OneLog, [Next]_vars
    PROVE  /\ Len(log) \in Nat /\ Len(log') \in Nat /\ Len(log) <= Len(log')
           /\ \A k \in 0 .. Len(log) : NextEntry(k) = Entry(k)
           /\ \A n \in Node : /\ state[n].rev \in 0 .. Len(log) /\ state'[n].rev \in 0 .. Len(log')
                              /\ state[n].rev <= state'[n].rev
                              /\ state[n].content = Entry(state[n].rev)
                              /\ state'[n].content = NextEntry(state'[n].rev)
  <1>1. Types' /\ Locked' /\ Following'
    BY FollowingInductive DEF OneLog
  <1>2. mut.held \/ mut = NoMut
    BY DEF OneLog, Following
  <1>3. Quiet \/ Commits \/ Follows
    BY <1>1, <1>2, Moves DEF OneLog
  <1>4. /\ Len(log) <= Len(log')
        /\ \A k \in 0 .. Len(log) : NextEntry(k) = Entry(k)
        /\ \A n \in Node : state[n].rev <= state'[n].rev
    BY <1>1, <1>3, Grow DEF OneLog
  <1>5. Len(log) \in Nat /\ Len(log') \in Nat
    BY <1>1 DEF OneLog, Types
  <1>6. \A n \in Node : /\ state[n].rev \in 0 .. Len(log) /\ state'[n].rev \in 0 .. Len(log')
                        /\ state[n].content = Entry(state[n].rev)
                        /\ state'[n].content = NextEntry(state'[n].rev)
    BY <1>1 DEF OneLog, Following, Entry, NextEntry
  <1> QED
    BY <1>4, <1>5, <1>6

\* What a node has seen it has seen for good.
LEMMA SeenGrows ==
    ASSUME OneLog, [Next]_vars, NEW n \in Node, NEW c, NEW p, Seen(n, c, p)
    PROVE  SeenNext(n, c, p)
  <1>1. PICK k \in 0 .. state[n].rev : p = Entry(k).policy[c]
    BY DEF Seen
  <1>2. k \in 0 .. Len(log) /\ k \in 0 .. state'[n].rev
    BY Forward
  <1>3. p = NextEntry(k).policy[c]
    BY <1>1, <1>2, Forward
  <1> QED
    BY <1>2, <1>3 DEF SeenNext

\* A node's state is what it has seen last.
LEMMA SeenLast ==
    ASSUME OneLog, [Next]_vars, NEW n \in Node, NEW c
    PROVE  SeenNext(n, c, state'[n].content.policy[c])
  <1>1. state'[n].rev \in 0 .. state'[n].rev
    BY Forward
  <1> QED
    BY <1>1, Forward DEF SeenNext

\* A task that applies, or serves what it read, has gone on or has just listed it.
KeepsOn(t) ==
    /\ task'[t].step = task[t].step \/ Serves(t)
    /\ task'[t].node = task[t].node /\ task'[t].policies = task[t].policies
    /\ t \in Request => SameRequest(t)
    /\ task'[t].todo \subseteq task[t].todo
    /\ \A c \in task[t].todo \ task'[t].todo : Done(t, c)

LEMMA TaskKeeps ==
    ASSUME Types, NEW t \in Task, TaskMoved(t), task'[t].step \in {"apply", "serve"}
    PROVE  KeepsOn(t) \/ Synchronizes(t) \/ Lists(t)
  <1>1. task[t] \in Tasks
    BY DEF Types, TaskTypes
  <1>2. CASE task'[t] = task[t]
    BY <1>2 DEF KeepsOn, SameRequest
  <1>3. CASE GivesUp(t)
    <2>1. t \notin Request
      BY <1>3, NodeAssumption DEF GivesUp
    <2> QED
      BY <1>1, <1>3, <2>1 DEF GivesUp, KeepsOn, Tasks
  <1>4. CASE TicksOff(t)
    <2>1. PICK c \in task[t].todo : Done(t, c) /\ task'[t] = [task[t] EXCEPT !.todo = @ \ {c}]
      BY <1>4 DEF TicksOff
    <2>2. /\ task'[t].step = task[t].step /\ task'[t].node = task[t].node
          /\ task'[t].policies = task[t].policies /\ SameRequest(t)
          /\ task'[t].todo = task[t].todo \ {c}
      BY <1>1, <2>1 DEF Tasks, SameRequest
    <2> QED
      BY <2>1, <2>2 DEF KeepsOn
  <1>5. CASE Serves(t)
    <2>1. /\ task'[t].node = task[t].node /\ task'[t].policies = task[t].policies
          /\ SameRequest(t) /\ task'[t].todo = task[t].todo /\ task[t].todo = {}
      BY <1>1, <1>5 DEF Tasks, Serves, SameRequest
    <2> QED
      BY <1>5, <2>1 DEF KeepsOn
  <1>6. ~(task'[t] = NoTask \/ Comes(t) \/ Changed(t) \/ GoesOn(t))
    BY DEF NoTask, Comes, Changed, GoesOn
  <1> QED
    BY <1>2, <1>3, <1>4, <1>5, <1>6 DEF TaskMoved

\* What a step leaves as applied was so before, or the holder of the mutex applies it.
LEMMA StoreMoves ==
    ASSUME Types, Locked, NEW n \in Node, NEW c \in Channel, NodeMoved(n)
    PROVE  /\ \/ applied'[n][c] = applied[n][c]
              \/ lock[n].by # None /\ lock[n].chan = c /\ applied'[n][c] = Held(n)
           /\ \/ mem'[n][c] \in {None, mem[n][c], applied[n][c]}
              \/ lock[n].by # None /\ lock[n].chan = c /\ mem'[n][c] = Held(n)
  <1> DEFINE Goal == /\ \/ applied'[n][c] = applied[n][c]
                        \/ lock[n].by # None /\ lock[n].chan = c /\ applied'[n][c] = Held(n)
                     /\ \/ mem'[n][c] \in {None, mem[n][c], applied[n][c]}
                        \/ lock[n].by # None /\ lock[n].chan = c /\ mem'[n][c] = Held(n)
  <1>1. ASSUME Rests(n) \/ Halts(n) PROVE Goal
    BY <1>1 DEF Rests, Halts, SameStore
  <1>2. ASSUME applied'[n] = applied[n], NEW d \in Channel,
               mem'[n] = [mem[n] EXCEPT ![d] = Prev(n, d)]
        PROVE  Goal
    <2>1. mem'[n][c] = IF c = d THEN Prev(n, c) ELSE mem[n][c]
      BY <1>2 DEF Types
    <2> QED
      BY <1>2, <2>1 DEF Prev
  <1>3. ASSUME Recalls(n) PROVE Goal
    BY <1>2, <1>3 DEF Recalls, SameStore
  <1>4. ASSUME NEW t \in Task, NEW d \in Channel, task[t].node = n, ApplyStart(t, d) PROVE Goal
    BY <1>2, <1>4 DEF ApplyStart, Types
  <1>5. ASSUME ApplyPurge(n) \/ Boot(n) \/ \E q \in Request : Direct(q) PROVE Goal
    BY <1>5 DEF ApplyPurge, Boot, Direct
  <1>6. ASSUME ApplyPersist(n) PROVE Goal
    BY <1>6 DEF ApplyPersist, ApplyAt, Types
  <1>7. ASSUME ApplyInsert(n) PROVE Goal
    BY <1>7 DEF ApplyInsert, ApplyAt, Types, store
  <1> HIDE DEF Goal
  <1>8. Goal
    BY <1>1, <1>3, <1>4, <1>5, <1>6, <1>7 DEF NodeMoved
  <1> QED
    BY <1>8 DEF Goal

LEMMA ReadsStep == OneLog /\ Reads /\ [Next]_vars => Reads'
  <1> SUFFICES ASSUME OneLog, Reads, [Next]_vars PROVE Reads'
    OBVIOUS
  <1>1. /\ Types /\ Locked /\ Following /\ Types'
    BY FollowingInductive DEF OneLog
  <1>2. ASSUME NEW t \in Task, task'[t].step \in {"apply", "serve"}, NEW c \in Channel
        PROVE  SeenNext(task'[t].node, c, task'[t].policies[c])
    <2>1. KeepsOn(t) \/ Synchronizes(t) \/ Lists(t)
      BY <1>1, <1>2, TaskMoves, TaskKeeps
    <2>2. task[t].node \in Node /\ task'[t].node \in Node
      BY <1>1 DEF Types, TaskTypes, Tasks
    <2>3. CASE KeepsOn(t)
      <3>1. /\ task[t].step \in {"apply", "serve"} /\ task'[t].node = task[t].node
            /\ task'[t].policies = task[t].policies
        BY <1>2, <2>3 DEF KeepsOn, Serves
      <3>2. Seen(task[t].node, c, task[t].policies[c])
        BY <3>1 DEF Reads
      <3>3. SeenNext(task[t].node, c, task[t].policies[c])
        BY <2>2, <3>2, SeenGrows
      <3> QED
        BY <3>1, <3>3
    <2>4. CASE Synchronizes(t) \/ Lists(t)
      <3>1. task'[t].policies[c] = state'[task'[t].node].content.policy[c]
        BY <2>4 DEF Synchronizes, Lists
      <3>2. SeenNext(task'[t].node, c, state'[task'[t].node].content.policy[c])
        BY <2>2, SeenLast
      <3> QED
        BY <3>1, <3>2
    <2> QED
      BY <2>1, <2>3, <2>4
  <1>3. ASSUME NEW n \in Node, NEW c \in Channel
        PROVE  /\ applied'[n][c] # None => SeenNext(n, c, applied'[n][c])
               /\ mem'[n][c] # None => SeenNext(n, c, mem'[n][c])
    <2>1. ASSUME lock[n].by # None, lock[n].chan = c PROVE SeenNext(n, c, Held(n))
      <3>1. /\ task[lock[n].by].step = "apply" /\ task[lock[n].by].node = n
            /\ lock[n].by \in Task
        BY <1>1, <2>1, HolderTypes
      <3>2. Seen(n, c, Held(n))
        BY <2>1, <3>1 DEF Reads, Held
      <3> QED
        BY <3>2, SeenGrows
    <2>2. applied[n][c] # None => SeenNext(n, c, applied[n][c])
      BY SeenGrows DEF Reads
    <2>3. mem[n][c] # None => SeenNext(n, c, mem[n][c])
      BY SeenGrows DEF Reads
    <2>4. NodeMoved(n)
      BY <1>1, NodeMoves
    <2> QED
      BY <1>1, <2>1, <2>2, <2>3, <2>4, StoreMoves
  <1> QED
    BY <1>2, <1>3 DEF Reads, Seen, SeenNext, Entry, NextEntry

LEMMA InitReads == Init => Reads
  BY DEF Init, Reads, NoTask

LEMMA SeenPurge ==
    ASSUME OneLog, NEW n \in Node, NEW c \in Channel, NEW p, Seen(n, c, p)
    PROVE  p.purge \in Nat /\ p.purge <= state[n].content.policy[c].purge
  <1>1. PICK k \in 0 .. state[n].rev : p = Entry(k).policy[c]
    BY DEF Seen
  <1>2. /\ state[n].rev \in 0 .. Len(log) /\ state[n].content = Entry(state[n].rev)
        /\ Len(log) \in Nat
    BY EntryTypes DEF OneLog, Following
  <1>3. k \in 0 .. Len(log) /\ k <= state[n].rev
    BY <1>2
  <1>4. p.purge \in Nat
    BY <1>1, <1>3, EntryTypes DEF OneLog
  <1> QED
    BY <1>1, <1>2, <1>3, <1>4 DEF OneLog, PurgesGrow

\* No node has applied a later purge than its state asks for: what a node would read
\* after a restart never takes a purge back, so apply never refuses its start.
THEOREM AppliedFollowsState == Spec => []NeverAhead
  <1>1. Init => OneLog /\ Reads
    BY InitTypes, InitLocked, InitFollowing, InitReads DEF OneLog
  <1>2. OneLog /\ Reads /\ [Next]_vars => (OneLog /\ Reads)'
    BY FollowingInductive, ReadsStep
  <1>3. OneLog /\ Reads => NeverAhead
    <2> SUFFICES ASSUME OneLog, Reads, NEW n \in Node, NEW c \in Channel
                 PROVE  Larger(PurgeOf(mem[n][c]), PurgeOf(applied[n][c]))
                           <= state[n].content.policy[c].purge
      BY DEF NeverAhead
    <2> DEFINE last == state[n].content.policy[c].purge
    <2>1. last \in Nat
      BY StateTypes, BoundAssumption DEF OneLog, Policies
    <2>2. PurgeOf(mem[n][c]) <= last /\ PurgeOf(applied[n][c]) <= last
      BY <2>1, SeenPurge DEF Reads, PurgeOf
    <2> QED
      BY <2>2 DEF Larger
  <1> QED
    BY <1>1, <1>2, <1>3, PTL DEF Spec

-----------------------------------------------------------------------------
(* What is enforced.  A policy is recorded as applied, in the database and  *)
(* then in memory, only once its purge is done, and the record of a channel *)
(* never goes back, neither when the process stops nor while the mutex is held. *)

InStep(n, c) ==
    /\ PurgeOf(mem[n][c]) <= PurgeOf(applied[n][c])
    /\ PurgeOf(applied[n][c]) <= cutoff[n][c]
HolderInStep(n) ==
    lock[n].by # None =>
        LET c == lock[n].chan
            p == Held(n)
        IN /\ PurgeOf(mem[n][c]) <= p.purge
           /\ lock[n].step \in {"persist", "insert"} => p.purge <= cutoff[n][c]
           /\ lock[n].step = "insert" => applied[n][c] = p
           /\ lock[n].step # "insert" /\ mem[n][c] = None => applied[n][c] = None
\* A request looks up only its own channel where its handler lives.
Covers(t, c) == t \in Request /\ task[t].node = task[t].home => c = task[t].chan
TaskInStep(t) ==
    task[t].step \in {"apply", "serve"} =>
        \A c \in Channel \ task[t].todo :
            Covers(t, c) => task[t].policies[c].purge <= PurgeOf(Prev(task[t].node, c))
Effects ==
    /\ \A n \in Node, c \in Channel : InStep(n, c)
    /\ \A n \in Node : HolderInStep(n)
    /\ \A t \in Task : TaskInStep(t)

LEMMA PurgeTypes ==
    ASSUME Types, NEW n \in Node, NEW c \in Channel
    PROVE  /\ mem[n][c] \in Policies \cup {None} /\ applied[n][c] \in Policies \cup {None}
           /\ Prev(n, c) \in Policies \cup {None}
           /\ PurgeOf(mem[n][c]) \in Nat /\ PurgeOf(applied[n][c]) \in Nat
           /\ PurgeOf(Prev(n, c)) \in Nat /\ cutoff[n][c] \in Nat
           /\ mem[n] \in [Channel -> Policies \cup {None}]
           /\ cutoff[n] \in [Channel -> 0 .. MaxTime]
  <1>1. /\ mem[n][c] \in Policies \cup {None} /\ applied[n][c] \in Policies \cup {None}
        /\ cutoff[n][c] \in Nat /\ mem[n] \in [Channel -> Policies \cup {None}]
        /\ cutoff[n] \in [Channel -> 0 .. MaxTime]
    BY BoundAssumption DEF Types
  <1>2. \A p \in Policies \cup {None} : PurgeOf(p) \in Nat
    BY BoundAssumption DEF Policies, PurgeOf
  <1>3. Prev(n, c) \in Policies \cup {None}
    BY <1>1 DEF Prev
  <1> QED
    BY <1>1, <1>2, <1>3

\* As long as the mutex is held its holder applies the same policy.
LEMMA HolderKeeps ==
    ASSUME OneLog, [Next]_vars, NEW n \in Node,
           lock[n].by # None, lock'[n].by = lock[n].by, lock'[n].chan = lock[n].chan
    PROVE  Held(n)' = Held(n)
  <1>1. Types /\ Locked /\ Types' /\ Locked'
    BY FollowingInductive DEF OneLog
  <1> DEFINE u == lock[n].by
  <1>2. u \in Task /\ task[u].step = "apply"
    BY <1>1, HolderTypes
  <1>3. lock'[n] # Free
    BY DEF Free
  <1>4. task'[u].step = "apply"
    BY <1>1, <1>3 DEF Locked
  <1>5. KeepsOn(u) \/ Synchronizes(u) \/ Lists(u)
    BY <1>1, <1>2, <1>4, TaskMoves, TaskKeeps
  <1>6. ~Synchronizes(u) /\ ~Lists(u)
    BY <1>2 DEF Synchronizes, Lists, NoTask
  <1> QED
    BY <1>5, <1>6 DEF KeepsOn, Held

\* The record of a channel and the cutoff move forward; nobody records what is not done.
LEMMA NodeEffects ==
    ASSUME OneLog, Effects, [Next]_vars, NEW n \in Node
    PROVE  /\ \A c \in Channel : /\ InStep(n, c)'
                                 /\ PurgeOf(Prev(n, c)) <= PurgeOf(Prev(n, c))'
                                 /\ cutoff[n][c] <= cutoff'[n][c]
           /\ HolderInStep(n)'
  <1> DEFINE Good(c) == /\ InStep(n, c)'
                        /\ PurgeOf(Prev(n, c)) <= PurgeOf(Prev(n, c))'
                        /\ cutoff[n][c] <= cutoff'[n][c]
             Goal == (\A c \in Channel : Good(c)) /\ HolderInStep(n)'
  <1>1. Types /\ Locked /\ Types' /\ Locked'
    BY FollowingInductive DEF OneLog
  <1>2. \A c \in Channel : InStep(n, c)
    BY DEF Effects
  <1>3. HolderInStep(n)
    BY DEF Effects
  <1>4. \A c \in Channel : /\ mem[n][c] \in Policies \cup {None}
                           /\ applied[n][c] \in Policies \cup {None}
                           /\ PurgeOf(mem[n][c]) \in Nat /\ PurgeOf(applied[n][c]) \in Nat
                           /\ PurgeOf(Prev(n, c)) \in Nat /\ cutoff[n][c] \in Nat
    BY <1>1, PurgeTypes
  <1>5. \A p : PurgeOf(p) = IF p = None THEN 0 ELSE p.purge
    BY DEF PurgeOf
  <1>6. ASSUME Rests(n) PROVE Goal
    <2>1. \A c \in Channel : Good(c)
      BY <1>2, <1>4, <1>6 DEF Rests, SameStore, InStep, Prev
    <2>2. ASSUME lock'[n].by # None PROVE lock'[n] = lock[n] /\ lock[n].by # None
      BY <1>6, <2>2 DEF Rests, Free
    <2>3. HolderInStep(n)'
      BY <1>3, <1>6, <2>2, HolderKeeps DEF Rests, SameStore, HolderInStep
    <2> QED
      BY <2>1, <2>3
  <1>7. ASSUME Halts(n) PROVE Goal
    <2>1. \A c \in Channel : mem'[n][c] = None /\ applied'[n][c] = applied[n][c] /\ cutoff'[n][c] = cutoff[n][c]
      BY <1>7 DEF Halts, SameStore
    <2>2. \A c \in Channel : Good(c)
      BY <1>2, <1>4, <1>5, <2>1 DEF InStep, Prev
    <2>3. HolderInStep(n)'
      BY <1>7 DEF Halts, HolderInStep, Free
    <2> QED
      BY <2>2, <2>3
  <1>8. ASSUME NEW d \in Channel, mem'[n] = [mem[n] EXCEPT ![d] = Prev(n, d)],
               applied'[n] = applied[n], cutoff'[n] = cutoff[n]
        PROVE  \A c \in Channel : Good(c) /\ (mem'[n][c] = IF c = d THEN Prev(n, d) ELSE mem[n][c])
    <2>1. \A c \in Channel : mem'[n][c] = IF c = d THEN Prev(n, d) ELSE mem[n][c]
      BY <1>1, <1>8, PurgeTypes
    <2> QED
      BY <1>2, <1>4, <1>5, <1>8, <2>1 DEF InStep, Prev
  <1>9. ASSUME Recalls(n) PROVE Goal
    <2>1. HolderInStep(n)'
      BY <1>9 DEF Recalls, HolderInStep, Free
    <2> QED
      BY <1>8, <1>9, <2>1 DEF Recalls, SameStore
  <1>10. ASSUME NEW t \in Task, NEW d \in Channel, task[t].node = n, ApplyStart(t, d) PROVE Goal
    <2>1. /\ mem'[n] = [mem[n] EXCEPT ![d] = Prev(n, d)]
          /\ applied'[n] = applied[n] /\ cutoff'[n] = cutoff[n]
          /\ lock'[n] = [by |-> t, chan |-> d, step |-> "purge"] /\ task' = task
          /\ task[t].policies[d].purge >= PurgeOf(Prev(n, d))
      BY <1>1, <1>10 DEF ApplyStart, Types
    <2>2. \A c \in Channel : Good(c) /\ (mem'[n][c] = IF c = d THEN Prev(n, d) ELSE mem[n][c])
      BY <1>8, <2>1
    <2>3. Held(n)' = task[t].policies[d] /\ Held(n)'.purge \in Nat
      BY <1>1, <2>1, ApplyTypes, BoundAssumption DEF Held
    <2>4. mem'[n][d] = Prev(n, d)
      BY <2>2
    <2>5. HolderInStep(n)'
      BY <1>4, <2>1, <2>3, <2>4 DEF HolderInStep, Prev
    <2> QED
      BY <2>2, <2>5
  <1>11. ASSUME NEW step, ApplyAt(n, step)
         PROVE  /\ lock[n].by # None /\ lock[n].chan \in Channel /\ lock[n].step = step
                /\ Held(n) \in Policies /\ Held(n).purge \in Nat /\ Held(n) # None
    <2>1. lock[n].by # None /\ lock[n].step = step
      BY <1>11 DEF ApplyAt
    <2>2. lock[n].chan \in Channel /\ Held(n) \in Policies /\ Held(n).purge \in 0 .. MaxTime
      BY <1>1, <2>1, HolderTypes
    <2> QED
      BY <2>1, <2>2, Constants, BoundAssumption
  <1>12. ASSUME ApplyPurge(n) PROVE Goal
    <2> DEFINE d == lock[n].chan
    <2>1. /\ lock[n].by # None /\ d \in Channel /\ Held(n).purge \in Nat /\ lock[n].step = "purge"
          /\ UNCHANGED <<applied, mem>>
      BY <1>11, <1>12 DEF ApplyPurge
    <2>2. lock'[n].by = lock[n].by /\ lock'[n].chan = lock[n].chan /\ lock'[n].step = "persist"
      BY <1>1, <1>12, <2>1, HolderTypes DEF ApplyPurge, Types
    <2>3. Held(n)' = Held(n)
      BY <2>1, <2>2, HolderKeeps
    <2>4. /\ PurgeOf(mem[n][d]) <= Held(n).purge
          /\ mem[n][d] = None => applied[n][d] = None
      BY <1>3, <2>1 DEF HolderInStep
    <2>5. \/ cutoff' = cutoff /\ ~(Held(n).purge > PurgeOf(mem[n][d]))
          \/ cutoff' = [cutoff EXCEPT ![n][d] = Larger(@, Held(n).purge)]
      BY <1>12 DEF ApplyPurge
    <2>6. \/ cutoff'[n] = cutoff[n] /\ ~(Held(n).purge > PurgeOf(mem[n][d]))
          \/ \A c \in Channel : cutoff'[n][c] = IF c = d THEN Larger(cutoff[n][d], Held(n).purge)
                                                ELSE cutoff[n][c]
      BY <1>1, <2>5 DEF Types
    <2>7. \A c \in Channel : cutoff[n][c] <= cutoff'[n][c]
      BY <1>4, <2>1, <2>6 DEF Larger
    <2>8. Held(n).purge <= cutoff'[n][d]
      BY <1>2, <1>4, <2>1, <2>6 DEF Larger, InStep
    <2>9. \A c \in Channel : cutoff'[n][c] \in Nat
      BY <1>1, BoundAssumption DEF Types
    <2>10. \A c \in Channel : Good(c)
      BY <1>2, <1>4, <2>1, <2>7, <2>9 DEF InStep, Prev
    <2>11. HolderInStep(n)'
      BY <2>1, <2>2, <2>3, <2>4, <2>8 DEF HolderInStep
    <2> QED
      BY <2>10, <2>11
  <1>13. ASSUME ApplyPersist(n) PROVE Goal
    <2> DEFINE d == lock[n].chan
    <2>1. /\ lock[n].by # None /\ d \in Channel /\ Held(n).purge \in Nat /\ Held(n) # None
          /\ lock[n].step = "persist" /\ UNCHANGED <<cutoff, mem>>
      BY <1>11, <1>13 DEF ApplyPersist
    <2>2. lock'[n].by = lock[n].by /\ lock'[n].chan = lock[n].chan /\ lock'[n].step = "insert"
      BY <1>1, <1>13, <2>1, HolderTypes DEF ApplyPersist, Types
    <2>3. Held(n)' = Held(n)
      BY <2>1, <2>2, HolderKeeps
    <2>4. /\ PurgeOf(mem[n][d]) <= Held(n).purge /\ Held(n).purge <= cutoff[n][d]
          /\ mem[n][d] = None => applied[n][d] = None
      BY <1>3, <2>1 DEF HolderInStep
    <2>5. \A c \in Channel : applied'[n][c] = IF c = d THEN Held(n) ELSE applied[n][c]
      BY <1>1, <1>13 DEF ApplyPersist, Types
    <2>6. \A c \in Channel : Good(c)
      BY <1>2, <1>4, <1>5, <2>1, <2>4, <2>5 DEF InStep, Prev
    <2>7. HolderInStep(n)'
      BY <2>1, <2>2, <2>3, <2>4, <2>5 DEF HolderInStep
    <2> QED
      BY <2>6, <2>7
  <1>14. ASSUME ApplyInsert(n) PROVE Goal
    <2> DEFINE d == lock[n].chan
    <2>1. /\ lock[n].by # None /\ d \in Channel /\ Held(n).purge \in Nat /\ Held(n) # None
          /\ lock[n].step = "insert" /\ UNCHANGED <<cutoff, applied>>
      BY <1>11, <1>14 DEF ApplyInsert, store
    <2>2. lock'[n] = Free
      BY <1>1, <1>14 DEF ApplyInsert, Types
    <2>3. PurgeOf(mem[n][d]) <= Held(n).purge /\ applied[n][d] = Held(n)
      BY <1>3, <2>1 DEF HolderInStep
    <2>4. \A c \in Channel : mem'[n][c] = IF c = d THEN Held(n) ELSE mem[n][c]
      BY <1>1, <1>14 DEF ApplyInsert, Types
    <2>5. \A c \in Channel : Good(c)
      BY <1>2, <1>4, <1>5, <2>1, <2>3, <2>4 DEF InStep, Prev
    <2>6. HolderInStep(n)'
      BY <2>2 DEF HolderInStep, Free
    <2> QED
      BY <2>5, <2>6
  <1>15. ASSUME NEW q \in Request, task[q].home = n, Direct(q) PROVE Goal
    <2>1. /\ UNCHANGED <<applied, mem, lock>>
          /\ cutoff' = cutoff \/ cutoff' = [cutoff EXCEPT ![n][task[q].chan] = Larger(@, task[q].at)]
      BY <1>15 DEF Direct
    <2>2. task[q].at \in Nat
      BY <1>1, BoundAssumption DEF Types, TaskTypes, Tasks, Task
    <2>3. \A c \in Channel : cutoff'[n][c] \in {cutoff[n][c], Larger(cutoff[n][c], task[q].at)}
      BY <1>1, <2>1 DEF Types
    <2>4. \A c \in Channel : cutoff[n][c] <= cutoff'[n][c] /\ cutoff'[n][c] \in Nat
      BY <1>4, <2>2, <2>3 DEF Larger
    <2>5. \A c \in Channel : Good(c)
      BY <1>2, <1>4, <2>1, <2>4 DEF InStep, Prev
    <2>6. HolderInStep(n)'
      <3> SUFFICES ASSUME lock'[n].by # None PROVE HolderInStep(n)'
        BY DEF HolderInStep
      <3>1. lock[n].by # None /\ lock' = lock
        BY <2>1
      <3>2. Held(n)' = Held(n)
        BY <3>1, HolderKeeps
      <3>3. lock[n].chan \in Channel /\ Held(n).purge \in 0 .. MaxTime
        BY <1>1, <3>1, HolderTypes
      <3>4. Held(n)' = Held(n) /\ lock[n].chan \in Channel /\ Held(n).purge \in Nat
        BY <3>2, <3>3, BoundAssumption
      <3> QED
        BY <1>3, <1>4, <2>1, <2>4, <3>4 DEF HolderInStep
    <2> QED
      BY <2>5, <2>6
  <1>16. ASSUME Boot(n) PROVE Goal
    <2>1. UNCHANGED <<applied, mem, lock, cutoff>>
      BY <1>16 DEF Boot
    <2>2. \A c \in Channel : Good(c)
      BY <1>2, <1>4, <2>1 DEF InStep, Prev
    <2>3. HolderInStep(n)'
      BY <1>3, <2>1, HolderKeeps DEF HolderInStep
    <2> QED
      BY <2>2, <2>3
  <1> HIDE DEF Goal
  <1>17. NodeMoved(n)
    BY <1>1, NodeMoves
  <1>18. Goal
    BY <1>6, <1>7, <1>9, <1>10, <1>12, <1>13, <1>14, <1>15, <1>16, <1>17 DEF NodeMoved
  <1> QED
    BY <1>18 DEF Goal

LEMMA EffectsStep == OneLog /\ Effects /\ [Next]_vars => Effects'
  <1> SUFFICES ASSUME OneLog, Effects, [Next]_vars PROVE Effects'
    OBVIOUS
  <1>1. Types /\ Locked /\ Types' /\ Locked'
    BY FollowingInductive DEF OneLog
  <1>2. ASSUME NEW t \in Task, task'[t].step \in {"apply", "serve"},
               NEW c \in Channel \ task'[t].todo, Covers(t, c)'
        PROVE  task'[t].policies[c].purge <= PurgeOf(Prev(task[t].node, c))'
    <2>1. task[t].node \in Node
      BY <1>1, ApplyTypes
    <2>2. PICK n \in Node, p \in {task[t].policies[c]} : n = task[t].node /\ p = task[t].policies[c]
      BY <2>1
    <2>3. KeepsOn(t) \/ Synchronizes(t) \/ Lists(t)
      BY <1>1, <1>2, TaskMoves, TaskKeeps
    <2>4. n \in Node /\ p \in Policies /\ p.purge \in Nat /\ p # None
      BY <1>1, <2>2, ApplyTypes, Constants, BoundAssumption
    <2>5. ~Synchronizes(t)
      BY <1>2 DEF Synchronizes
    <2>6. ~Lists(t)
      BY <1>2 DEF Lists, Covers, SameRequest
    <2>7. KeepsOn(t)
      BY <2>3, <2>5, <2>6
    <2>8. /\ task'[t].node = n /\ task'[t].policies = task[t].policies
          /\ task[t].step \in {"apply", "serve"}
      BY <1>2, <2>7, <2>2 DEF KeepsOn, Serves
    <2>9. /\ PurgeOf(Prev(n, c)) <= PurgeOf(Prev(n, c))' /\ PurgeOf(Prev(n, c)) \in Nat
          /\ PurgeOf(Prev(n, c))' \in Nat
      <3>1. Prev(n, c) \in Policies \cup {None} /\ PurgeOf(Prev(n, c)) \in Nat
        BY <1>1, <2>4, PurgeTypes
      <3>2. mem'[n][c] \in Policies \cup {None} /\ applied'[n][c] \in Policies \cup {None}
        BY <1>1, <2>4 DEF Types
      <3>3. PurgeOf(Prev(n, c))' \in Nat
        BY <3>2, BoundAssumption DEF Prev, PurgeOf, Policies
      <3> QED
        BY <2>4, <3>1, <3>3, NodeEffects
    <2>10. CASE c \notin task[t].todo
      <3>1. Covers(t, c)
        BY <1>2, <2>7, <2>8 DEF KeepsOn, Covers, SameRequest
      <3>2. p.purge <= PurgeOf(Prev(n, c))
        BY <2>8, <2>10, <2>2, <3>1 DEF Effects, TaskInStep
      <3> QED
        BY <2>4, <2>8, <2>9, <2>2, <3>2
    <2>11. CASE c \in task[t].todo
      <3>1. Done(t, c)
        BY <1>2, <2>7, <2>11 DEF KeepsOn
      <3>2. CASE mem'[n][c] = p
        BY <2>4, <2>8, <2>2, <3>2 DEF Prev, PurgeOf
      <3>3. CASE p = Prev(n, c) \/ p.purge = 0
        <4>1. p.purge <= PurgeOf(Prev(n, c))
          BY <2>4, <2>9, <3>3 DEF PurgeOf
        <4> QED
          BY <2>4, <2>8, <2>9, <2>2, <4>1
      <3> QED
        BY <2>2, <3>1, <3>2, <3>3 DEF Done
    <2> QED
      BY <2>10, <2>11
  <1>3. \A n \in Node : HolderInStep(n)' /\ \A c \in Channel : InStep(n, c)'
    BY NodeEffects
  <1> QED
    BY <1>2, <1>3 DEF Effects, TaskInStep, Covers

LEMMA InitEffects == Init => Effects
  <1> SUFFICES ASSUME Init PROVE Effects
    OBVIOUS
  <1>1. \A n \in Node, c \in Channel : InStep(n, c)
    BY DEF Init, InStep, PurgeOf
  <1>2. \A n \in Node : HolderInStep(n)
    BY DEF Init, HolderInStep, Free
  <1>3. \A t \in Task : TaskInStep(t)
    BY DEF Init, TaskInStep, NoTask
  <1> QED
    BY <1>1, <1>2, <1>3 DEF Effects

-----------------------------------------------------------------------------
(* Pushes.  What the owner waits for is on its way or being applied, once   *)
(* for each mirror, and it is the state the push was made for.              *)

Pushing ==
    /\ \A m \in net : m.kind = "push" => /\ m.to \in mut.waiting /\ m.rev = mut.rev
                                         /\ task[m.to].kind # "push"
    /\ \A r \in Mirror : task[r].kind = "push" =>
          /\ r \in mut.waiting /\ state[r].rev = mut.rev
          /\ task[r].policies = Entry(mut.rev).policy

\* A mirror applies a pushed state because it did, or has just received it.
LEMMA PushedTask ==
    ASSUME Types, NEW r \in Mirror, TaskMoved(r), task'[r].kind = "push"
    PROVE  \/ task[r].kind = "push" /\ task'[r].policies = task[r].policies
           \/ /\ \E m \in net : m.to = r /\ m.kind = "push" /\ Receive(m)
              /\ task'[r].policies = state'[r].content.policy
  <1>1. r \notin Request /\ r \in Task /\ task[r] \in Tasks
    BY NodeAssumption DEF Types, TaskTypes, Task, Node
  <1>2. task'[r] # NoTask
    BY DEF NoTask
  <1>3. ~GivesUp(r)
    BY <1>1 DEF GivesUp, Tasks
  <1>4. CASE task'[r] = task[r]
    BY <1>4
  <1>5. CASE TicksOff(r)
    BY <1>1, <1>5 DEF TicksOff, Tasks
  <1>6. CASE Synchronizes(r)
    BY <1>6 DEF Synchronizes
  <1> QED
    BY <1>1, <1>2, <1>3, <1>4, <1>5, <1>6
    DEF TaskMoved, Lists, Comes, Changed, GoesOn, Serves

\* A step keeps its pushes to the mirrors it waits for, or makes new ones.
PushKept ==
    /\ mut'.rev = mut.rev \/ mut'.waiting = {}
    /\ \A m \in net' : m.kind = "push" => m \in net /\ m.to \in mut'.waiting
    /\ \A r \in Mirror : task'[r].kind = "push" => r \in mut'.waiting
PushMade ==
    /\ ~mut.held /\ mut'.waiting = Mirror
    /\ \A m \in net' : m.kind = "push" => m \in net \/ m.rev = mut'.rev
    /\ \A r \in Mirror : task'[r] = task[r]

LEMMA LateHasNoPush ==
    ASSUME Types, NEW rs \in SUBSET Mirror
    PROVE  /\ \A m \in LateNet(rs) : m.kind = "push" => m \in net /\ m.to \notin rs
           /\ \A r \in Mirror : LateTask(rs)[r].kind = "push" => task[r].kind = "push" /\ r \notin rs
  <1>1. ASSUME NEW m \in LateNet(rs), m.kind = "push" PROVE m \in net /\ m.to \notin rs
    <2>1. ASSUME NEW o \in net, m = [o EXCEPT !.kind = "late"] PROVE FALSE
      BY <1>1, <2>1 DEF Types, Snapshots
    <2> QED
      BY <1>1, <2>1 DEF LateNet
  <1>2. ASSUME NEW r \in Mirror, LateTask(rs)[r].kind = "push"
        PROVE  task[r].kind = "push" /\ r \notin rs
    <2>1. r \in Task /\ task[r] \in Tasks
      BY DEF Types, TaskTypes, Task, Node
    <2> QED
      BY <1>2, <2>1 DEF LateTask, Tasks
  <1> QED
    BY <1>1, <1>2

LEMMA PushMoves ==
    ASSUME OneLog, Pushing, [Next]_vars
    PROVE  PushKept \/ PushMade
  <1> USE NodeAssumption
  <1> DEFINE Goal == PushKept \/ PushMade
  <1>1. Types /\ Locked /\ Types'
    BY FollowingInductive DEF OneLog
  <1>2. \A r \in Mirror : TaskMoved(r)
    BY <1>1, TaskMoves DEF Task, Node
  <1>3. ASSUME mut'.waiting = mut.waiting, mut'.rev = mut.rev,
               \A m \in net' : m.kind = "push" => m \in net
        PROVE  Goal
    <2>1. \A r \in Mirror : task'[r].kind = "push" => r \in mut.waiting
      BY <1>1, <1>2, PushedTask DEF Pushing
    <2> QED
      BY <1>3, <2>1 DEF PushKept, Pushing
  <1>4. ASSUME NEW new, NEW by, Mutate(new, by) PROVE Goal
    BY <1>4 DEF Mutate, Commit, PushMade, Snapshot
  <1>5. ASSUME OwnerPush PROVE Goal
    <2>1. \A r \in Mirror : task'[r] = task[r]
      BY <1>1, <1>5 DEF OwnerPush, Types, TaskTypes, Task, Node
    <2> QED
      BY <1>5, <2>1 DEF OwnerPush, PushMade, Snapshot
  <1>6. ASSUME PushDone PROVE Goal
    <2>1. mut'.waiting = {} /\ net' = net /\ mut.waiting = {}
      BY <1>6 DEF PushDone, NoMut
    <2>2. \A r \in Mirror : task'[r].kind # "push"
      <3> SUFFICES ASSUME NEW r \in Mirror, task'[r].kind = "push" PROVE FALSE
        OBVIOUS
      <3>1. task[r].kind = "push" \/ \E m \in net : m.to = r /\ m.kind = "push"
        BY <1>1, <1>2, PushedTask
      <3> QED
        BY <2>1, <3>1 DEF Pushing
    <2> QED
      BY <2>1, <2>2 DEF PushKept, Pushing
  <1>7. ASSUME mut' = NoMut, net' \subseteq LateNet(Mirror),
               \A r \in Mirror : task'[r] = NoTask \/ task'[r] = LateTask(Mirror)[r]
        PROVE  Goal
    <2>1. mut'.waiting = {}
      BY <1>7 DEF NoMut
    <2>2. \A m \in net' : m.kind # "push"
      BY <1>1, <1>7, LateHasNoPush DEF Types, Snapshots
    <2>3. \A r \in Mirror : task'[r].kind # "push"
      BY <1>1, <1>7, LateHasNoPush DEF NoTask
    <2> QED
      BY <2>1, <2>2, <2>3 DEF PushKept
  <1>8. ASSUME DropChange PROVE Goal
    BY <1>7, <1>8 DEF DropChange
  <1>9. ASSUME NEW q \in Request, DropRequest(q) PROVE Goal
    <2>1. CASE mut' = mut /\ net' = net
      BY <1>3, <2>1
    <2>2. CASE mut' = [mut EXCEPT !.by = None] /\ net' = net
      BY <1>1, <1>3, <2>2 DEF Types, Changes
    <2>3. CASE /\ mut' = NoMut /\ net' = LateNet(Mirror)
               /\ task' = [LateTask(Mirror) EXCEPT ![q] = NoTask]
      <3>1. \A r \in Mirror : task'[r] = LateTask(Mirror)[r]
        BY <1>1, <2>3, LateTypes DEF Task, Node
      <3> QED
        BY <1>7, <2>3, <3>1
    <2> QED
      BY <1>9, <2>1, <2>2, <2>3 DEF DropRequest
  <1>10. ASSUME NEW n \in Node, Crash(n) PROVE Goal
    <2>1. CASE n = Owner
      <3>1. /\ mut' = NoMut /\ net' \subseteq LateNet(Mirror)
            /\ \A t \in Task : task'[t] = NoTask \/ task'[t] = LateTask(Mirror)[t]
        BY <1>10, <2>1 DEF Crash
      <3> QED
        BY <1>7, <3>1 DEF Task, Node
    <2>2. CASE n # Owner
      <3>1. net' \subseteq net /\ (mut' = mut \/ mut' = [mut EXCEPT !.by = None])
        BY <1>10, <2>2 DEF Crash
      <3> QED
        BY <1>1, <1>3, <3>1 DEF Types, Changes
    <2> QED
      BY <2>1, <2>2
  <1>11. ASSUME NEW r \in Mirror, PushFails(r) PROVE Goal
    <2>1. mut'.waiting = mut.waiting \ {r} /\ mut'.rev = mut.rev
      BY <1>1, <1>11 DEF PushFails, Types, Changes
    <2>2. net' = LateNet({r}) /\ task' = LateTask({r})
      BY <1>11 DEF PushFails
    <2>3. \A m \in net' : m.kind = "push" => m \in net /\ m.to \in mut'.waiting
      BY <1>1, <2>1, <2>2, LateHasNoPush DEF Pushing
    <2>4. \A s \in Mirror : task'[s].kind = "push" => s \in mut'.waiting
      BY <1>1, <2>1, <2>2, LateHasNoPush DEF Pushing
    <2> QED
      BY <2>1, <2>3, <2>4 DEF PushKept
  <1>12. ASSUME NEW r \in Mirror, Accepted(r) PROVE Goal
    <2>1. CASE task[r].kind # "push"
      BY <1>3, <1>12, <2>1 DEF Accepted
    <2>2. CASE task[r].kind = "push"
      <3>1. /\ mut'.waiting = mut.waiting \ {r} /\ mut'.rev = mut.rev /\ net' = net
            /\ task' = [task EXCEPT ![r] = NoTask]
        BY <1>1, <1>12, <2>2 DEF Accepted, Types, Changes
      <3>2. \A s \in Mirror : task'[s] = IF s = r THEN NoTask ELSE task[s]
        BY <1>1, <3>1 DEF Types, TaskTypes, Task, Node
      <3>3. \A s \in Mirror : task'[s].kind = "push" => s \in mut'.waiting
        BY <3>1, <3>2 DEF Pushing, NoTask
      <3> QED
        BY <2>2, <3>1, <3>3 DEF PushKept, Pushing
    <2> QED
      BY <2>1, <2>2
  <1>13. ASSUME NEW r \in Mirror, Pull(r) PROVE Goal
    BY <1>3, <1>13 DEF Pull, Snapshot
  <1>14. ASSUME NEW m \in net, Deliver(m) PROVE Goal
    BY <1>3, <1>14 DEF Deliver, Lose, Refuse, Receive
  <1>15. ASSUME UNCHANGED <<mut, net>> PROVE Goal
    BY <1>3, <1>15
  <1>16. ASSUME Change PROVE Goal
    <2>1. ASSUME NEW q \in Request, ChangeFor(q) PROVE \E new, by : Mutate(new, by)
      BY <2>1 DEF ChangeFor
    <2>2. \/ \E new, by : Mutate(new, by)
          \/ UNCHANGED <<mut, net>> \/ OwnerPush \/ PushDone \/ DropChange
      BY <1>16, <2>1 DEF Change, PinRefused, Pin, ReplacePins, SaveAuth, Revoke
    <2> HIDE DEF Goal
    <2> QED
      BY <1>4, <1>5, <1>6, <1>8, <1>15, <2>2
  <1>17. ASSUME NEW r \in Mirror, Replicate(r) PROVE Goal
    <2>1. DropAccept(r) => UNCHANGED <<mut, net>>
      BY DEF DropAccept
    <2> HIDE DEF Goal
    <2> QED
      BY <1>11, <1>12, <1>13, <1>15, <1>17, <2>1 DEF Replicate
  <1>18. ASSUME NEW t \in Task, Apply(t) PROVE Goal
    BY <1>15, <1>18 DEF Apply, List, ApplyNothing, ApplyRefused, ApplyStart
  <1>19. ASSUME NEW q \in Request, Serve(q) PROVE Goal
    <2>1. UNCHANGED <<mut, net>> \/ DropRequest(q)
      BY <1>19 DEF Serve, Begin, Direct, RequestApplied
    <2> HIDE DEF Goal
    <2> QED
      BY <1>9, <1>15, <2>1
  <1>20. ASSUME OwnerSync \/ UNCHANGED vars \/ \E n \in Node : ApplyStep(n) \/ Boot(n) \/ Booted(n)
         PROVE  Goal
    BY <1>15, <1>20
    DEF OwnerSync, vars, ApplyStep, ApplyPurge, ApplyPersist, ApplyInsert, Boot, Booted
  <1> HIDE DEF Goal
  <1>21. Goal
    BY <1>10, <1>14, <1>16, <1>17, <1>18, <1>19, <1>20 DEF Next
  <1> QED
    BY <1>21 DEF Goal

LEMMA PushingStep == OneLog /\ Pushing /\ [Next]_vars => Pushing'
  <1> SUFFICES ASSUME OneLog, Pushing, [Next]_vars PROVE Pushing'
    OBVIOUS
  <1>1. Types /\ Locked /\ Following /\ Types' /\ Following'
    BY FollowingInductive DEF OneLog
  <1>2. \A r \in Mirror : TaskMoved(r)
    BY <1>1, TaskMoves DEF Task, Node
  <1>3. CASE PushMade
    <2>1. mut.waiting = {}
      BY <1>1, <1>3 DEF PushMade, Following, NoMut
    <2>2. (\A m \in net : m.kind # "push") /\ \A r \in Mirror : task[r].kind # "push"
      BY <2>1 DEF Pushing
    <2>3. \A m \in net' : m.to \in Mirror
      BY <1>1 DEF Types, Snapshots
    <2> QED
      BY <1>3, <2>2, <2>3 DEF PushMade, Pushing
  <1>4. CASE PushKept
    <2>1. ASSUME NEW m \in net', m.kind = "push", task'[m.to].kind = "push" PROVE FALSE
      <3>1. m \in net /\ m \in Snapshots /\ m.to \in Mirror /\ task[m.to].kind # "push"
        BY <1>1, <1>4, <2>1 DEF PushKept, Pushing, Types, Snapshots
      <3>2. PICK o \in net : o.to = m.to /\ o.kind = "push" /\ Receive(o)
        BY <1>1, <1>2, <2>1, <3>1, PushedTask
      <3>3. o.rev = m.rev /\ o.content = m.content /\ o \in Snapshots
        BY <1>1, <2>1, <3>1, <3>2 DEF Pushing, Following, Types
      <3>4. o = m
        BY <2>1, <3>1, <3>2, <3>3 DEF Snapshots
      <3> QED
        BY <2>1, <3>2, <3>4 DEF Receive
    <2>2. ASSUME NEW m \in net', m.kind = "push"
          PROVE  m.to \in mut'.waiting /\ m.rev = mut'.rev
      BY <1>4, <2>2 DEF PushKept, Pushing
    <2>3. ASSUME NEW r \in Mirror, task'[r].kind = "push"
          PROVE  /\ r \in mut'.waiting /\ state'[r].rev = mut'.rev
                 /\ task'[r].policies = NextEntry(mut'.rev).policy
      <3>1. r \in Node /\ r # Owner /\ r \in mut'.waiting /\ mut'.rev = mut.rev
        BY <1>4, <2>3, NodeAssumption DEF PushKept, Node
      <3>2. /\ state[r].rev \in 0 .. Len(log) /\ state'[r].content = NextEntry(state'[r].rev)
            /\ \A k \in 0 .. Len(log) : NextEntry(k) = Entry(k)
        BY <3>1, Forward
      <3>3. CASE task[r].kind = "push" /\ task'[r].policies = task[r].policies
        <4>1. state[r].rev = mut.rev /\ task'[r].policies = Entry(mut.rev).policy
          BY <3>3 DEF Pushing
        <4>2. state'[r].rev = state[r].rev
          <5>1. Quiet \/ Commits \/ Follows
            BY <1>1, Moves DEF Following
          <5>2. CASE Follows
            BY <1>1, <3>1, <3>3, <5>2 DEF Follows, Receive, Types, Snapshots, Node
          <5> QED
            BY <1>1, <3>1, <5>1, <5>2 DEF Quiet, Commits, Commit, Types
        <4> QED
          BY <3>1, <3>2, <4>1, <4>2
      <3>4. ASSUME NEW m \in net, m.to = r, m.kind = "push", Receive(m),
                   task'[r].policies = state'[r].content.policy
            PROVE  state'[r].rev = mut'.rev /\ task'[r].policies = NextEntry(mut'.rev).policy
        <4>1. m.rev = mut.rev
          BY <3>4 DEF Pushing
        <4>2. state'[r].rev = m.rev
          BY <1>1, <3>1, <3>4 DEF Receive, Types
        <4> QED
          BY <3>1, <3>2, <3>4, <4>1, <4>2
      <3> QED
        BY <1>1, <1>2, <2>3, <3>1, <3>3, <3>4, PushedTask
    <2> QED
      BY <2>1, <2>2, <2>3 DEF Pushing, Entry, NextEntry
  <1> QED
    BY <1>3, <1>4, PushMoves

LEMMA InitPushing == Init => Pushing
  BY DEF Init, Pushing, NoTask, Task, Node

-----------------------------------------------------------------------------
(* Acknowledgements.  A mirror that the owner has stopped waiting for, and   *)
(* that has not failed, has come to the revision that was pushed and has     *)
(* applied it; a success is reported when all have.                          *)

Reached(r, k) ==
    /\ k <= state[r].rev
    /\ \A c \in Channel : Entry(k).policy[c].purge <= PurgeOf(Prev(r, c))
Acks ==
    /\ \A r \in Mirror : Reached(r, acked)
    /\ mut.held /\ ~mut.failed => \A r \in Mirror \ mut.waiting : Reached(r, mut.rev)
    /\ \A q \in Request : task[q].kind = "read" => task[q].since <= acked
    /\ \A q \in Request : task[q].kind = "read" /\ task[q].step \in {"apply", "serve"} =>
          \E k \in task[q].since .. state[task[q].node].rev : task[q].policies = Entry(k).policy
    /\ \A q \in Request : task[q].step = "serve" => task[q].todo = {}

Cluster == OneLog /\ Reads /\ Effects /\ Pushing

\* A mirror that has reached an entry of the log stays beyond it.
LEMMA ReachedStays ==
    ASSUME Cluster, [Next]_vars, NEW r \in Mirror, NEW k \in 0 .. Len(log), Reached(r, k)
    PROVE  Reached(r, k)'
  <1>1. r \in Node /\ OneLog /\ Effects /\ Types /\ Types'
    BY FollowingInductive DEF Cluster, OneLog, Node
  <1>2. /\ state[r].rev <= state'[r].rev /\ NextEntry(k) = Entry(k)
        /\ state[r].rev \in Nat /\ state'[r].rev \in Nat /\ k \in Nat
    BY <1>1, Forward
  <1>3. k <= state'[r].rev
    BY <1>2 DEF Reached
  <1>4. ASSUME NEW c \in Channel
        PROVE  Entry(k).policy[c].purge <= PurgeOf(Prev(r, c))'
    <2>1. PurgeOf(Prev(r, c)) <= PurgeOf(Prev(r, c))' /\ PurgeOf(Prev(r, c)) \in Nat
      BY <1>1, NodeEffects, PurgeTypes
    <2>2. mem'[r][c] \in Policies \cup {None} /\ applied'[r][c] \in Policies \cup {None}
      BY <1>1 DEF Types
    <2>3. PurgeOf(Prev(r, c))' \in Nat
      BY <2>2, BoundAssumption DEF Prev, PurgeOf, Policies
    <2>4. Entry(k).policy[c].purge \in Nat
      BY <1>1, EntryTypes
    <2> QED
      BY <2>1, <2>3, <2>4 DEF Reached
  <1> QED
    BY <1>2, <1>3, <1>4 DEF Reached, Entry, NextEntry

\* What happens to the change or push that holds the mutation lock.
MutMoved ==
    \/ mut' = NoMut
    \/ mut'.held /\ mut'.waiting = Mirror
    \/ mut'.held /\ mut'.failed
    \/ /\ mut.held /\ mut'.rev = mut.rev /\ mut'.failed = mut.failed
       /\ \/ mut'.waiting = mut.waiting
          \/ \E r \in Mirror : /\ Accepted(r) /\ task[r].kind = "push"
                               /\ mut'.waiting = mut.waiting \ {r}
LEMMA MutChanges ==
    ASSUME OneLog, [Next]_vars
    PROVE  /\ MutMoved
           /\ acked' = acked \/ (/\ mut.held /\ ~mut.failed /\ mut.waiting = {}
                                 /\ acked' = mut.rev)
  <1> DEFINE Goal == /\ MutMoved
                     /\ acked' = acked \/ (/\ mut.held /\ ~mut.failed /\ mut.waiting = {}
                                           /\ acked' = mut.rev)
  <1>1. Types /\ (mut = NoMut \/ mut.held)
    BY DEF OneLog, Following
  <1>2. ASSUME UNCHANGED <<mut, acked>> PROVE Goal
    BY <1>1, <1>2 DEF MutMoved
  <1>3. ASSUME NEW new, NEW by, Mutate(new, by) PROVE Goal
    BY <1>3 DEF Mutate, MutMoved
  <1>4. ASSUME OwnerPush \/ PushDone \/ DropChange PROVE Goal
    BY <1>4 DEF OwnerPush, PushDone, DropChange, MutMoved, history
  <1>5. ASSUME Change PROVE Goal
    <2>1. ASSUME NEW q \in Request, ChangeFor(q) PROVE \E new, by : Mutate(new, by)
      BY <2>1 DEF ChangeFor
    <2>2. \/ \E new, by : Mutate(new, by)
          \/ UNCHANGED <<mut, acked>> \/ OwnerPush \/ PushDone \/ DropChange
      BY <1>5, <2>1 DEF Change, PinRefused, Pin, ReplacePins, SaveAuth, Revoke
    <2> HIDE DEF Goal
    <2> QED
      BY <1>2, <1>3, <1>4, <2>2
  <1>6. ASSUME acked' = acked, mut.held, mut' = [mut EXCEPT !.by = None] PROVE Goal
    <2>1. /\ mut'.held = mut.held /\ mut'.rev = mut.rev /\ mut'.failed = mut.failed
          /\ mut'.waiting = mut.waiting
      BY <1>1, <1>6 DEF Types, Changes
    <2> QED
      BY <1>1, <1>6, <2>1 DEF MutMoved
  <1>7. ASSUME NEW r \in Mirror, PushFails(r) PROVE Goal
    <2>1. mut.held
      BY <1>1, <1>7 DEF PushFails, NoMut
    <2> QED
      BY <1>1, <1>7, <2>1 DEF PushFails, MutMoved, Types, Changes, history
  <1>8. ASSUME NEW r \in Mirror, Accepted(r) PROVE Goal
    <2>1. CASE task[r].kind # "push"
      BY <1>2, <1>8, <2>1 DEF Accepted, history
    <2>2. CASE task[r].kind = "push"
      <3>1. mut' = [mut EXCEPT !.waiting = mut.waiting \ {r}] /\ acked' = acked
        BY <1>8, <2>2 DEF Accepted, history
      <3>2. mut = NoMut => mut' = NoMut
        <4>1. mut = NoMut => mut.waiting \ {r} = mut.waiting
          BY DEF NoMut
        <4>2. mut = NoMut => [mut EXCEPT !.waiting = mut.waiting] = mut
          BY DEF NoMut
        <4> QED
          BY <3>1, <4>1, <4>2, Zenon
      <3>3. /\ mut'.held = mut.held /\ mut'.rev = mut.rev /\ mut'.failed = mut.failed
            /\ mut'.waiting = mut.waiting \ {r}
        BY <1>1, <3>1 DEF Types, Changes
      <3> QED
        BY <1>1, <1>8, <2>2, <3>1, <3>2, <3>3 DEF MutMoved
    <2> QED
      BY <2>1, <2>2
  <1>9. ASSUME NEW r \in Mirror, Replicate(r) PROVE Goal
    <2>1. Pull(r) \/ DropAccept(r) => UNCHANGED <<mut, acked>>
      BY DEF Pull, DropAccept, history
    <2> HIDE DEF Goal
    <2> QED
      BY <1>2, <1>7, <1>8, <1>9, <2>1 DEF Replicate
  <1>10. ASSUME NEW m \in net, Deliver(m) PROVE Goal
    BY <1>2, <1>10 DEF Deliver, Lose, Refuse, Receive, history
  <1>11. ASSUME NEW t \in Task, Apply(t) PROVE Goal
    BY <1>2, <1>11 DEF Apply, List, ApplyNothing, ApplyRefused, ApplyStart, history
  <1>12. ASSUME NEW q \in Request, Serve(q) PROVE Goal
    <2>1. \/ UNCHANGED <<mut, acked>>
          \/ acked' = acked /\ mut' = NoMut
          \/ acked' = acked /\ mut.by = q /\ mut' = [mut EXCEPT !.by = None]
      BY <1>12 DEF Serve, Begin, Direct, RequestApplied, DropRequest, history
    <2>2. mut.by = q => mut.held
      BY <1>1, NodeAssumption DEF NoMut
    <2> QED
      BY <1>2, <1>6, <2>1, <2>2 DEF MutMoved
  <1>13. ASSUME \/ OwnerSync \/ UNCHANGED vars
                \/ \E n \in Node : ApplyStep(n) \/ Boot(n) \/ Booted(n)
         PROVE  Goal
    BY <1>2, <1>13
    DEF OwnerSync, vars, ApplyStep, ApplyPurge, ApplyPersist, ApplyInsert, Boot, Booted, history
  <1>14. ASSUME NEW n \in Node, Crash(n) PROVE Goal
    <2>1. /\ acked' = acked
          /\ \/ mut' = mut \/ mut' = NoMut
             \/ mut.by \in Task /\ mut' = [mut EXCEPT !.by = None]
      BY <1>14 DEF Crash, history
    <2>2. mut.by \in Task => mut.held
      BY <1>1, Constants DEF NoMut
    <2> QED
      BY <1>2, <1>6, <2>1, <2>2 DEF MutMoved
  <1> HIDE DEF Goal
  <1>15. Goal
    BY <1>5, <1>9, <1>10, <1>11, <1>12, <1>13, <1>14 DEF Next
  <1> QED
    BY <1>15 DEF Goal

\* A mirror that acknowledges a push has applied it.
LEMMA AcceptedReached ==
    ASSUME Cluster, NEW r \in Mirror, Accepted(r), task[r].kind = "push"
    PROVE  Reached(r, mut.rev)
  <1>1. /\ task[r].step = "apply" /\ task[r].todo = {} /\ state[r].rev = mut.rev
        /\ task[r].policies = Entry(mut.rev).policy
    BY DEF Accepted, Applied, Cluster, Pushing
  <1>2. r \in Node /\ r \in Task /\ r \notin Request /\ TaskOf(r, task[r]) /\ state[r].rev \in Nat
    BY NodeAssumption, BoundAssumption DEF Cluster, OneLog, Types, TaskTypes, Node, Task, States
  <1>3. task[r].node = r
    BY <1>1, <1>2 DEF TaskOf, NodeTask, NoTask
  <1>4. \A c \in Channel : task[r].policies[c].purge <= PurgeOf(Prev(r, c))
    BY <1>1, <1>2, <1>3 DEF Cluster, Effects, TaskInStep, Covers
  <1> QED
    BY <1>1, <1>2, <1>4 DEF Reached

LEMMA AcksStep == Cluster /\ Acks /\ [Next]_vars => Acks'
  <1> SUFFICES ASSUME Cluster, Acks, [Next]_vars PROVE Acks'
    OBVIOUS
  <1>1. OneLog /\ Types /\ Locked /\ Following /\ Types' /\ Following'
    BY FollowingInductive DEF Cluster, OneLog
  <1>2. /\ acked \in 0 .. Len(log) /\ (mut.held => mut.rev \in 0 .. Len(log))
        /\ Len(log) \in Nat /\ acked' \in Nat
    BY <1>1, EntryTypes DEF Following, NoMut, Types
  <1>3. MutMoved /\ (acked' = acked \/ (/\ mut.held /\ ~mut.failed /\ mut.waiting = {}
                                       /\ acked' = mut.rev))
    BY <1>1, MutChanges
  <1>4. ASSUME NEW r \in Mirror PROVE Reached(r, acked)'
    <2>1. PICK k \in 0 .. Len(log) : k = acked' /\ Reached(r, k)
      BY <1>2, <1>3 DEF Acks
    <2>2. Reached(r, k)'
      BY <2>1, ReachedStays
    <2> QED
      BY <2>1, <2>2 DEF Reached, Entry
  <1>5. ASSUME mut'.held, ~mut'.failed, NEW r \in Mirror \ mut'.waiting
        PROVE  Reached(r, mut.rev)' /\ mut'.rev = mut.rev
    <2>1. /\ mut.held /\ mut'.rev = mut.rev /\ ~mut.failed
          /\ \/ mut'.waiting = mut.waiting
             \/ \E s \in Mirror : /\ Accepted(s) /\ task[s].kind = "push"
                                  /\ mut'.waiting = mut.waiting \ {s}
      BY <1>3, <1>5 DEF MutMoved, NoMut
    <2>2. PICK k \in 0 .. Len(log) : k = mut.rev
      BY <1>2, <2>1
    <2>3. Reached(r, k)
      BY <1>5, <2>1, <2>2, AcceptedReached DEF Acks
    <2>4. Reached(r, k)'
      BY <2>3, ReachedStays
    <2> QED
      BY <2>1, <2>2, <2>4 DEF Reached, Entry
  <1>6. acked <= acked'
    BY <1>1, <1>2, <1>3 DEF Following, NoMut
  <1>7. ASSUME NEW q \in Request
        PROVE  q \in Task /\ task[q] \in Tasks /\ task[q].since \in Nat /\ TaskMoved(q)
    BY <1>1, TaskMoves DEF Types, TaskTypes, Tasks, Task
  <1>8. ASSUME NEW q \in Request, task'[q].kind = "read" PROVE task'[q].since <= acked'
    <2>1. task'[q] # NoTask
      BY <1>8 DEF NoTask
    <2>2. ~GivesUp(q) /\ ~Synchronizes(q)
      BY NodeAssumption DEF GivesUp, Synchronizes, Node
    <2>3. (task[q].kind = "read" /\ task'[q].since = task[q].since) \/ task'[q].since = acked
      BY <1>7, <1>8, <2>1, <2>2
      DEF TaskMoved, TicksOff, Lists, Comes, Changed, GoesOn, Serves, SameRequest, Tasks
    <2> QED
      BY <1>2, <1>6, <1>7, <2>3 DEF Acks
  <1>9. ASSUME NEW q \in Request, task'[q].kind = "read", task'[q].step \in {"apply", "serve"}
        PROVE  \E k \in task'[q].since .. state'[task'[q].node].rev :
                  task'[q].policies = NextEntry(k).policy
    <2>1. KeepsOn(q) \/ Lists(q)
      <3>1. ~Synchronizes(q)
        BY NodeAssumption DEF Synchronizes, Node
      <3> QED
        BY <1>1, <1>7, <1>9, <3>1, TaskKeeps
    <2>2. PICK n \in Node : n = task[q].node
      BY <1>7 DEF Tasks
    <2>3. /\ state[n].rev \in 0 .. Len(log) /\ state'[n].rev \in Nat
          /\ state[n].rev <= state'[n].rev /\ state[n].content = Entry(state[n].rev)
          /\ \A k \in 0 .. Len(log) : NextEntry(k) = Entry(k)
      BY <1>1, <2>2, Forward
    <2>4. CASE KeepsOn(q)
      <3>1. /\ task[q].kind = "read" /\ task[q].step \in {"apply", "serve"}
            /\ task'[q].since = task[q].since /\ task'[q].node = n
            /\ task'[q].policies = task[q].policies
        BY <1>9, <2>2, <2>4 DEF KeepsOn, SameRequest, Serves
      <3>2. PICK k \in task[q].since .. state[n].rev : task[q].policies = Entry(k).policy
        BY <2>2, <3>1 DEF Acks
      <3>3. k \in 0 .. Len(log) /\ k \in task'[q].since .. state'[n].rev
        BY <1>2, <1>7, <2>3, <3>1, <3>2
      <3> QED
        BY <2>3, <3>1, <3>2, <3>3
    <2>5. CASE Lists(q)
      <3>1. /\ task[q].kind = "read" /\ task'[q].since = task[q].since /\ task'[q].node = n
            /\ state' = state /\ task'[q].policies = state[n].content.policy
        BY <1>9, <2>2, <2>5 DEF Lists, SameRequest
      <3>2. acked <= state[n].rev
        BY <1>1, <1>2, <2>3 DEF Acks, Reached, Following, Node
      <3>3. task[q].since <= acked
        BY <3>1 DEF Acks
      <3>4. state[n].rev \in task'[q].since .. state'[n].rev
        BY <1>2, <1>7, <2>3, <3>1, <3>2, <3>3
      <3>5. task'[q].policies = NextEntry(state[n].rev).policy
        BY <2>3, <3>1
      <3> QED
        BY <3>1, <3>4, <3>5
    <2> QED
      BY <2>1, <2>4, <2>5
  <1>10. ASSUME NEW q \in Request, task'[q].step = "serve" PROVE task'[q].todo = {}
    <2>1. KeepsOn(q)
      BY <1>1, <1>7, <1>10, TaskKeeps DEF Synchronizes, Lists
    <2> QED
      BY <1>10, <2>1 DEF KeepsOn, Serves, Acks
  <1> QED
    BY <1>4, <1>5, <1>8, <1>9, <1>10 DEF Acks, Entry, NextEntry

LEMMA InitAcks == Init => Acks
  <1> SUFFICES ASSUME Init PROVE Acks
    OBVIOUS
  <1>1. acked = 0 /\ Entry(0) = Nothing /\ ~mut.held
    BY DEF Init, Entry, NoMut
  <1>2. \A c \in Channel : Nothing.policy[c].purge = 0
    BY DEF Nothing, NoPolicies, NoPolicy
  <1>3. \A r \in Mirror : Reached(r, 0)
    BY <1>1, <1>2 DEF Init, Reached, Prev, PurgeOf, Node
  <1>4. \A q \in Request : task[q] = NoTask
    BY DEF Init, Task
  <1> QED
    BY <1>1, <1>3, <1>4 DEF Acks, NoTask

-----------------------------------------------------------------------------
\* The inductive invariant: the parts above, in the order they rest on each other.
Invariant == Cluster /\ Acks

LEMMA InvariantHolds == Spec => []Invariant
  <1>1. Init => Invariant
    BY InitTypes, InitLocked, InitFollowing, InitReads, InitEffects, InitPushing, InitAcks
    DEF Invariant, Cluster, OneLog
  <1>2. Invariant /\ [Next]_vars => Invariant'
    BY FollowingInductive, ReadsStep, EffectsStep, PushingStep, AcksStep DEF Invariant, Cluster
  <1> QED
    BY <1>1, <1>2, PTL DEF Spec

\* Every variable has the type the code gives it, the log stays within the revisions
\* and the last success is an entry of it.
THEOREM ControlTypes == Spec => []TypeOK
  <1>1. Invariant => TypeOK
    <2> SUFFICES ASSUME Invariant PROVE TypeOK
      OBVIOUS
    <2>1. Types /\ Following
      BY DEF Invariant, Cluster, OneLog
    <2>2. ASSUME NEW n \in Node
          PROVE  /\ state[n].known \in BOOLEAN /\ state[n].ready \in BOOLEAN
                 /\ state[n].rev \in 0 .. MaxRev
                 /\ DOMAIN state[n].content.policy = Channel
                 /\ state[n].content.sessions \subseteq Token
                 /\ up[n] \in {"down", "starting", "up"} /\ blocked[n] \subseteq Channel
                 /\ lock[n].by \in Task \cup {None}
                 /\ \A c \in Channel :
                       /\ cutoff[n][c] \in 0 .. MaxTime
                       /\ applied[n][c] = None \/ applied[n][c].purge \in 0 .. MaxTime
                       /\ mem[n][c] = None \/ mem[n][c].purge \in 0 .. MaxTime
      <3>1. state[n] \in States /\ lock[n] \in Locks /\ blocked[n] \in SUBSET Channel
        BY <2>1 DEF Types
      <3>2. lock[n].by \in Task \cup {None}
        BY <3>1 DEF Locks, Free
      <3>3. \A c \in Channel : /\ cutoff[n][c] \in 0 .. MaxTime
                               /\ applied[n][c] = None \/ applied[n][c].purge \in 0 .. MaxTime
                               /\ mem[n][c] = None \/ mem[n][c].purge \in 0 .. MaxTime
        BY <2>1 DEF Types, Policies
      <3>4. up[n] \in {"down", "starting", "up"}
        BY <2>1 DEF Types
      <3> QED
        BY <3>1, <3>2, <3>3, <3>4 DEF States, Contents
    <2>3. mut.waiting \subseteq Mirror /\ mut.by \in Request \cup {None}
      BY <2>1 DEF Types, Changes
    <2>4. \A m \in net : m.to \in Mirror /\ m.rev \in 0 .. MaxRev
      BY <2>1 DEF Types, Snapshots
    <2>5. \A t \in Task : /\ task[t].node \in Node /\ task[t].home \in Node
                          /\ task[t].todo \subseteq Channel
      BY <2>1 DEF Types, TaskTypes, Tasks
    <2>6. state[Owner].rev \in 0 .. MaxRev
      BY <2>2 DEF Node
    <2>7. crashes \in 0 .. MaxCrash /\ Len(log) <= MaxRev /\ acked \in 0 .. Len(log)
      BY <2>1, <2>6, BoundAssumption DEF Types, Following
    <2> QED
      BY <2>2, <2>3, <2>4, <2>5, <2>7 DEF TypeOK
  <1> QED
    BY <1>1, InvariantHolds, PTL

LEMMA PrevEnforced ==
    ASSUME Invariant, NEW n \in Node, NEW c \in Channel
    PROVE  PurgeOf(Prev(n, c)) <= cutoff[n][c] /\ PurgeOf(Prev(n, c)) \in Nat /\ cutoff[n][c] \in Nat
  <1>1. InStep(n, c) /\ Types
    BY DEF Invariant, Cluster, OneLog, Effects
  <1>2. /\ PurgeOf(mem[n][c]) \in Nat /\ PurgeOf(applied[n][c]) \in Nat
        /\ PurgeOf(Prev(n, c)) \in Nat /\ cutoff[n][c] \in Nat
    BY <1>1, PurgeTypes
  <1> QED
    BY <1>1, <1>2 DEF InStep, Prev

\* A read that began after a change was reported a success is served, on whatever node,
\* with a policy no older than that change, by a store that has purged what it purges.
THEOREM AckedReads == Spec => []ReadsHonorAcks
  <1>1. Invariant => ReadsHonorAcks
    <2> SUFFICES ASSUME Invariant, NEW q \in Request, task[q].step = "serve"
                 PROVE  LET c == task[q].chan
                            p == task[q].policies[c]
                        IN /\ \E k \in task[q].since .. Len(log) : Entry(k).policy[c] = p
                           /\ cutoff[task[q].home][c] >= p.purge
      BY DEF ReadsHonorAcks
    <2>1. OneLog /\ Types /\ Following /\ Acks /\ Effects
      BY DEF Invariant, Cluster, OneLog
    <2>2. q \in Task /\ task[q] \in Tasks /\ RequestTask(task[q])
      <3>1. TaskOf(q, task[q]) /\ q \notin Node /\ q \in Task
        BY <2>1, NodeAssumption DEF Types, TaskTypes, Task, Node
      <3> QED
        BY <3>1 DEF TaskOf, NoTask
    <2> DEFINE c == task[q].chan
               n == task[q].home
    <2>3. /\ c \in Channel /\ n \in Node /\ task[q].kind = "read" /\ task[q].node = n
          /\ task[q].since \in Nat /\ task[q].todo = {}
      BY <2>1, <2>2 DEF RequestTask, Tasks, Acks
    <2>4. PICK k \in task[q].since .. state[n].rev : task[q].policies = Entry(k).policy
      BY <2>1, <2>3 DEF Acks
    <2>5. state[n].rev \in 0 .. Len(log) /\ Len(log) \in Nat
      BY <2>1, <2>3, EntryTypes DEF Following
    <2>6. k \in task[q].since .. Len(log)
      BY <2>3, <2>4, <2>5
    <2>7. task[q].policies[c].purge <= PurgeOf(Prev(n, c))
      BY <2>1, <2>2, <2>3 DEF Effects, TaskInStep, Covers
    <2>8. task[q].policies[c].purge \in Nat
      BY <2>1, <2>2, <2>3, ApplyTypes, BoundAssumption
    <2>9. PurgeOf(Prev(n, c)) <= cutoff[n][c] /\ PurgeOf(Prev(n, c)) \in Nat /\ cutoff[n][c] \in Nat
      BY <2>3, PrevEnforced
    <2> QED
      BY <2>4, <2>6, <2>7, <2>8, <2>9
  <1> QED
    BY <1>1, InvariantHolds, PTL

LEMMA AckedCutoff ==
    ASSUME Invariant, NEW r \in Mirror, NEW c \in Channel
    PROVE  cutoff[r][c] >= Entry(acked).policy[c].purge
  <1>1. Reached(r, acked) /\ Types /\ acked \in 0 .. Len(log)
    BY DEF Invariant, Cluster, OneLog, Acks, Following
  <1>2. Entry(acked).policy[c].purge \in Nat
    BY <1>1, EntryTypes
  <1>3. PurgeOf(Prev(r, c)) <= cutoff[r][c] /\ PurgeOf(Prev(r, c)) \in Nat /\ cutoff[r][c] \in Nat
    BY PrevEnforced DEF Node
  <1> QED
    BY <1>1, <1>2, <1>3 DEF Reached

\* A success means that every mirror's store has purged what the change purges,
\* whatever the clocks and the clients do.
THEOREM AckedIsPurged ==
    Spec => [](\A r \in Mirror, c \in Channel : cutoff[r][c] >= Entry(acked).policy[c].purge)
  <1>1. Invariant => \A r \in Mirror, c \in Channel : cutoff[r][c] >= Entry(acked).policy[c].purge
    BY AckedCutoff
  <1> QED
    BY <1>1, InvariantHolds, PTL

\* The control plane implements the log it promises: the owner appends, a mirror moves
\* forward to an entry, and an acknowledgement comes when every mirror is there.
THEOREM ControlImplementsLog == Spec => ImplementsLog
  <1> USE DEF Promise!Init, Promise!Next, Promise!logVars, Promise!Entry
  <1>1. Init => Promise!Init
    BY DEF Init, Node
  <1>2. Invariant /\ Invariant' /\ [Next]_vars => [Promise!Next]_(Promise!logVars)
    <2> SUFFICES ASSUME Invariant, Invariant', [Next]_vars
                 PROVE  [Promise!Next]_(Promise!logVars)
      OBVIOUS
    <2>1. /\ OneLog /\ Types /\ Locked /\ Following /\ Types' /\ Following' /\ Acks /\ Acks'
      BY DEF Invariant, Cluster, OneLog
    <2>2. Quiet \/ Commits \/ Follows
      BY <2>1, Moves DEF Following
    <2>3. acked' = acked \/ (/\ mut.held /\ ~mut.failed /\ mut.waiting = {} /\ acked' = mut.rev)
      BY <2>1, MutChanges
    <2>4. CASE Commits
      <3>1. PICK new \in Contents : Commit(new) /\ ~mut.held
        BY <2>4 DEF Commits
      <3>2. log' = Append(log, new) /\ log \in Seq(Contents)
        BY <2>1, <3>1 DEF Commit, Types
      <3>3. Len(log') = Len(log) + 1 /\ SubSeq(log', 1, Len(log)) = log
        BY <3>2, AppendProperties
      <3>4. \A r \in Mirror : state'[r] = state[r]
        BY <2>1, <3>1, NodeAssumption DEF Commit, Types, Node
      <3>5. acked' = acked
        BY <2>3, <3>1
      <3> QED
        BY <3>3, <3>4, <3>5 DEF Promise!Extend
    <2>5. CASE Quiet
      <3>1. log' = log /\ \A r \in Mirror : /\ state'[r].rev = state[r].rev
                                            /\ state'[r].content = state[r].content
        BY <2>5 DEF Quiet, Node
      <3>2. acked' \in acked .. Len(log)
        BY <2>1, <2>3, <3>1 DEF Following, NoMut
      <3>3. \A r \in Mirror : state[r].rev >= acked'
        <4> SUFFICES ASSUME NEW r \in Mirror PROVE state[r].rev >= acked'
          OBVIOUS
        <4>1. acked' <= state'[r].rev /\ state'[r].rev \in Nat /\ acked' \in Nat
          BY <2>1, BoundAssumption DEF Acks, Reached, Types, States, Node
        <4> QED
          BY <3>1, <4>1
      <3> QED
        BY <3>1, <3>2, <3>3 DEF Promise!Acknowledge
    <2>6. CASE Follows
      <3>1. PICK m \in net : Receive(m) /\ log' = log
        BY <2>6 DEF Follows
      <3>2. acked' = acked
        BY <3>1 DEF Receive, history
      <3>3. PICK r \in Mirror : r = m.to /\ r \in Node /\ m.rev \in 0 .. Len(log) /\ m.content = Entry(m.rev)
        BY <2>1 DEF Types, Snapshots, Following, Node
      <3>4. CASE state' = state
        BY <3>1, <3>2, <3>4
      <3>5. CASE /\ state'[r].rev = m.rev /\ state'[r].content = m.content
                 /\ \A s \in Mirror : s # r => state'[s] = state[s]
        <4>1. state[r].rev <= state'[r].rev /\ state[r].rev \in 0 .. Len(log)
          BY <2>1, <3>3, Forward
        <4>2. m.rev \in state[r].rev .. Len(log)
          BY <3>3, <3>5, <4>1
        <4>3. [s \in Mirror |-> state'[s].rev] = [[s \in Mirror |-> state[s].rev] EXCEPT ![r] = m.rev]
          BY <3>5
        <4>4. [s \in Mirror |-> state'[s].content]
                 = [[s \in Mirror |-> state[s].content] EXCEPT ![r] = Entry(m.rev)]
          BY <3>3, <3>5
        <4>5. Promise!Follow(r)
          BY <3>1, <3>2, <4>2, <4>3, <4>4, Zenon DEF Promise!Follow, Entry
        <4> QED
          BY <4>5
      <3>6. state' = state \/ /\ state'[r].rev = m.rev /\ state'[r].content = m.content
                              /\ \A s \in Mirror : s # r => state'[s] = state[s]
        BY <2>1, <3>1, <3>3 DEF Receive, Types, Node
      <3> QED
        BY <3>4, <3>5, <3>6
    <2> QED
      BY <2>2, <2>4, <2>5, <2>6
  <1> QED
    BY <1>1, <1>2, InvariantHolds, PTL DEF Spec, ImplementsLog, Promise!Spec

-----------------------------------------------------------------------------
(* What is blocked.  Clocks are not behind the cutoffs that are recorded, so *)
(* that opting in or out always moves a channel's purge; and one request is  *)
(* in progress at a time: set_ignored writes the block store outside the     *)
(* mutex, and with two of them the store can keep the earlier of two answers. *)

Functional ==
    \A j, k \in 0 .. Len(log), c \in Channel :
        Entry(j).policy[c].purge = Entry(k).policy[c].purge
            => Entry(j).policy[c].ignored = Entry(k).policy[c].ignored

LEMMA WithPolicyIs ==
    ASSUME Types, NEW c \in Channel, NEW p
    PROVE  \A d \in Channel : WithPolicy(c, p).policy[d] = IF d = c THEN p ELSE OwnerPolicy(d)
  <1>1. state[Owner].content \in Contents
    BY DEF Types, States, Node
  <1>2. WithPolicy(c, p).policy = [state[Owner].content.policy EXCEPT ![c] = p]
    BY <1>1 DEF WithPolicy, Contents
  <1> QED
    BY <1>1, <1>2 DEF Contents, OwnerPolicy

\* What is committed: the policy a request asks for, or what leaves purges and opt-outs.
Asked(new, q, p) ==
    /\ ChangeFor(q) /\ task' = task /\ mut'.by = q
    /\ task[q].step = "mutate" /\ task[q].chan \in Channel
    /\ \A d \in Channel : new.policy[d] = IF d = task[q].chan THEN p ELSE OwnerPolicy(d)
    /\ p.purge >= OwnerPolicy(task[q].chan).purge
    /\ task[q].kind \in {"ignore", "unignore"} => p.ignored = (task[q].kind = "ignore")
    /\ p.ignored # OwnerPolicy(task[q].chan).ignored /\ ~Skew =>
          p.purge > OwnerPolicy(task[q].chan).purge
Harmless(new) ==
    \A c \in Channel : /\ new.policy[c].ignored = OwnerPolicy(c).ignored
                       /\ new.policy[c].purge = OwnerPolicy(c).purge
Committed(new) ==
    /\ log' = Append(log, new) /\ new \in Contents
    /\ Harmless(new) \/ \E q \in Request, p \in Policies : Asked(new, q, p)

LEMMA ChangeMoves ==
    ASSUME OneLog, [Next]_vars
    PROVE  /\ log' = log \/ \E new \in Contents : Committed(new)
           /\ \/ mut'.by = None \/ mut'.by = mut.by
              \/ \E q \in Request, new \in Contents, p \in Policies :
                    Asked(new, q, p) /\ log' = Append(log, new)
  <1> DEFINE Goal == /\ log' = log \/ \E new \in Contents : Committed(new)
                     /\ \/ mut'.by = None \/ mut'.by = mut.by
                        \/ \E q \in Request, new \in Contents, p \in Policies :
                              Asked(new, q, p) /\ log' = Append(log, new)
  <1>1. Types
    BY DEF OneLog
  <1>2. ASSUME log' = log, mut' = NoMut \/ mut'.by = mut.by PROVE Goal
    BY <1>2 DEF NoMut
  <1>3. ASSUME NEW new \in Contents, Harmless(new), Mutate(new, None) PROVE Goal
    BY <1>3 DEF Mutate, Commit, Committed
  <1>4. ASSUME NEW q \in Request, ChangeFor(q) PROVE Goal
    <2>1. PICK p \in Policies :
              /\ Mutate(WithPolicy(task[q].chan, p), q)
              /\ RequestTask(task[q]) /\ task[q].step = "mutate"
              /\ p.purge >= OwnerPolicy(task[q].chan).purge
              /\ task[q].kind \in {"ignore", "unignore"} => p.ignored = (task[q].kind = "ignore")
              /\ p.ignored # OwnerPolicy(task[q].chan).ignored /\ ~Skew =>
                    p.purge > OwnerPolicy(task[q].chan).purge
      BY <1>1, <1>4, RequestedPolicy
    <2> DEFINE new == WithPolicy(task[q].chan, p)
    <2>2. task[q].chan \in Channel
      BY <2>1 DEF RequestTask
    <2>3. /\ new \in Contents
          /\ \A d \in Channel : new.policy[d] = IF d = task[q].chan THEN p ELSE OwnerPolicy(d)
      BY <1>1, <2>1, <2>2, PolicyTypes, WithPolicyIs
    <2>4. log' = Append(log, new) /\ mut'.by = q /\ task' = task
      BY <2>1 DEF Mutate, Commit
    <2> HIDE DEF new
    <2>5. Asked(new, q, p)
      BY <1>4, <2>1, <2>2, <2>3, <2>4 DEF Asked
    <2> QED
      BY <1>4, <2>3, <2>4, <2>5 DEF Committed
  <1>5. ASSUME NEW c \in Channel, PinRefused(c) PROVE Goal
    <2>1. state[Owner].content \in Contents /\ Harmless(state[Owner].content)
      BY <1>1, OtherChanges DEF Harmless
    <2> QED
      BY <1>5, <2>1 DEF PinRefused, Commit, Committed
  <1>6. ASSUME NEW c \in Channel, NEW pin \in BOOLEAN, Pin(c, pin) PROVE Goal
    <2> DEFINE new == WithPolicy(c, [OwnerPolicy(c) EXCEPT !.pin = pin])
    <2>1. new \in Contents /\ Harmless(new)
      BY <1>1, OtherChanges DEF Harmless
    <2> QED
      BY <1>3, <1>6, <2>1 DEF Pin
  <1>7. ASSUME NEW pins \in SUBSET Channel, ReplacePins(pins) PROVE Goal
    <2> DEFINE new == [state[Owner].content EXCEPT !.policy =
                          [c \in Channel |-> [@[c] EXCEPT !.pin = c \in pins]]]
    <2>1. new \in Contents /\ Harmless(new)
      BY <1>1, OtherChanges DEF Harmless
    <2> QED
      BY <1>3, <1>7, <2>1 DEF ReplacePins
  <1>8. ASSUME NEW t \in Token, SaveAuth(t) \/ Revoke(t) PROVE Goal
    <2> DEFINE with == [state[Owner].content EXCEPT !.sessions = @ \cup {t}]
               without == [state[Owner].content EXCEPT !.sessions = @ \ {t}]
    <2>1. with \in Contents /\ Harmless(with) /\ without \in Contents /\ Harmless(without)
      BY <1>1, OtherChanges DEF Harmless
    <2> QED
      BY <1>3, <1>8, <2>1 DEF SaveAuth, Revoke
  <1>9. ASSUME OwnerPush \/ PushDone \/ DropChange PROVE Goal
    BY <1>9 DEF OwnerPush, PushDone, DropChange, history, NoMut
  <1>10. ASSUME UNCHANGED <<mut, log>> PROVE Goal
    BY <1>2, <1>10
  <1>11. ASSUME NEW r \in Mirror, Replicate(r) PROVE Goal
    <2>1. log' = log
      BY <1>11 DEF Replicate, PushFails, Pull, DropAccept, Accepted, history
    <2>2. mut' = mut \/ mut' = [mut EXCEPT !.waiting = @ \ {r}]
                     \/ mut' = [mut EXCEPT !.waiting = @ \ {r}, !.failed = TRUE]
      BY <1>11 DEF Replicate, PushFails, Pull, DropAccept, Accepted
    <2>3. mut'.by = mut.by
      BY <1>1, <2>2 DEF Types, Changes
    <2> QED
      BY <1>2, <2>1, <2>3
  <1>12. ASSUME NEW m \in net, Deliver(m) PROVE Goal
    BY <1>10, <1>12 DEF Deliver, Lose, Refuse, Receive, history
  <1>13. ASSUME NEW t \in Task, Apply(t) PROVE Goal
    BY <1>10, <1>13 DEF Apply, List, ApplyNothing, ApplyRefused, ApplyStart, history
  <1>14. ASSUME log' = log, mut' \in {mut, NoMut, [mut EXCEPT !.by = None]} PROVE Goal
    <2>1. mut'.by = None \/ mut'.by = mut.by
      BY <1>1, <1>14 DEF Types, Changes, NoMut
    <2> QED
      BY <1>14, <2>1
  <1>15. ASSUME NEW q \in Request, Serve(q) PROVE Goal
    <2>1. log' = log /\ mut' \in {mut, NoMut, [mut EXCEPT !.by = None]}
      BY <1>15 DEF Serve, Begin, Direct, RequestApplied, DropRequest, history
    <2> QED
      BY <1>14, <2>1
  <1>16. ASSUME \/ OwnerSync \/ UNCHANGED vars
                \/ \E n \in Node : ApplyStep(n) \/ Boot(n) \/ Booted(n)
         PROVE  Goal
    BY <1>10, <1>16
    DEF OwnerSync, vars, ApplyStep, ApplyPurge, ApplyPersist, ApplyInsert, Boot, Booted, history
  <1>17. ASSUME NEW n \in Node, Crash(n) PROVE Goal
    <2>1. log' = log /\ mut' \in {mut, NoMut, [mut EXCEPT !.by = None]}
      BY <1>17 DEF Crash, history
    <2> QED
      BY <1>14, <2>1
  <1> HIDE DEF Goal
  <1>18. Change => Goal
    BY <1>4, <1>5, <1>6, <1>7, <1>8, <1>9 DEF Change
  <1>19. Goal
    BY <1>11, <1>12, <1>13, <1>15, <1>16, <1>17, <1>18 DEF Next
  <1> QED
    BY <1>19 DEF Goal

LEMMA NewEntry ==
    ASSUME OneLog, NEW new \in Contents, log' = Append(log, new)
    PROVE  /\ Len(log) \in Nat /\ Len(log') = Len(log) + 1
           /\ NextEntry(Len(log) + 1) = new
           /\ \A k \in 0 .. Len(log) : NextEntry(k) = Entry(k)
           /\ \A c \in Channel : OwnerPolicy(c) = Entry(Len(log)).policy[c]
  <1>1. log \in Seq(Contents) /\ Len(log) \in Nat
    BY DEF OneLog, Types
  <1>2. /\ Len(log') = Len(log) + 1 /\ log'[Len(log) + 1] = new
        /\ \A k \in 1 .. Len(log) : log'[k] = log[k]
    BY <1>1, AppendProperties
  <1>3. \A c \in Channel : OwnerPolicy(c) = Entry(Len(log)).policy[c]
    BY DEF OneLog, Following, OwnerPolicy, Node
  <1> QED
    BY <1>1, <1>2, <1>3 DEF Entry, NextEntry

\* Without skew, a channel's purge tells whether it is opted out.
LEMMA FunctionalStep == OneLog /\ Functional /\ ~Skew /\ [Next]_vars => Functional'
  <1> SUFFICES ASSUME OneLog, Functional, ~Skew, [Next]_vars PROVE Functional'
    OBVIOUS
  <1>1. CASE log' = log
    BY <1>1 DEF Functional, Entry
  <1>2. ASSUME NEW new \in Contents, Committed(new) PROVE Functional'
    <2>1. /\ Len(log) \in Nat /\ Len(log') = Len(log) + 1
          /\ NextEntry(Len(log) + 1) = new
          /\ \A k \in 0 .. Len(log) : NextEntry(k) = Entry(k)
          /\ \A c \in Channel : OwnerPolicy(c) = Entry(Len(log)).policy[c]
      BY <1>2, NewEntry DEF Committed
    <2>2. ASSUME NEW j \in 0 .. Len(log), NEW c \in Channel,
                 Entry(j).policy[c].purge = new.policy[c].purge
          PROVE  Entry(j).policy[c].ignored = new.policy[c].ignored
      <3> DEFINE old == Entry(Len(log)).policy[c]
      <3>1. /\ Entry(j).policy[c].purge <= old.purge /\ Len(log) \in 0 .. Len(log)
            /\ Entry(j).policy[c].purge \in Nat /\ old.purge \in Nat
        BY <2>1, EntryTypes DEF OneLog, PurgesGrow
      <3>2. Entry(j).policy[c].purge = old.purge => Entry(j).policy[c].ignored = old.ignored
        BY <3>1 DEF Functional
      <3>3. CASE Harmless(new)
        BY <2>1, <2>2, <3>2, <3>3 DEF Harmless
      <3>4. ASSUME NEW q \in Request, NEW p \in Policies, Asked(new, q, p)
            PROVE  Entry(j).policy[c].ignored = new.policy[c].ignored
        <4>1. CASE c # task[q].chan
          BY <2>1, <2>2, <3>2, <3>4, <4>1 DEF Asked
        <4>2. CASE c = task[q].chan
          <5>1. /\ new.policy[c] = p /\ p.purge >= old.purge /\ p.purge \in Nat
                /\ p.ignored # old.ignored => p.purge > old.purge
            BY <2>1, <3>4, <4>2, BoundAssumption DEF Asked, Policies
          <5>2. p.purge = old.purge
            BY <2>2, <3>1, <5>1
          <5> QED
            BY <2>2, <3>1, <3>2, <5>1, <5>2
        <4> QED
          BY <4>1, <4>2
      <3> QED
        BY <1>2, <3>3, <3>4 DEF Committed
    <2>3. \A k \in 0 .. Len(log') : k \in 0 .. Len(log) \/ k = Len(log) + 1
      BY <2>1
    <2>4. ASSUME NEW j \in 0 .. Len(log'), NEW k \in 0 .. Len(log'), NEW c \in Channel,
                 NextEntry(j).policy[c].purge = NextEntry(k).policy[c].purge
          PROVE  NextEntry(j).policy[c].ignored = NextEntry(k).policy[c].ignored
      <3>1. CASE j \in 0 .. Len(log) /\ k \in 0 .. Len(log)
        BY <2>1, <2>4, <3>1 DEF Functional
      <3>2. CASE j = Len(log) + 1 /\ k \in 0 .. Len(log)
        BY <2>1, <2>2, <2>4, <3>2
      <3>3. CASE j \in 0 .. Len(log) /\ k = Len(log) + 1
        BY <2>1, <2>2, <2>4, <3>3
      <3>4. CASE j = k
        BY <3>4
      <3> QED
        BY <2>3, <3>1, <3>2, <3>3, <3>4
    <2> QED
      BY <2>4 DEF Functional, Entry, NextEntry
  <1> QED
    BY <1>1, <1>2, ChangeMoves

\* A request that has changed the state has changed it for good, and where it will
\* write the store the change has arrived.
OptsOut(q) == task[q].kind = "ignore"
Kept(q) ==
    \E k \in 0 .. state[task[q].home].rev :
        \A j \in k .. Len(log) : Entry(j).policy[task[q].chan].ignored = OptsOut(q)
Asks ==
    \A q \in Request : task[q].kind \in {"ignore", "unignore"} =>
        /\ task[q].step # "mutate" => Kept(q)
        /\ mut.by = q => Entry(Len(log)).policy[task[q].chan].ignored = OptsOut(q)

Lone == \A p, q \in Request : p = q

LEMMA AsksStep == Cluster /\ Acks /\ Asks /\ Lone /\ [Next]_vars => Asks'
  <1> SUFFICES ASSUME Cluster, Acks, Asks, Lone, [Next]_vars,
                      NEW q \in Request, task'[q].kind \in {"ignore", "unignore"}
               PROVE  /\ task'[q].step # "mutate" => Kept(q)'
                      /\ mut'.by = q => NextEntry(Len(log')).policy[task'[q].chan].ignored = OptsOut(q)'
    BY DEF Asks, Entry, NextEntry
  <1>1. OneLog /\ Types /\ Locked /\ Following /\ Types'
    BY FollowingInductive DEF Cluster, OneLog
  <1>2. q \in Task /\ q \notin Node /\ q \notin Mirror /\ TaskMoved(q) /\ task[q] \in Tasks
    BY <1>1, TaskMoves, NodeAssumption DEF Task, Node, Types, TaskTypes
  <1>3. /\ task'[q] # NoTask /\ ~GivesUp(q) /\ ~Synchronizes(q) /\ task'[q].kind # "read"
        /\ RequestTask(task[q]) \/ task[q] = NoTask
    <2>1. TaskOf(q, task[q])
      BY <1>1, <1>2 DEF Types, TaskTypes
    <2> QED
      BY <1>2, <2>1 DEF NoTask, GivesUp, Synchronizes, TaskOf
  <1>4. SameRequest(q) \/ (Comes(q) /\ task'[q].step = "mutate")
    BY <1>2, <1>3 DEF TaskMoved, TicksOff, Lists, Comes, Changed, GoesOn, Serves, SameRequest, Tasks
  <1>5. /\ task[q].step = "mutate" /\ task'[q].step # "mutate" => Changed(q)
        /\ task[q].step = "mutate" /\ task'[q].step = "mutate" => task'[q] = task[q]
    <2>1. ~Serves(q)
      BY <1>2, <1>3 DEF Serves, Tasks
    <2> QED
      BY <1>2, <1>3, <2>1 DEF TaskMoved, TicksOff, Lists, Comes, Changed, GoesOn, NoTask
  <1>6. mut.held \/ mut.by # q
    BY <1>1, NodeAssumption DEF Following, NoMut
  <1>7. log' = log \/ ~mut.held
    <2>1. Types' /\ (Quiet \/ Commits \/ Follows)
      BY <1>1, Moves DEF Following
    <2> QED
      BY <1>1, <2>1, Grow
  <1>8. ASSUME NEW k \in 0 .. Len(log), NEW c \in Channel, NEW b,
               \A j \in k .. Len(log) : Entry(j).policy[c].ignored = b,
               ~\E p \in Request : ChangeFor(p)
        PROVE  \A j \in k .. Len(log') : NextEntry(j).policy[c].ignored = b
    <2>1. CASE log' = log
      BY <1>8, <2>1 DEF Entry, NextEntry
    <2>2. ASSUME NEW new \in Contents, Committed(new)
          PROVE  \A j \in k .. Len(log') : NextEntry(j).policy[c].ignored = b
      <3>1. Harmless(new) /\ log' = Append(log, new)
        BY <1>8, <2>2 DEF Committed, Asked
      <3>2. /\ Len(log) \in Nat /\ Len(log') = Len(log) + 1
            /\ NextEntry(Len(log) + 1) = new
            /\ \A i \in 0 .. Len(log) : NextEntry(i) = Entry(i)
            /\ OwnerPolicy(c) = Entry(Len(log)).policy[c]
        BY <1>1, <3>1, NewEntry
      <3>3. Entry(Len(log)).policy[c].ignored = b
        BY <1>8, <3>2
      <3>4. new.policy[c].ignored = b
        BY <3>1, <3>2, <3>3 DEF Harmless
      <3>5. \A j \in k .. Len(log') : j = Len(log) + 1 \/ j \in k .. Len(log)
        BY <3>2
      <3> QED
        BY <1>8, <3>2, <3>4, <3>5
    <2> QED
      BY <1>1, <2>1, <2>2, ChangeMoves
  <1>9. ASSUME task'[q].step # "mutate" PROVE Kept(q)'
    <2>1. /\ SameRequest(q) /\ task[q].kind \in {"ignore", "unignore"}
          /\ OptsOut(q)' = OptsOut(q) /\ task[q] # NoTask
      BY <1>4, <1>9 DEF SameRequest, OptsOut, NoTask
    <2>2. task[q].chan \in Channel
      BY <1>3, <2>1 DEF RequestTask
    <2>3. PICK h \in Node : h = task[q].home
      BY <1>2 DEF Tasks
    <2>4. /\ state[h].rev \in 0 .. Len(log) /\ Len(log) \in Nat
          /\ state'[h].rev \in 0 .. Len(log') /\ state[h].rev <= state'[h].rev
      BY <1>1, <2>3, Forward
    <2>5. PICK k \in 0 .. state[h].rev :
             /\ \A j \in k .. Len(log) : Entry(j).policy[task[q].chan].ignored = OptsOut(q)
             /\ ~\E p \in Request : ChangeFor(p)
      <3>1. CASE task[q].step # "mutate"
        <4>1. Kept(q)
          BY <2>1, <3>1 DEF Asks
        <4>2. ~\E p \in Request : ChangeFor(p)
          <5> SUFFICES ASSUME NEW p \in Request, ChangeFor(p) PROVE FALSE
            OBVIOUS
          <5>1. task[p].step = "mutate"
            BY Zenon DEF ChangeFor
          <5> QED
            BY <3>1, <5>1 DEF Lone
        <4> QED
          BY <2>3, <4>1, <4>2 DEF Kept
      <3>2. CASE task[q].step = "mutate"
        <4>1. mut.by = q /\ mut.held /\ mut.waiting = {} /\ ~mut.failed
          BY <1>5, <1>9, <3>2 DEF Changed
        <4>2. mut.rev = Len(log) /\ Entry(Len(log)).policy[task[q].chan].ignored = OptsOut(q)
          BY <1>1, <2>1, <4>1 DEF Following, NoMut, Asks
        <4>3. Len(log) <= state[h].rev
          <5>1. CASE h = Owner
            BY <1>1, <2>4, <5>1 DEF Following
          <5>2. CASE h # Owner
            BY <4>1, <4>2, <5>2 DEF Acks, Reached, Node
          <5> QED
            BY <5>1, <5>2
        <4>4. ~\E p \in Request : ChangeFor(p)
          <5> SUFFICES ASSUME NEW p \in Request, ChangeFor(p) PROVE FALSE
            OBVIOUS
          <5>1. \E new, by : Mutate(new, by)
            BY DEF ChangeFor
          <5>2. ~mut.held
            BY <5>1 DEF Mutate, Commit
          <5> QED
            BY <4>1, <5>2
        <4>5. state[h].rev = Len(log)
          BY <2>4, <4>3
        <4>6. \A j \in Len(log) .. Len(log) : j = Len(log)
          BY <2>4
        <4> QED
          BY <2>4, <4>2, <4>4, <4>5, <4>6
      <3> QED
        BY <3>1, <3>2
    <2>6. k \in 0 .. Len(log) /\ k \in 0 .. state'[h].rev
      BY <2>4
    <2>7. \A j \in k .. Len(log') : NextEntry(j).policy[task[q].chan].ignored = OptsOut(q)
      BY <1>8, <2>2, <2>5, <2>6
    <2>8. task'[q].home = h /\ task'[q].chan = task[q].chan
      BY <2>1, <2>3 DEF SameRequest
    <2> QED
      BY <2>1, <2>6, <2>7, <2>8 DEF Kept, Entry, NextEntry
  <1>10. ASSUME mut'.by = q
         PROVE  NextEntry(Len(log')).policy[task'[q].chan].ignored = OptsOut(q)'
    <2>1. q # None
      BY NodeAssumption
    <2>2. CASE mut.by = q
      <3>1. task[q].step = "mutate" /\ task'[q].step = "mutate" /\ log' = log
        BY <1>1, <1>6, <1>7, <1>10, <2>1, <2>2 DEF Types
      <3>2. task'[q] = task[q]
        BY <1>5, <3>1
      <3>3. Entry(Len(log)).policy[task[q].chan].ignored = OptsOut(q)
        BY <2>2, <3>2 DEF Asks
      <3> QED
        BY <3>1, <3>2, <3>3 DEF OptsOut, Entry, NextEntry
    <2>3. CASE mut.by # q
      <3>1. PICK new \in Contents, p \in Policies : Asked(new, q, p) /\ log' = Append(log, new)
        <4>1. PICK u \in Request, e \in Contents, p \in Policies :
                 Asked(e, u, p) /\ log' = Append(log, e)
          BY <1>1, <1>10, <2>1, <2>3, ChangeMoves
        <4>2. u = q
          BY DEF Lone
        <4> QED
          BY <4>1, <4>2
      <3>2. task' = task /\ task[q].chan \in Channel /\ new.policy[task[q].chan] = p
        BY <3>1 DEF Asked
      <3>3. p.ignored = OptsOut(q)
        BY <3>1, <3>2 DEF Asked, OptsOut
      <3>4. NextEntry(Len(log')) = new
        BY <1>1, <3>1, NewEntry
      <3>5. task'[q].chan = task[q].chan /\ OptsOut(q)' = OptsOut(q)
        BY <3>2 DEF OptsOut
      <3> QED
        BY <3>2, <3>3, <3>4, <3>5
    <2> QED
      BY <2>2, <2>3
  <1> QED
    BY <1>9, <1>10

LEMMA InitAsks == Init => Asks
  BY DEF Init, Asks, NoTask, Task

LEMMA InitFunctional == Init => Functional
  BY DEF Init, Functional, Entry

-----------------------------------------------------------------------------
(* A channel is blocked at a node as some entry says that the node has       *)
(* passed, and whose purge is at least the one recorded as applied.          *)

Flagged(n, c, v) ==
    \E k \in 0 .. state[n].rev : /\ v <= Entry(k).policy[c].purge
                                 /\ c \in blocked[n] <=> Entry(k).policy[c].ignored
FlaggedNext(n, c, v) ==
    \E k \in 0 .. state'[n].rev : /\ v <= NextEntry(k).policy[c].purge
                                  /\ c \in blocked'[n] <=> NextEntry(k).policy[c].ignored
Flags ==
    \A n \in Node :
        /\ up[n] # "down" => \A c \in Channel : Flagged(n, c, PurgeOf(Prev(n, c)))
        /\ lock[n].by # None => Flagged(n, lock[n].chan, Held(n).purge)

LEMMA FlagKeeps ==
    ASSUME OneLog, [Next]_vars, NEW n \in Node, NEW c, NEW v, Flagged(n, c, v),
           c \in blocked'[n] <=> c \in blocked[n]
    PROVE  FlaggedNext(n, c, v)
  <1>1. PICK k \in 0 .. state[n].rev : /\ v <= Entry(k).policy[c].purge
                                       /\ c \in blocked[n] <=> Entry(k).policy[c].ignored
    BY DEF Flagged
  <1>2. k \in 0 .. Len(log) /\ k \in 0 .. state'[n].rev
    BY Forward
  <1>3. NextEntry(k) = Entry(k)
    BY <1>2, Forward
  <1> QED
    BY <1>1, <1>2, <1>3 DEF FlaggedNext

LEMMA FlagSet ==
    ASSUME OneLog, [Next]_vars, NEW n \in Node, NEW c, NEW v, NEW p, Seen(n, c, p),
           v <= p.purge, c \in blocked'[n] <=> p.ignored
    PROVE  FlaggedNext(n, c, v)
  <1>1. PICK k \in 0 .. state'[n].rev : p = NextEntry(k).policy[c]
    BY SeenGrows DEF SeenNext
  <1> QED
    BY <1>1 DEF FlaggedNext

\* What is recorded and what is being applied are not ahead of the state.
LEMMA StateAhead ==
    ASSUME OneLog, Reads, NEW n \in Node, NEW c \in Channel
    PROVE  /\ Seen(n, c, state[n].content.policy[c])
           /\ PurgeOf(Prev(n, c)) <= state[n].content.policy[c].purge
           /\ lock[n].by # None /\ lock[n].chan = c =>
                 Seen(n, c, Held(n)) /\ Held(n).purge <= state[n].content.policy[c].purge
  <1>1. Types /\ Locked /\ Following
    BY DEF OneLog
  <1>2. Seen(n, c, state[n].content.policy[c])
    <2>1. state[n].rev \in 0 .. state[n].rev /\ state[n].content = Entry(state[n].rev)
      BY <1>1 DEF Following, Types, States
    <2> QED
      BY <2>1 DEF Seen
  <1>3. state[n].content.policy[c].purge \in Nat
    BY <1>2, SeenPurge
  <1>4. Prev(n, c) = None \/ Seen(n, c, Prev(n, c))
    BY DEF Reads, Prev
  <1>5. PurgeOf(Prev(n, c)) <= state[n].content.policy[c].purge
    BY <1>3, <1>4, SeenPurge DEF PurgeOf
  <1>6. ASSUME lock[n].by # None, lock[n].chan = c
        PROVE  Seen(n, c, Held(n)) /\ Held(n).purge <= state[n].content.policy[c].purge
    <2>1. /\ task[lock[n].by].step = "apply" /\ task[lock[n].by].node = n
          /\ lock[n].by \in Task
      BY <1>1, <1>6, HolderTypes
    <2>2. Seen(n, c, Held(n))
      BY <1>6, <2>1 DEF Reads, Held
    <2> QED
      BY <2>2, SeenPurge
  <1> QED
    BY <1>2, <1>5, <1>6

LEMMA FlagsStep == OneLog /\ Reads /\ Asks /\ Flags /\ [Next]_vars => Flags'
  <1> SUFFICES ASSUME OneLog, Reads, Asks, Flags, [Next]_vars, NEW n \in Node
               PROVE  /\ up'[n] # "down" =>
                            \A c \in Channel : FlaggedNext(n, c, PurgeOf(Prev(n, c))')
                      /\ lock'[n].by # None => FlaggedNext(n, lock'[n].chan, Held(n)'.purge)
    BY Zenon DEF Flags, Flagged, FlaggedNext, Entry, NextEntry
  <1> DEFINE Goal == /\ up'[n] # "down" =>
                           \A c \in Channel : FlaggedNext(n, c, PurgeOf(Prev(n, c))')
                     /\ lock'[n].by # None => FlaggedNext(n, lock'[n].chan, Held(n)'.purge)
  <1>1. Types /\ Locked /\ Types' /\ Locked' /\ Following
    BY FollowingInductive DEF OneLog
  <1>2. up[n] # "down" => \A c \in Channel : Flagged(n, c, PurgeOf(Prev(n, c)))
    BY DEF Flags
  <1>3. lock[n].by # None => Flagged(n, lock[n].chan, Held(n).purge)
    BY DEF Flags
  <1>4. \A c \in Channel : PurgeOf(Prev(n, c)) <= state[n].content.policy[c].purge
    BY StateAhead
  <1>5. ASSUME lock'[n].by = lock[n].by, lock'[n].chan = lock[n].chan, lock[n].by # None
        PROVE  /\ Held(n)' = Held(n) /\ lock[n].chan \in Channel
               /\ blocked'[n] = blocked[n] => FlaggedNext(n, lock'[n].chan, Held(n)'.purge)
    <2>1. Held(n)' = Held(n)
      BY <1>5, HolderKeeps
    <2>2. lock[n].chan \in Channel
      BY <1>1, <1>5, HolderTypes
    <2>3. ASSUME blocked'[n] = blocked[n] PROVE FlaggedNext(n, lock[n].chan, Held(n).purge)
      BY <1>3, <1>5, <2>3, FlagKeeps
    <2> QED
      BY <1>5, <2>1, <2>2, <2>3
  <1>6. ASSUME NEW c \in Channel, up[n] # "down", blocked'[n] = blocked[n],
               PurgeOf(Prev(n, c))' = PurgeOf(Prev(n, c))
        PROVE  FlaggedNext(n, c, PurgeOf(Prev(n, c))')
    <2>1. FlaggedNext(n, c, PurgeOf(Prev(n, c)))
      BY <1>2, <1>6, FlagKeeps
    <2> QED
      BY <1>6, <2>1
  <1>7. ASSUME Rests(n) PROVE Goal
    <2>1. \A c \in Channel : PurgeOf(Prev(n, c))' = PurgeOf(Prev(n, c))
      BY <1>7 DEF Rests, SameStore, Prev, PurgeOf
    <2>2. lock'[n].by # None => lock'[n] = lock[n]
      BY <1>7 DEF Rests, Free
    <2>3. blocked'[n] = blocked[n] /\ StaysUp(n)
      BY <1>7 DEF Rests, SameStore
    <2> QED
      BY <1>5, <1>6, <2>1, <2>2, <2>3 DEF StaysUp
  <1>8. ASSUME Halts(n) PROVE Goal
    BY <1>8 DEF Halts, Free
  <1>9. ASSUME NEW d \in Channel, mem'[n] = [mem[n] EXCEPT ![d] = Prev(n, d)],
               applied'[n] = applied[n]
        PROVE  \A c \in Channel : PurgeOf(Prev(n, c))' = PurgeOf(Prev(n, c))
    <2>1. \A c \in Channel : mem'[n][c] = IF c = d THEN Prev(n, d) ELSE mem[n][c]
      BY <1>1, <1>9, PurgeTypes
    <2> QED
      BY <1>9, <2>1 DEF Prev, PurgeOf
  <1>10. ASSUME Recalls(n) PROVE Goal
    <2>1. \A c \in Channel : PurgeOf(Prev(n, c))' = PurgeOf(Prev(n, c))
      BY <1>9, <1>10 DEF Recalls, SameStore
    <2>2. lock'[n].by = None /\ blocked'[n] = blocked[n] /\ StaysUp(n)
      BY <1>10 DEF Recalls, SameStore, Free
    <2> QED
      BY <1>6, <2>1, <2>2 DEF StaysUp
  <1>11. ASSUME NEW t \in Task, NEW d \in Channel, task[t].node = n, ApplyStart(t, d) PROVE Goal
    <2> DEFINE p == task[t].policies[d]
    <2>1. /\ mem'[n] = [mem[n] EXCEPT ![d] = Prev(n, d)] /\ applied'[n] = applied[n]
          /\ lock'[n] = [by |-> t, chan |-> d, step |-> "purge"] /\ task' = task /\ up' = up
          /\ task[t].step = "apply" /\ p.purge >= PurgeOf(Prev(n, d))
      BY <1>1, <1>11 DEF ApplyStart, Applying, Types
    <2>2. blocked'[n] = IF p.ignored THEN blocked[n] \cup {d} ELSE blocked[n] \ {d}
      BY <1>1, <1>11 DEF ApplyStart, Types
    <2>3. \A c \in Channel : PurgeOf(Prev(n, c))' = PurgeOf(Prev(n, c))
      BY <1>9, <2>1
    <2>4. Seen(n, d, p) /\ p.purge \in Nat /\ PurgeOf(Prev(n, d)) \in Nat
      <3>1. Seen(n, d, p)
        BY <1>11, <2>1 DEF Reads
      <3> QED
        BY <1>1, <3>1, SeenPurge, PurgeTypes
    <2>5. Held(n)' = p
      BY <2>1 DEF Held
    <2> HIDE DEF p
    <2>6. \A v : v <= p.purge => FlaggedNext(n, d, v)
      BY <2>2, <2>4, FlagSet
    <2>7. PurgeOf(Prev(n, d)) <= p.purge /\ p.purge <= p.purge
      BY <2>1, <2>4
    <2>8. FlaggedNext(n, d, PurgeOf(Prev(n, d))') /\ FlaggedNext(n, d, p.purge)
      BY <2>3, <2>6, <2>7
    <2>9. ASSUME NEW c \in Channel, c # d, up'[n] # "down"
          PROVE  FlaggedNext(n, c, PurgeOf(Prev(n, c))')
      <3>1. Flagged(n, c, PurgeOf(Prev(n, c)))
        BY <1>2, <2>1, <2>9
      <3>2. c \in blocked'[n] <=> c \in blocked[n]
        BY <2>2, <2>9
      <3>3. FlaggedNext(n, c, PurgeOf(Prev(n, c)))
        BY <3>1, <3>2, FlagKeeps
      <3> QED
        BY <2>3, <3>3
    <2> QED
      BY <2>1, <2>5, <2>8, <2>9
  <1>12. ASSUME ApplyPurge(n) PROVE Goal
    <2>1. UNCHANGED <<applied, mem, blocked, up>> /\ lock[n].by # None
      BY <1>12 DEF ApplyPurge, ApplyAt
    <2>2. lock'[n].by = lock[n].by /\ lock'[n].chan = lock[n].chan
      BY <1>1, <1>12, <2>1, HolderTypes DEF ApplyPurge, Types
    <2>3. \A c \in Channel : PurgeOf(Prev(n, c))' = PurgeOf(Prev(n, c))
      BY <2>1 DEF Prev, PurgeOf
    <2> QED
      BY <1>5, <1>6, <2>1, <2>2, <2>3
  <1>13. ASSUME NEW step, ApplyAt(n, step)
         PROVE  /\ lock[n].by # None /\ lock[n].chan \in Channel
                /\ Held(n) # None /\ Flagged(n, lock[n].chan, Held(n).purge)
    <2>1. lock[n].by # None
      BY <1>13 DEF ApplyAt
    <2>2. lock[n].chan \in Channel /\ Held(n) \in Policies
      BY <1>1, <2>1, HolderTypes
    <2> QED
      BY <1>3, <2>1, <2>2, Constants
  <1>14. ASSUME ApplyPersist(n) PROVE Goal
    <2> DEFINE d == lock[n].chan
    <2>1. /\ lock[n].by # None /\ d \in Channel /\ Held(n) # None
          /\ Flagged(n, d, Held(n).purge) /\ UNCHANGED <<mem, blocked, up>>
      BY <1>13, <1>14 DEF ApplyPersist
    <2>2. lock'[n].by = lock[n].by /\ lock'[n].chan = lock[n].chan
      BY <1>1, <1>14, <2>1, HolderTypes DEF ApplyPersist, Types
    <2>3. \A c \in Channel : applied'[n][c] = IF c = d THEN Held(n) ELSE applied[n][c]
      BY <1>1, <1>14 DEF ApplyPersist, Types
    <2>4. FlaggedNext(n, d, Held(n).purge)
      BY <2>1, FlagKeeps
    <2>5. ASSUME NEW c \in Channel, up'[n] # "down"
          PROVE  FlaggedNext(n, c, PurgeOf(Prev(n, c))')
      <3>1. \/ PurgeOf(Prev(n, c))' = PurgeOf(Prev(n, c))
            \/ c = d /\ PurgeOf(Prev(n, c))' = Held(n).purge
        BY <2>1, <2>3 DEF Prev, PurgeOf
      <3> QED
        BY <1>6, <2>1, <2>4, <2>5, <3>1
    <2> QED
      BY <1>5, <2>1, <2>2, <2>5
  <1>15. ASSUME ApplyInsert(n) PROVE Goal
    <2> DEFINE d == lock[n].chan
    <2>1. /\ lock[n].by # None /\ d \in Channel /\ Held(n) # None
          /\ Flagged(n, d, Held(n).purge) /\ UNCHANGED <<applied, blocked, up>>
      BY <1>13, <1>15 DEF ApplyInsert, store
    <2>2. lock'[n] = Free
      BY <1>1, <1>15 DEF ApplyInsert, Types
    <2>3. \A c \in Channel : mem'[n][c] = IF c = d THEN Held(n) ELSE mem[n][c]
      BY <1>1, <1>15 DEF ApplyInsert, Types
    <2>4. FlaggedNext(n, d, Held(n).purge)
      BY <2>1, FlagKeeps
    <2>5. ASSUME NEW c \in Channel, up'[n] # "down"
          PROVE  FlaggedNext(n, c, PurgeOf(Prev(n, c))')
      <3>1. \/ PurgeOf(Prev(n, c))' = PurgeOf(Prev(n, c))
            \/ c = d /\ PurgeOf(Prev(n, c))' = Held(n).purge
        BY <2>1, <2>3 DEF Prev, PurgeOf
      <3> QED
        BY <1>6, <2>1, <2>4, <2>5, <3>1
    <2> QED
      BY <2>2, <2>5 DEF Free
  <1>16. ASSUME NEW c \in Channel, c \in blocked'[n] <=> state[n].content.policy[c].ignored,
                NEW v, v <= state[n].content.policy[c].purge
         PROVE  FlaggedNext(n, c, v)
    BY <1>16, StateAhead, FlagSet
  <1>17. ASSUME NEW q \in Request, task[q].home = n, Direct(q) PROVE Goal
    <2> DEFINE d == task[q].chan
    <2>1. /\ UNCHANGED <<applied, mem, lock, up>>
          /\ task[q].step = "direct"
          /\ \/ blocked' = blocked
             \/ task[q].kind = "ignore" /\ blocked' = [blocked EXCEPT ![n] = @ \cup {d}]
             \/ task[q].kind = "unignore" /\ blocked' = [blocked EXCEPT ![n] = @ \ {d}]
      BY <1>17 DEF Direct
    <2>2. \A c \in Channel : PurgeOf(Prev(n, c))' = PurgeOf(Prev(n, c))
      BY <2>1 DEF Prev, PurgeOf
    <2>3. CASE blocked' = blocked
      BY <1>5, <1>6, <2>1, <2>2, <2>3
    <2>4. CASE blocked' # blocked
      <3>1. /\ task[q].kind \in {"ignore", "unignore"}
            /\ d \in blocked'[n] <=> OptsOut(q)
            /\ \A c \in Channel : c # d => (c \in blocked'[n] <=> c \in blocked[n])
        BY <1>1, <2>1, <2>4 DEF OptsOut, Types
      <3>2. Kept(q)
        BY <2>1, <3>1 DEF Asks
      <3>3. PICK k \in 0 .. state[n].rev : \A j \in k .. Len(log) : Entry(j).policy[d].ignored = OptsOut(q)
        BY <1>17, <3>2 DEF Kept
      <3>4. state[n].rev \in k .. Len(log) /\ state[n].content = Entry(state[n].rev)
        BY <1>1, <3>3 DEF Following, Types
      <3>5. d \in blocked'[n] <=> state[n].content.policy[d].ignored
        BY <3>1, <3>3, <3>4
      <3>6. ASSUME NEW c \in Channel, up'[n] # "down"
            PROVE  FlaggedNext(n, c, PurgeOf(Prev(n, c))')
        <4>1. CASE c = d
          BY <1>4, <1>16, <2>2, <3>5, <4>1
        <4>2. CASE c # d
          <5>1. Flagged(n, c, PurgeOf(Prev(n, c)))
            BY <1>2, <2>1, <3>6
          <5>2. FlaggedNext(n, c, PurgeOf(Prev(n, c)))
            BY <3>1, <4>2, <5>1, FlagKeeps
          <5> QED
            BY <2>2, <5>2
        <4> QED
          BY <4>1, <4>2
      <3>7. ASSUME lock[n].by # None PROVE FlaggedNext(n, lock[n].chan, Held(n).purge)
        <4>1. lock[n].chan \in Channel
          BY <1>1, <3>7, HolderTypes
        <4>2. CASE lock[n].chan = d
          BY <1>16, <3>5, <3>7, <4>1, <4>2, StateAhead
        <4>3. CASE lock[n].chan # d
          BY <1>3, <3>1, <3>7, <4>1, <4>3, FlagKeeps
        <4> QED
          BY <4>2, <4>3
      <3> QED
        BY <1>5, <2>1, <3>6, <3>7
    <2> QED
      BY <2>3, <2>4
  <1>18. ASSUME Boot(n) PROVE Goal
    <2>1. UNCHANGED <<applied, mem, lock>> /\ blocked'[n] = Ignored(n)
      BY <1>1, <1>18 DEF Boot, Types
    <2>2. \A c \in Channel : PurgeOf(Prev(n, c))' = PurgeOf(Prev(n, c))
      BY <2>1 DEF Prev, PurgeOf
    <2>3. \A c \in Channel : c \in blocked'[n] <=> state[n].content.policy[c].ignored
      BY <2>1 DEF Ignored
    <2>4. \A c \in Channel : FlaggedNext(n, c, PurgeOf(Prev(n, c))')
      BY <1>4, <1>16, <2>2, <2>3
    <2>5. ASSUME lock[n].by # None PROVE FlaggedNext(n, lock'[n].chan, Held(n)'.purge)
      <3>1. lock[n].chan \in Channel /\ Held(n)' = Held(n)
        BY <1>5, <2>1, <2>5
      <3> QED
        BY <1>16, <2>1, <2>3, <2>5, <3>1, StateAhead
    <2> QED
      BY <2>1, <2>4, <2>5
  <1> HIDE DEF Goal
  <1>19. NodeMoved(n)
    BY <1>1, NodeMoves
  <1>20. Goal
    BY <1>7, <1>8, <1>10, <1>11, <1>12, <1>14, <1>15, <1>17, <1>18, <1>19 DEF NodeMoved
  <1> QED
    BY <1>20 DEF Goal

LEMMA InitFlags == Init => Flags
  BY DEF Init, Flags, Free

\* The invariant of a cluster whose clocks are not behind and whose clients ask one
\* thing at a time.
Orderly == Lone /\ ~Skew
OrderlyInvariant == Orderly /\ Invariant /\ Functional /\ Asks /\ Flags

LEMMA OrderlyHolds == Orderly /\ Spec => []OrderlyInvariant
  <1>1. Orderly /\ Init => OrderlyInvariant
    BY InitTypes, InitLocked, InitFollowing, InitReads, InitEffects, InitPushing, InitAcks,
       InitAsks, InitFunctional, InitFlags
    DEF OrderlyInvariant, Invariant, Cluster, OneLog
  <1>2. OrderlyInvariant /\ [Next]_vars => OrderlyInvariant'
    <2> SUFFICES ASSUME OrderlyInvariant, [Next]_vars PROVE OrderlyInvariant'
      OBVIOUS
    <2>1. /\ OneLog /\ Reads /\ Effects /\ Pushing /\ Acks /\ Cluster /\ Asks /\ Flags /\ Functional
          /\ Lone /\ ~Skew
      BY DEF OrderlyInvariant, Orderly, Invariant, Cluster
    <2>2. Invariant'
      BY <2>1, FollowingInductive, ReadsStep, EffectsStep, PushingStep, AcksStep
      DEF Invariant, Cluster
    <2>3. Functional' /\ Asks' /\ Flags'
      BY <2>1, FunctionalStep, AsksStep, FlagsStep
    <2> QED
      BY <2>1, <2>2, <2>3 DEF OrderlyInvariant, Orderly, Lone
  <1> QED
    BY <1>1, <1>2, PTL DEF Spec

\* Of two entries of the log, the one that purges less is the earlier one, and those
\* that purge the same opt a channel in or out alike.
LEMMA SamePurge ==
    ASSUME OrderlyInvariant, NEW j \in 0 .. Len(log), NEW k \in 0 .. Len(log), NEW c \in Channel,
           j <= k, Entry(k).policy[c].purge <= Entry(j).policy[c].purge
    PROVE  Entry(j).policy[c].ignored = Entry(k).policy[c].ignored
  <1>1. /\ Types /\ PurgesGrow /\ Functional
    BY DEF OrderlyInvariant, Invariant, Cluster, OneLog
  <1>2. Entry(j).policy[c].purge \in Nat /\ Entry(k).policy[c].purge \in Nat
    BY <1>1, EntryTypes
  <1>3. Entry(j).policy[c].purge = Entry(k).policy[c].purge
    BY <1>1, <1>2 DEF PurgesGrow
  <1> QED
    BY <1>1, <1>3 DEF Functional

\* Where a node counts a channel's policy as applied and takes the early return of
\* apply, its store blocks the channel exactly when the policy says so.  Clocks that
\* are behind a cutoff, or two requests at once, would break it.
THEOREM AppliedPolicies == Orderly /\ Spec => []AppliedIsEnforced
  <1>1. ASSUME OrderlyInvariant, NEW n \in Node, NEW c \in Channel,
               up[n] = "up", Prev(n, c) = state[n].content.policy[c]
        PROVE  c \in blocked[n] <=> state[n].content.policy[c].ignored
    <2>1. Types /\ Following /\ Flags
      BY <1>1 DEF OrderlyInvariant, Invariant, Cluster, OneLog
    <2>2. PICK k \in 0 .. state[n].rev : /\ PurgeOf(Prev(n, c)) <= Entry(k).policy[c].purge
                                         /\ c \in blocked[n] <=> Entry(k).policy[c].ignored
      BY <1>1, <2>1 DEF Flags, Flagged
    <2>3. /\ state[n].rev \in 0 .. Len(log) /\ state[n].content = Entry(state[n].rev)
          /\ Len(log) \in Nat
      BY <2>1, EntryTypes DEF Following
    <2>4. k \in 0 .. Len(log) /\ k <= state[n].rev
      BY <2>3
    <2>5. PurgeOf(Prev(n, c)) = Entry(state[n].rev).policy[c].purge
      <3>1. state[n].content.policy[c] \in Policies
        BY <2>1, StateTypes
      <3>2. Prev(n, c) # None
        BY <1>1, <3>1, Constants
      <3> QED
        BY <1>1, <2>3, <3>2 DEF PurgeOf
    <2>6. Entry(k).policy[c].ignored = Entry(state[n].rev).policy[c].ignored
      BY <1>1, <2>2, <2>3, <2>4, <2>5, SamePurge
    <2> QED
      BY <2>2, <2>3, <2>6
  <1>2. OrderlyInvariant => AppliedIsEnforced
    BY <1>1 DEF AppliedIsEnforced
  <1> QED
    BY <1>2, OrderlyHolds, PTL

\* A success is the whole cluster's: every mirror has purged what the change purges
\* and blocks a channel that the change, and what came after it, opts out.
THEOREM AckedChanges == Orderly /\ Spec => []AckedIsEnforced
  <1>1. ASSUME OrderlyInvariant, NEW r \in Mirror, NEW c \in Channel
        PROVE  cutoff[r][c] >= Entry(acked).policy[c].purge
    BY <1>1, AckedCutoff DEF OrderlyInvariant
  <1>2. ASSUME OrderlyInvariant, NEW r \in Mirror, NEW c \in Channel, up[r] = "up",
               \A k \in acked .. Len(log) : Entry(k).policy[c].ignored
        PROVE  c \in blocked[r]
    <2>1. Types /\ Following /\ Flags /\ Reached(r, acked) /\ r \in Node
      BY <1>2 DEF OrderlyInvariant, Invariant, Cluster, OneLog, Acks, Node
    <2>2. PICK k \in 0 .. state[r].rev : /\ PurgeOf(Prev(r, c)) <= Entry(k).policy[c].purge
                                         /\ c \in blocked[r] <=> Entry(k).policy[c].ignored
      BY <1>2, <2>1 DEF Flags, Flagged
    <2>3. /\ state[r].rev \in 0 .. Len(log) /\ Len(log) \in Nat /\ acked \in 0 .. Len(log)
      BY <2>1, EntryTypes DEF Following
    <2>4. k \in 0 .. Len(log)
      BY <2>3
    <2>5. CASE acked <= k
      BY <1>2, <2>2, <2>3, <2>4, <2>5
    <2>6. CASE k <= acked
      <3>1. /\ Entry(acked).policy[c].purge <= PurgeOf(Prev(r, c))
            /\ PurgeOf(Prev(r, c)) \in Nat
            /\ Entry(acked).policy[c].purge \in Nat /\ Entry(k).policy[c].purge \in Nat
        BY <2>1, <2>3, <2>4, EntryTypes, PurgeTypes DEF Reached
      <3>2. Entry(acked).policy[c].purge <= Entry(k).policy[c].purge
        BY <2>2, <3>1
      <3>3. Entry(k).policy[c].ignored = Entry(acked).policy[c].ignored
        BY <1>2, <2>3, <2>4, <2>6, <3>2, SamePurge
      <3> QED
        BY <1>2, <2>2, <2>3, <3>3
    <2> QED
      BY <2>3, <2>4, <2>5, <2>6
  <1>3. OrderlyInvariant => AckedIsEnforced
    BY <1>1, <1>2 DEF AckedIsEnforced
  <1> QED
    BY <1>3, OrderlyHolds, PTL
=============================================================================
