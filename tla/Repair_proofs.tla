--------------------------- MODULE Repair_proofs ---------------------------
(***************************************************************************)
(* The half-open circuits of Repair and the order in which its jobs record *)
(* and publish, for every number of jobs, providers, channels and permits. *)
(***************************************************************************)
EXTENDS Repair, FiniteSetTheorems, WellFoundedInduction, TLAPS

Circuits == [failures : Nat, openedAt : -1..MaxRepairClock, probe : BOOLEAN]

\* The fields a job and its attempts have.
JobFields == {"phase", "channel", "deadline", "att", "queued", "persisted", "answered",
              "outcome", "published", "lostRecord"}
JobShape ==
  /\ DOMAIN job = JobIds
  /\ \A j \in JobIds :
       /\ DOMAIN job[j] = JobFields
       /\ job[j].deadline \in Nat
       /\ DOMAIN job[j].att = Providers
       /\ \A p \in Providers : DOMAIN job[j].att[p] = {"st", "probe"}

RepairTypes ==
  /\ clock \in 0..MaxRepairClock
  /\ circuit \in [Providers -> Circuits]
  /\ JobShape

InFlightAttempt(j, p) == Waiting(j, p) \/ Calling(j, p)
Probing(j, p) == InFlightAttempt(j, p) /\ job[j].att[p].probe

\* Only an open circuit is being probed, and it was opened in the past.
CircuitsOpened ==
  \A p \in Providers :
    (circuit[p].probe => IsOpen(circuit[p])) /\ circuit[p].openedAt <= clock

\* Timers are punctual: an attempt is within its time.
Punctual ==
  \A j \in JobIds, p \in Providers :
    InFlightAttempt(j, p) =>
      clock <= job[j].deadline /\ job[j].deadline <= clock + RequestTimeout

\* A probe its open circuit does not know of ends before the circuit may be probed
\* again: the circuit was opened anew while the probe was running.
ForgottenProbesEnd ==
  \A j \in JobIds, p \in Providers :
    Probing(j, p) /\ IsOpen(circuit[p]) /\ ~circuit[p].probe =>
      job[j].deadline <= circuit[p].openedAt + RequestTimeout

OneProbe ==
  \A p \in Providers : \A i, j \in JobIds : Probing(i, p) /\ Probing(j, p) => i = j

RepairInv == RepairTypes /\ CircuitsOpened /\ Punctual /\ ForgottenProbesEnd /\ OneProbe

-----------------------------------------------------------------------------
LEMMA RepairInitially == RepairInit => RepairInv
<1> SUFFICES ASSUME RepairInit PROVE RepairInv
  OBVIOUS
<1> USE RepairBounds
<1>1. JobShape /\ \A j \in JobIds : job[j].phase = "free"
  BY DEF RepairInit, JobShape, JobFields, FreeJob, NoAttempt
<1>2. {ClosedCircuit, OpenedCircuit} \subseteq Circuits
  BY DEF ClosedCircuit, OpenedCircuit, Circuits
<1>3. RepairTypes
  BY <1>1, <1>2 DEF RepairInit, RepairTypes
<1>4. CircuitsOpened
  BY <1>2 DEF RepairInit, CircuitsOpened, ClosedCircuit, OpenedCircuit, IsOpen
<1>5. \A j \in JobIds, p \in Providers : ~InFlightAttempt(j, p)
  BY <1>1 DEF InFlightAttempt, Waiting, Calling
<1> QED
  BY <1>3, <1>4, <1>5 DEF RepairInv, Punctual, ForgottenProbesEnd, OneProbe, Probing

\* What a step that begins no fetch leaves of the attempts in flight.
AttemptsShrink ==
  \A j \in JobIds, p \in Providers :
    InFlightAttempt(j, p)' =>
      /\ InFlightAttempt(j, p)
      /\ job'[j].deadline = job[j].deadline
      /\ job'[j].att[p].probe = job[j].att[p].probe

\* A step that touches neither the circuits nor the clock keeps the invariant.
LEMMA ShrinkingKeeps ==
  ASSUME RepairInv, RepairTypes', AttemptsShrink, UNCHANGED <<circuit, clock>>
  PROVE  RepairInv'
  BY DEF RepairInv, AttemptsShrink, CircuitsOpened, Punctual, ForgottenProbesEnd, OneProbe, Probing

LEMMA AttemptStepsShrink ==
  ASSUME JobShape, NEW j \in JobIds, NEW p \in Providers,
         AcquirePermit(j, p) \/ PermitTimeout(j, p) \/ ProviderAnswers(j, p)
  PROVE  JobShape' /\ AttemptsShrink
<1> USE DEF JobShape, JobFields
<1>1. CASE AcquirePermit(j, p)
  BY <1>1 DEF AcquirePermit, AttemptsShrink, InFlightAttempt, Waiting, Calling
<1>2. CASE PermitTimeout(j, p)
  BY <1>2 DEF PermitTimeout, AttemptsShrink, InFlightAttempt, Waiting, Calling
<1>3. CASE ProviderAnswers(j, p)
  <2>1. PICK answer \in {"records", "empty", "anonymous", "error"} :
          job' = [job EXCEPT
            ![j].att[p].st = "done",
            ![j].answered = @ \/ answer # "error",
            ![j].queued = IF answer = "records" THEN @ + 1 ELSE @]
    BY <1>3 DEF ProviderAnswers
  <2>2. JobShape'
    BY <2>1
  <2>3. \A i \in JobIds, q \in Providers :
          /\ job'[i].phase = job[i].phase /\ job'[i].deadline = job[i].deadline
          /\ job'[i].att[q].st = IF i = j /\ q = p THEN "done" ELSE job[i].att[q].st
          /\ job'[i].att[q].probe = job[i].att[q].probe
    BY <2>1
  <2> QED BY <2>2, <2>3 DEF AttemptsShrink, InFlightAttempt, Waiting, Calling
<1> QED BY <1>1, <1>2, <1>3

LEMMA JobStepsShrink ==
  ASSUME JobShape, NEW j \in JobIds,
         PersistUpdate(j) \/ RecordCheckpoint(j) \/ PublishFinal(j) \/ RemoveJob(j)
  PROVE  JobShape' /\ AttemptsShrink
<1> USE DEF JobShape, JobFields
<1>1. CASE PersistUpdate(j)
  <2>1. PICK ok \in BOOLEAN :
          job' = [job EXCEPT
            ![j].queued = @ - 1,
            ![j].persisted = @ \/ ok,
            ![j].published = IF ok THEN "partial" ELSE @]
    BY <1>1 DEF PersistUpdate
  <2>2. JobShape'
    BY <2>1
  <2>3. \A i \in JobIds : /\ job'[i].phase = job[i].phase /\ job'[i].deadline = job[i].deadline
                          /\ job'[i].att = job[i].att
    BY <2>1
  <2> QED BY <2>2, <2>3 DEF AttemptsShrink, InFlightAttempt, Waiting, Calling
<1>2. CASE RecordCheckpoint(j)
  BY <1>2 DEF RecordCheckpoint, AttemptsShrink, InFlightAttempt, Waiting, Calling
<1>3. CASE PublishFinal(j)
  BY <1>3 DEF PublishFinal, AttemptsShrink, InFlightAttempt, Waiting, Calling
<1>4. CASE RemoveJob(j)
  BY <1>4 DEF RemoveJob, EndedJob, FreeJob, NoAttempt, AttemptsShrink, InFlightAttempt,
              Waiting, Calling
<1> QED BY <1>1, <1>2, <1>3, <1>4

LEMMA ReaderStepsShrink ==
  ASSUME JobShape, NEW r \in Readers, ReaderStep(r)
  PROVE  JobShape' /\ AttemptsShrink
<1> USE DEF JobShape, JobFields
<1>1. CASE UNCHANGED job
  BY <1>1 DEF AttemptsShrink, InFlightAttempt, Waiting, Calling
<1>2. CASE StartOrAttach(r) /\ ~UNCHANGED job
  <2>1. PICK next, c : job' = [job EXCEPT ![next] = [FreeJob EXCEPT !.phase = "spawned",
                                                               !.channel = c]]
    BY <1>2 DEF StartOrAttach
  <2> QED
    BY <2>1 DEF FreeJob, NoAttempt, AttemptsShrink, InFlightAttempt, Waiting, Calling
<1> QED BY <1>1, <1>2 DEF ReaderStep, ReadCheckpoints, SeeCompletion, Answer

-----------------------------------------------------------------------------
LEMMA AnswerKeeps ==
  ASSUME RepairInv, NEW j \in JobIds, NEW p \in Providers, ProviderAnswers(j, p)
  PROVE  RepairInv'
<1> USE RepairBounds
<1>1. JobShape' /\ AttemptsShrink
  BY AttemptStepsShrink DEF RepairInv, RepairTypes
<1>2. PICK ok \in BOOLEAN : circuit' = [circuit EXCEPT ![p] = FinishAttempt(@, ok, clock)]
  <2>1. PICK answer \in {"records", "empty", "anonymous", "error"} :
          circuit' = [circuit EXCEPT
            ![p] = FinishAttempt(@, answer \in {"records", "empty"}, clock)]
    BY DEF ProviderAnswers
  <2>2. CASE answer \in {"records", "empty"}
    <3>1. (answer \in {"records", "empty"}) = TRUE
      BY <2>2
    <3> QED BY <2>1, <3>1, Zenon
  <2>3. CASE answer \notin {"records", "empty"}
    <3>1. (answer \in {"records", "empty"}) = FALSE
      BY <2>3
    <3> QED BY <2>1, <3>1, Zenon
  <2> QED BY <2>2, <2>3
<1>3. UNCHANGED clock /\ circuit \in [Providers -> Circuits] /\ clock \in 0..MaxRepairClock
  BY DEF ProviderAnswers, RepairInv, RepairTypes
<1>4. /\ circuit' \in [Providers -> Circuits]
      /\ ~circuit'[p].probe /\ circuit'[p].openedAt \in {-1, clock}
      /\ \A q \in Providers : q # p => circuit'[q] = circuit[q]
  <2> DEFINE c == circuit[p]
  <2>1. c \in Circuits
    BY <1>3
  <2>2. FinishAttempt(c, ok, clock) \in Circuits
    BY <1>3, <2>1 DEF FinishAttempt, ClosedCircuit, Circuits
  <2>3. /\ ~FinishAttempt(c, ok, clock).probe
        /\ FinishAttempt(c, ok, clock).openedAt \in {-1, clock}
    BY <2>1 DEF FinishAttempt, ClosedCircuit, IsOpen, Circuits
  <2> QED BY <1>2, <1>3, <2>2, <2>3
<1>5. CircuitsOpened'
  BY <1>3, <1>4 DEF RepairInv, CircuitsOpened, Circuits, IsOpen
<1>6. Punctual' /\ OneProbe'
  BY <1>1, <1>3 DEF RepairInv, AttemptsShrink, Punctual, OneProbe, Probing
<1>7. ForgottenProbesEnd'
  BY <1>1, <1>3, <1>4
  DEF RepairInv, AttemptsShrink, Punctual, ForgottenProbesEnd, Probing, IsOpen
<1> QED BY <1>1, <1>3, <1>4, <1>5, <1>6, <1>7 DEF RepairInv, RepairTypes

LEMMA BeginShape ==
  ASSUME JobShape, clock \in Nat, NEW j \in JobIds, BeginFetch(j) PROVE JobShape'
<1>1. job' = [job EXCEPT
       ![j].phase = "fetching",
       ![j].deadline = clock + RequestTimeout,
       ![j].att = [p \in Providers |->
          IF Admits(circuit[p], clock)
            THEN [st |-> "permit", probe |-> IsOpen(circuit[p])]
            ELSE NoAttempt]]
  BY DEF BeginFetch
<1> QED BY RepairBounds, <1>1 DEF JobShape, JobFields, NoAttempt

LEMMA BeginKeeps ==
  ASSUME OpenDuration > RequestTimeout, RepairInv, NEW j \in JobIds, BeginFetch(j)
  PROVE  RepairInv'
<1> USE RepairBounds
<1>1. /\ UNCHANGED clock /\ clock \in 0..MaxRepairClock /\ circuit \in [Providers -> Circuits]
      /\ circuit' = [p \in Providers |-> BeginAttempt(circuit[p], clock)]
      /\ job[j].phase = "spawned"
  BY DEF BeginFetch, RepairInv, RepairTypes
<1>2. \A p \in Providers :
        /\ circuit'[p] \in Circuits
        /\ circuit'[p].openedAt = circuit[p].openedAt
        /\ circuit'[p].probe =
             IF Admits(circuit[p], clock) THEN IsOpen(circuit[p]) ELSE circuit[p].probe
  BY <1>1 DEF BeginAttempt, IsOpen, Circuits
<1>3. /\ JobShape'
      /\ \A i \in JobIds \ {j} : job'[i] = job[i]
      /\ job'[j].deadline = clock + RequestTimeout
      /\ \A p \in Providers : Probing(j, p)' =>
           Admits(circuit[p], clock) /\ IsOpen(circuit[p])
  <2>1. job' = [job EXCEPT
       ![j].phase = "fetching",
       ![j].deadline = clock + RequestTimeout,
       ![j].att = [p \in Providers |->
          IF Admits(circuit[p], clock)
            THEN [st |-> "permit", probe |-> IsOpen(circuit[p])]
            ELSE NoAttempt]]
    BY DEF BeginFetch
  <2>2. JobShape'
    BY <1>1, BeginShape DEF RepairInv, RepairTypes
  <2>3. /\ \A i \in JobIds \ {j} : job'[i] = job[i]
        /\ job'[j].deadline = clock + RequestTimeout
        /\ job'[j].att = [p \in Providers |->
             IF Admits(circuit[p], clock)
               THEN [st |-> "permit", probe |-> IsOpen(circuit[p])]
               ELSE NoAttempt]
    BY <2>1 DEF RepairInv, RepairTypes, JobShape, JobFields
  <2> QED BY <2>2, <2>3 DEF Probing, InFlightAttempt, Waiting, Calling, NoAttempt
<1>4. \A i \in JobIds \ {j}, p \in Providers :
        /\ InFlightAttempt(i, p)' = InFlightAttempt(i, p)
        /\ Probing(i, p)' = Probing(i, p)
  BY <1>3 DEF InFlightAttempt, Probing, Waiting, Calling
<1>5. CircuitsOpened'
  BY <1>1, <1>2 DEF RepairInv, CircuitsOpened, IsOpen
<1>6. Punctual'
  BY <1>1, <1>3, <1>4 DEF RepairInv, Punctual
<1>7. ForgottenProbesEnd'
  BY <1>1, <1>2, <1>3, <1>4 DEF RepairInv, ForgottenProbesEnd, IsOpen
\* When an open circuit admits a probe, no earlier one is in flight.
<1>8. \A i \in JobIds \ {j}, p \in Providers :
        Probing(i, p) /\ IsOpen(circuit[p]) => ~Admits(circuit[p], clock)
  <2> SUFFICES ASSUME NEW i \in JobIds \ {j}, NEW p \in Providers, Probing(i, p),
                      IsOpen(circuit[p]), ~circuit[p].probe
               PROVE  clock - circuit[p].openedAt < OpenDuration
    BY <1>1 DEF Admits, Circuits
  <2>1. /\ clock <= job[i].deadline
        /\ job[i].deadline <= circuit[p].openedAt + RequestTimeout
    BY DEF RepairInv, Punctual, ForgottenProbesEnd, Probing
  <2>2. job[i].deadline \in Nat /\ circuit[p].openedAt \in Int
    BY <1>1 DEF RepairInv, RepairTypes, JobShape, Circuits
  <2> QED BY <1>1, <2>1, <2>2
<1>9. OneProbe'
  BY <1>3, <1>4, <1>8 DEF RepairInv, OneProbe
<1> QED BY <1>1, <1>2, <1>3, <1>5, <1>6, <1>7, <1>9 DEF RepairInv, RepairTypes

LEMMA TickKeeps == ASSUME RepairInv, RepairTick PROVE RepairInv'
<1> USE RepairBounds
<1>1. /\ clock' = clock + 1 /\ clock' \in 0..MaxRepairClock /\ clock \in Nat
      /\ UNCHANGED <<circuit, job>> /\ circuit \in [Providers -> Circuits]
  BY DEF RepairTick, RepairInv, RepairTypes
<1>2. \A j \in JobIds, p \in Providers :
        /\ InFlightAttempt(j, p)' = InFlightAttempt(j, p) /\ Probing(j, p)' = Probing(j, p)
        /\ InFlightAttempt(j, p) => clock < job[j].deadline
        /\ job[j].deadline \in Nat
  BY <1>1 DEF RepairTick, InFlightAttempt, Probing, Waiting, Calling, RepairInv, RepairTypes, JobShape
<1>3. RepairTypes'
  BY <1>1 DEF RepairInv, RepairTypes, JobShape
<1>4. CircuitsOpened'
  BY <1>1 DEF RepairInv, CircuitsOpened, Circuits, IsOpen
<1>5. Punctual' /\ ForgottenProbesEnd' /\ OneProbe'
  BY <1>1, <1>2 DEF RepairInv, Punctual, ForgottenProbesEnd, OneProbe
<1> QED BY <1>3, <1>4, <1>5 DEF RepairInv

LEMMA RepairStep ==
  ASSUME OpenDuration > RequestTimeout, RepairInv, [RepairNext]_repairVars
  PROVE  RepairInv'
<1>1. ASSUME JobShape', AttemptsShrink, UNCHANGED <<circuit, clock>> PROVE RepairInv'
  BY <1>1, ShrinkingKeeps DEF RepairInv, RepairTypes
<1>2. ASSUME NEW j \in JobIds, JobStep(j) PROVE RepairInv'
  <2>1. CASE BeginFetch(j)
    BY <2>1, BeginKeeps
  <2>2. CASE PersistUpdate(j) \/ RecordCheckpoint(j) \/ PublishFinal(j) \/ RemoveJob(j)
    BY <1>1, <2>2, JobStepsShrink
       DEF RepairInv, RepairTypes, PersistUpdate, RecordCheckpoint, PublishFinal, RemoveJob
  <2>3. ASSUME NEW p \in Providers, AcquirePermit(j, p) \/ PermitTimeout(j, p) PROVE RepairInv'
    BY <1>1, <2>3, AttemptStepsShrink DEF RepairInv, RepairTypes, AcquirePermit, PermitTimeout
  <2>4. ASSUME NEW p \in Providers, ProviderAnswers(j, p) PROVE RepairInv'
    BY <2>4, AnswerKeeps
  <2> QED BY <1>2, <2>1, <2>2, <2>3, <2>4 DEF JobStep
<1>3. ASSUME NEW r \in Readers, ReaderStep(r) PROVE RepairInv'
  BY <1>1, <1>3, ReaderStepsShrink
     DEF RepairInv, RepairTypes, ReaderStep, ReadCheckpoints, StartOrAttach, SeeCompletion,
         Answer
<1>4. ASSUME RepairTick PROVE RepairInv'
  BY <1>4, TickKeeps
<1>5. ASSUME UNCHANGED repairVars PROVE RepairInv'
  BY <1>5 DEF repairVars, RepairInv, RepairTypes, JobShape, CircuitsOpened, Punctual,
              ForgottenProbesEnd, OneProbe, Probing, InFlightAttempt, Waiting, Calling
<1> QED BY <1>2, <1>3, <1>4, <1>5 DEF RepairNext

-----------------------------------------------------------------------------
LEMMA AtMostOneElement ==
  ASSUME NEW S, \A x, y \in S : x = y PROVE Cardinality(S) <= 1
<1>1. CASE S = {}
  BY <1>1, FS_EmptySet
<1>2. CASE S # {}
  <2>1. PICK x \in S : S = {x}
    BY <1>2
  <2> QED BY <2>1, FS_Singleton
<1> QED BY <1>1, <1>2

\* A provider whose circuit is open longer than a request may take is probed by one
\* attempt at a time, whatever jobs run and however late they end (begin_attempt and
\* finish_attempt of repair.rs; the configuration does not check the premise).
THEOREM OneProbeAtATime ==
  ASSUME OpenDuration > RequestTimeout PROVE RepairSpec => []AtMostOneProbe
<1>1. RepairInv => AtMostOneProbe
  BY AtMostOneElement DEF RepairInv, OneProbe, Probing, InFlightAttempt, AtMostOneProbe
<1>2. RepairInv /\ [RepairNext]_repairVars => RepairInv'
  BY RepairStep
<1> QED BY <1>1, <1>2, RepairInitially, PTL DEF RepairSpec
-----------------------------------------------------------------------------
(* A completion is final only when its checkpoint is recorded.               *)

\* Of the checkpoints of a channel, the newest is never trimmed.
LEMMA NewestKept ==
  ASSUME NEW S, \A k \in S : k.job \in JobIds, NEW k \in S
  PROVE  \E n \in Newest(S) : n.job >= k.job
<1> USE RepairBounds DEF JobIds
<1> DEFINE Ages == {MaxJobs - x.job : x \in S}
<1>1. Ages \in SUBSET Nat /\ Ages # {}
  OBVIOUS
<1>2. PICK a \in Ages : \A b \in Ages : ~(<<b, a>> \in OpToRel(<, Nat))
  BY <1>1, NatLessThanWellFounded, WFMin, Zenon
<1>3. \A b \in Ages : ~(b < a)
  <2>1. \A x, y \in Nat : x < y => <<x, y>> \in OpToRel(<, Nat)
    BY Zenon DEF OpToRel
  <2> QED BY <1>1, <1>2, <2>1
<1>4. PICK n \in S : a = MaxJobs - n.job
  BY <1>2
<1>5. \A x \in S : x.job <= n.job
  <2> SUFFICES ASSUME NEW x \in S PROVE x.job <= n.job
    OBVIOUS
  <2>1. ~(MaxJobs - x.job < MaxJobs - n.job)
    BY <1>3, <1>4
  <2>2. x.job \in Nat /\ n.job \in Nat /\ MaxJobs \in Nat
    OBVIOUS
  <2> QED BY <2>1, <2>2
<1>6. {x \in S : x.job > n.job} = {}
  BY <1>5
<1>7. n \in Newest(S)
  <2>1. Cardinality({x \in S : x.job > n.job}) = 0
    BY <1>6, FS_EmptySet
  <2> QED BY <2>1 DEF Newest
<1> QED BY <1>5, <1>7

Final == {"success", "failed"}
Done(j) == job[j].phase \in {"leaving", "ended"}

\* A request refers to job j, which repairs channel c.
Repairs(j, c) == j \in JobIds /\ job[j].phase # "free" /\ job[j].channel = c

\* The checkpoint of job j, or of a later job of its channel, is recorded, unless
\* writing it failed.
Recorded(j) ==
  job[j].lostRecord \/ \E k \in checkpoint[job[j].channel] : k.job >= j

RecordTypes ==
  /\ clock \in Nat
  /\ JobShape
  /\ DOMAIN checkpoint = Channels
  /\ \A c \in Channels : \A k \in checkpoint[c] : k.job \in JobIds
  /\ DOMAIN inFlight = Channels
  /\ DOMAIN reader = Readers
  /\ \A r \in Readers : DOMAIN reader[r] = {"pc", "channel", "job", "seen"}

JobsOrdered ==
  \A j \in JobIds :
    /\ job[j].phase # "free" => job[j].channel \in Channels
    /\ job[j].published \in Final => Done(j)
    /\ job[j].phase \in {"publishing", "leaving", "ended"} => Recorded(j)

RequestsAttached ==
  /\ \A c \in Channels : inFlight[c] # NoJob => Repairs(inFlight[c], c)
  /\ \A r \in Readers :
       /\ reader[r].pc # "idle" => reader[r].channel \in Channels
       /\ reader[r].pc \in {"waiting", "reread"} => Repairs(reader[r].job, reader[r].channel)
       /\ reader[r].pc = "reread" /\ reader[r].seen \in Final => Done(reader[r].job)

RecordInv == RecordTypes /\ JobsOrdered /\ RequestsAttached

LEMMA RecordInitially == RepairInit => RecordInv
<1> SUFFICES ASSUME RepairInit PROVE RecordInv
  OBVIOUS
<1> USE RepairBounds DEF RepairInit
<1>1. RecordTypes
  BY RepairInitially DEF RecordTypes, RepairInv, RepairTypes
<1>2. \A j \in JobIds : job[j].phase = "free" /\ job[j].published = "none"
  BY DEF FreeJob
<1>3. JobsOrdered /\ RequestsAttached
  BY <1>2 DEF JobsOrdered, RequestsAttached, Final
<1> QED BY <1>1, <1>3 DEF RecordInv

\* What no step undoes: a job keeps its channel and never becomes free again, a job
\* that is done stays so, and a recorded checkpoint is replaced by newer ones only.
JobsAge ==
  \A j \in JobIds :
    /\ job[j].phase # "free" => /\ job'[j].phase # "free"
                                /\ job'[j].channel = job[j].channel
                                /\ job'[j].lostRecord = job[j].lostRecord
                                   \/ job'[j].lostRecord
    /\ Done(j) => Done(j)'
CheckpointsAge ==
  \A c \in Channels : \A k \in checkpoint[c] : \E n \in checkpoint'[c] : n.job >= k.job

\* What a request knows of its job stays true.
LEMMA AttachedKept ==
  ASSUME RecordInv, JobsAge
  PROVE  \A j, c : Repairs(j, c) => Repairs(j, c)'
  BY DEF JobsAge, Repairs

LEMMA RecordedKept ==
  ASSUME RecordInv, RecordTypes', JobsAge, CheckpointsAge, NEW j \in JobIds,
         job[j].phase # "free", Recorded(j)
  PROVE  Recorded(j)'
<1>1. CASE job[j].lostRecord
  BY <1>1 DEF JobsAge, Recorded
<1>2. CASE \E k \in checkpoint[job[j].channel] : k.job >= j
  <2>1. job[j].channel \in Channels /\ job'[j].channel = job[j].channel
    BY DEF RecordInv, JobsOrdered, JobsAge
  <2>2. PICK k \in checkpoint[job[j].channel] : k.job >= j
    BY <1>2
  <2>3. PICK n \in checkpoint'[job[j].channel] : n.job >= k.job
    BY <2>1 DEF CheckpointsAge
  <2>4. n.job \in JobIds /\ k.job \in JobIds
    BY <2>1 DEF RecordInv, RecordTypes
  <2> QED BY <2>1, <2>2, <2>3, <2>4, RepairBounds DEF Recorded, JobIds
<1> QED BY <1>1, <1>2 DEF Recorded

\* A step of one job, of which only the final ones need a recorded checkpoint.
LEMMA JobStepKeeps ==
  ASSUME RecordInv, NEW j \in JobIds, JobShape', UNCHANGED <<clock, reader>>,
         DOMAIN checkpoint' = Channels,
         \A c \in Channels : \A k \in checkpoint'[c] : k.job \in JobIds,
         CheckpointsAge,
         inFlight' = inFlight \/ \E c \in Channels : inFlight' = [inFlight EXCEPT ![c] = NoJob],
         \A i \in JobIds \ {j} : job'[i] = job[i],
         JobsAge, job[j].phase # "free",
         job'[j].published \in Final => Done(j)',
         job'[j].phase \in {"publishing", "leaving", "ended"} => Recorded(j)'
  PROVE  RecordInv'
<1>1. RecordTypes'
  BY DEF RecordInv, RecordTypes
<1>2. ASSUME NEW i \in JobIds
      PROVE  /\ job'[i].phase # "free" => job'[i].channel \in Channels
             /\ job'[i].published \in Final => Done(i)'
             /\ job'[i].phase \in {"publishing", "leaving", "ended"} => Recorded(i)'
  <2>1. CASE i = j
    BY <2>1 DEF RecordInv, JobsOrdered, JobsAge
  <2>2. CASE i # j
    <3>1. job'[i] = job[i]
      BY <2>2
    <3> QED BY <1>1, <3>1, RecordedKept DEF RecordInv, JobsOrdered, Done
  <2> QED BY <2>1, <2>2
<1>3. \A c \in Channels : inFlight'[c] \in {inFlight[c], NoJob}
  BY DEF RecordInv, RecordTypes
<1>4. RequestsAttached'
  BY <1>3, AttachedKept DEF RecordInv, RequestsAttached, JobsAge, Repairs
<1> QED BY <1>1, <1>2, <1>4 DEF RecordInv, JobsOrdered

\* The fetch and its updates: nothing is recorded or final yet.
LEMMA FetchKeepsRecords ==
  ASSUME RecordInv, NEW j \in JobIds,
         \/ BeginFetch(j) \/ PersistUpdate(j)
         \/ \E p \in Providers :
              AcquirePermit(j, p) \/ PermitTimeout(j, p) \/ ProviderAnswers(j, p)
  PROVE  RecordInv'
<1> USE DEF RecordInv, RecordTypes
<1>1. CheckpointsAge /\ UNCHANGED <<clock, inFlight, checkpoint, reader>>
  <2>1. UNCHANGED <<clock, inFlight, checkpoint, reader>>
    BY DEF BeginFetch, PersistUpdate, AcquirePermit, PermitTimeout, ProviderAnswers
  <2> QED BY <2>1, RepairBounds DEF CheckpointsAge, JobIds
<1>2. JobShape'
  BY BeginShape, AttemptStepsShrink, JobStepsShrink
<1> DEFINE Early ==
      /\ job[j].phase \in {"spawned", "fetching"} /\ job'[j].phase = "fetching"
      /\ job'[j].channel = job[j].channel /\ job'[j].lostRecord = job[j].lostRecord
      /\ job'[j].published \in {job[j].published, "partial"}
      /\ \A i \in JobIds \ {j} : job'[i] = job[i]
<1> USE DEF JobShape, JobFields
<1>3. CASE BeginFetch(j)
  <2>1. job[j].phase = "spawned" /\ Early
    BY <1>3 DEF BeginFetch
  <2> QED BY <1>1, <1>2, <2>1, JobStepKeeps DEF JobsAge, JobsOrdered, Done, Final
<1>4. CASE PersistUpdate(j)
  <2>1. PICK ok \in BOOLEAN :
          job' = [job EXCEPT
            ![j].queued = @ - 1,
            ![j].persisted = @ \/ ok,
            ![j].published = IF ok THEN "partial" ELSE @]
    BY <1>4 DEF PersistUpdate
  <2>2. /\ job'[j].phase = job[j].phase /\ job'[j].channel = job[j].channel
        /\ job'[j].lostRecord = job[j].lostRecord
        /\ job'[j].published = IF ok THEN "partial" ELSE job[j].published
        /\ \A i \in JobIds \ {j} : job'[i] = job[i]
    BY <2>1
  <2>3. Early
    BY <1>4, <2>2 DEF PersistUpdate
  <2> QED BY <1>1, <1>2, <2>3, JobStepKeeps DEF JobsAge, JobsOrdered, Done, Final
<1>5. ASSUME NEW p \in Providers, AcquirePermit(j, p) \/ PermitTimeout(j, p)
      PROVE  RecordInv'
  <2>1. Early
    BY <1>5 DEF AcquirePermit, PermitTimeout, Waiting
  <2> QED BY <1>1, <1>2, <2>1, JobStepKeeps DEF JobsAge, JobsOrdered, Done, Final
<1>6. ASSUME NEW p \in Providers, ProviderAnswers(j, p) PROVE RecordInv'
  <2>1. PICK answer \in {"records", "empty", "anonymous", "error"} :
          job' = [job EXCEPT
            ![j].att[p].st = "done",
            ![j].answered = @ \/ answer # "error",
            ![j].queued = IF answer = "records" THEN @ + 1 ELSE @]
    BY <1>6 DEF ProviderAnswers
  <2>2. /\ job'[j].phase = job[j].phase /\ job'[j].channel = job[j].channel
        /\ job'[j].lostRecord = job[j].lostRecord
        /\ job'[j].published = job[j].published
        /\ \A i \in JobIds \ {j} : job'[i] = job[i]
    BY <2>1
  <2>3. Early
    BY <1>6, <2>2 DEF ProviderAnswers, Calling
  <2> QED BY <1>1, <1>2, <2>3, JobStepKeeps DEF JobsAge, JobsOrdered, Done, Final
<1> QED BY <1>3, <1>4, <1>5, <1>6

LEMMA RecordKeepsRecords ==
  ASSUME RecordInv, NEW j \in JobIds, RecordCheckpoint(j) PROVE RecordInv'
<1> USE DEF RecordInv, RecordTypes, JobShape, JobFields
<1> DEFINE c == job[j].channel
           row == [job |-> j, outcome |-> JobOutcome(job[j]),
                   nextRetry |-> clock + RetryAfter[JobOutcome(job[j])]]
<1>1. JobShape' /\ UNCHANGED <<clock, inFlight, reader>>
  BY JobStepsShrink DEF RecordCheckpoint
<1>2. job[j].phase = "fetching" /\ c \in Channels
  BY DEF RecordCheckpoint, FetchOver, JobsOrdered
<1>3. job[j].published \notin Final
  BY <1>2 DEF JobsOrdered, Done
<1>4. CASE /\ checkpoint' = [checkpoint EXCEPT ![c] = Newest(@ \cup {row})]
           /\ job' = [job EXCEPT ![j].phase = "publishing", ![j].outcome = row.outcome]
  <2> HIDE DEF row
  <2>1. row.job = j
    BY DEF row
  <2>2. checkpoint'[c] = Newest(checkpoint[c] \cup {row})
    BY <1>2, <1>4
  <2>3. \A k \in checkpoint[c] \cup {row} : k.job \in JobIds
    BY <1>2, <2>1
  <2>4. \A k \in checkpoint[c] \cup {row} : \E n \in checkpoint'[c] : n.job >= k.job
    BY <2>2, <2>3, NewestKept
  <2>5. checkpoint'[c] \subseteq checkpoint[c] \cup {row}
    BY <2>2 DEF Newest
  <2>6. \A d \in Channels : d # c => checkpoint'[d] = checkpoint[d]
    BY <1>4
  <2>7. /\ DOMAIN checkpoint' = Channels
        /\ \A d \in Channels : \A k \in checkpoint'[d] : k.job \in JobIds
    BY <1>4, <2>3, <2>5, <2>6
  <2>8. CheckpointsAge
    BY <2>3, <2>4, <2>6, RepairBounds DEF CheckpointsAge, JobIds
  <2>9. /\ \A i \in JobIds \ {j} : job'[i] = job[i]
        /\ job'[j].phase = "publishing" /\ job'[j].channel = c
        /\ job'[j].published = job[j].published
        /\ job'[j].lostRecord = job[j].lostRecord
    BY <1>4
  <2>10. Recorded(j)'
    BY <2>1, <2>4, <2>9 DEF Recorded
  <2> QED BY <1>1, <1>2, <1>3, <2>7, <2>8, <2>9, <2>10, JobStepKeeps
          DEF JobsAge, Done
<1>5. CASE /\ job' = [job EXCEPT ![j].phase = "publishing", ![j].outcome = row.outcome,
                                 ![j].lostRecord = TRUE]
           /\ UNCHANGED checkpoint
  <2> HIDE DEF row
  <2>1. CheckpointsAge
    BY <1>5, RepairBounds DEF CheckpointsAge, JobIds
  <2>2. /\ \A i \in JobIds \ {j} : job'[i] = job[i]
        /\ job'[j].phase = "publishing" /\ job'[j].channel = c
        /\ job'[j].published = job[j].published
        /\ job'[j].lostRecord = TRUE
    BY <1>5
  <2>3. Recorded(j)'
    BY <2>2 DEF Recorded
  <2>4. JobsAge
    BY <1>2, <2>2 DEF JobsAge, Done
  <2>5. checkpoint' = checkpoint
    BY <1>5
  <2> QED BY <1>1, <1>2, <1>3, <2>1, <2>2, <2>3, <2>4, <2>5, JobStepKeeps
<1> QED BY <1>4, <1>5 DEF RecordCheckpoint

LEMMA LeavingKeepsRecords ==
  ASSUME RecordInv, NEW j \in JobIds, PublishFinal(j) \/ RemoveJob(j) PROVE RecordInv'
<1> USE DEF RecordInv, RecordTypes, JobShape, JobFields
<1>1. JobShape' /\ UNCHANGED <<clock, checkpoint, reader>> /\ CheckpointsAge
  <2>1. JobShape' /\ UNCHANGED <<clock, checkpoint, reader>>
    BY JobStepsShrink DEF PublishFinal, RemoveJob
  <2> QED BY <2>1, RepairBounds DEF CheckpointsAge, JobIds
<1>2. job[j].phase \in {"publishing", "leaving"} /\ Recorded(j) /\ job[j].channel \in Channels
  BY DEF PublishFinal, RemoveJob, JobsOrdered
<1>3. /\ \A i \in JobIds \ {j} : job'[i] = job[i]
      /\ job'[j].phase \in {"leaving", "ended"}
      /\ job'[j].channel = job[j].channel
      /\ job'[j].lostRecord = job[j].lostRecord
  <2>1. CASE PublishFinal(j)
    BY <2>1 DEF PublishFinal
  <2>2. CASE RemoveJob(j)
    BY <2>2 DEF RemoveJob, EndedJob, FreeJob
  <2> QED BY <2>1, <2>2
<1>4. inFlight' = inFlight \/ \E c \in Channels : inFlight' = [inFlight EXCEPT ![c] = NoJob]
  BY <1>2 DEF PublishFinal, RemoveJob
<1>5. Recorded(j)'
  BY <1>1, <1>2, <1>3 DEF Recorded
<1> QED BY <1>1, <1>2, <1>3, <1>4, <1>5, JobStepKeeps DEF JobsAge, Done

\* The job a request starts is a free one.
LEMMA LeastFresh ==
  ASSUME NEW fresh \in SUBSET JobIds, fresh # {}
  PROVE  (CHOOSE j \in fresh : \A i \in fresh : j <= i) \in fresh
<1>1. fresh \in SUBSET Nat
  BY RepairBounds DEF JobIds
<1>2. PICK j \in fresh : \A i \in fresh : ~(<<i, j>> \in OpToRel(<, Nat))
  BY <1>1, NatLessThanWellFounded, WFMin, Zenon
<1>3. \A x, y \in Nat : x < y => <<x, y>> \in OpToRel(<, Nat)
  BY Zenon DEF OpToRel
<1>4. \A i \in fresh : ~(i < j)
  BY <1>1, <1>2, <1>3
<1>5. \A i \in fresh : j <= i
  BY <1>1, <1>4
<1> QED BY <1>5

LEMMA RequestKeepsRecords ==
  ASSUME RecordInv, NEW r \in Readers, ReaderStep(r) PROVE RecordInv'
<1> USE DEF RecordInv, RecordTypes
<1>1. JobShape' /\ UNCHANGED <<clock, checkpoint>>
  <2>1. UNCHANGED <<clock, checkpoint>>
    BY DEF ReaderStep, ReadCheckpoints, StartOrAttach, SeeCompletion, Answer
  <2> QED BY <2>1, ReaderStepsShrink
<1>2. ASSUME UNCHANGED <<job, inFlight>>, DOMAIN reader' = Readers,
             \A q \in Readers \ {r} : reader'[q] = reader[q],
             DOMAIN reader'[r] = {"pc", "channel", "job", "seen"},
             reader'[r].pc # "idle" => reader'[r].channel \in Channels,
             reader'[r].pc \in {"waiting", "reread"} =>
               Repairs(reader'[r].job, reader'[r].channel),
             reader'[r].pc = "reread" /\ reader'[r].seen \in Final => Done(reader'[r].job)
      PROVE  RecordInv'
  <2>1. RecordTypes'
    BY <1>1, <1>2
  <2>2. JobsOrdered'
    BY <1>1, <1>2 DEF JobsOrdered, Recorded, Done
  <2>3. RequestsAttached'
    BY <1>1, <1>2 DEF RequestsAttached, Repairs, Done
  <2> QED BY <2>1, <2>2, <2>3
<1>3. CASE ReadCheckpoints(r)
  <2>1. PICK c \in Channels :
          reader' = [reader EXCEPT ![r].pc = "due", ![r].channel = c]
    BY <1>3 DEF ReadCheckpoints
  <2> QED BY <1>3, <1>2, <2>1 DEF ReadCheckpoints
<1>4. CASE SeeCompletion(r)
  <2>1. /\ reader[r].pc = "waiting"
        /\ reader' = [reader EXCEPT ![r].pc = "reread",
                              ![r].seen = job[reader[r].job].published]
        /\ UNCHANGED <<job, inFlight>>
    BY <1>4 DEF SeeCompletion
  <2>2. Repairs(reader[r].job, reader[r].channel) /\ reader[r].channel \in Channels
    BY <2>1 DEF RequestsAttached
  <2>3. job[reader[r].job].published \in Final => Done(reader[r].job)
    BY <2>2 DEF JobsOrdered, Repairs
  <2> QED BY <1>2, <2>1, <2>2, <2>3
<1>5. CASE Answer(r)
  BY <1>5, <1>2 DEF Answer
<1>6. CASE StartOrAttach(r) /\ inFlight[reader[r].channel] # NoJob
  <2>1. /\ reader[r].pc = "due" /\ UNCHANGED <<job, inFlight>>
        /\ reader' = [reader EXCEPT ![r].pc = "waiting",
                                    ![r].job = inFlight[reader[r].channel]]
    BY <1>6 DEF StartOrAttach
  <2>2. /\ reader[r].channel \in Channels
        /\ Repairs(inFlight[reader[r].channel], reader[r].channel)
    BY <1>6, <2>1 DEF RequestsAttached
  <2> QED BY <1>2, <2>1, <2>2
<1>7. CASE StartOrAttach(r) /\ inFlight[reader[r].channel] = NoJob
  <2> DEFINE c == reader[r].channel
             fresh == {j \in JobIds : job[j].phase = "free"}
  <2>1. PICK next :
          /\ next = CHOOSE j \in fresh : \A i \in fresh : j <= i
          /\ job' = [job EXCEPT ![next] = [FreeJob EXCEPT !.phase = "spawned",
                                                          !.channel = c]]
          /\ inFlight' = [inFlight EXCEPT ![c] = next]
          /\ reader' = [reader EXCEPT ![r].pc = "waiting", ![r].job = next]
          /\ reader[r].pc = "due" /\ fresh # {}
    BY <1>7 DEF StartOrAttach
  <2>2. next \in fresh
    <3>1. fresh \in SUBSET JobIds
      OBVIOUS
    <3> HIDE DEF fresh
    <3> QED BY <2>1, <3>1, LeastFresh
  <2>3. c \in Channels
    BY <2>1 DEF RequestsAttached
  <2>4. /\ next \in JobIds /\ job[next].phase = "free" /\ ~Done(next)
        /\ \A j \in JobIds \ {next} : job'[j] = job[j]
        /\ job'[next].phase = "spawned" /\ job'[next].channel = c
        /\ job'[next].published = "none"
    BY <2>1, <2>2 DEF JobShape, FreeJob, Done
  <2>5. RecordTypes'
    BY <1>1, <2>1
  <2>6. JobsAge
    BY <2>4 DEF JobsAge, Done
  <2>7. JobsOrdered'
    <3>1. \A j \in JobIds \ {next} : Recorded(j)' = Recorded(j) /\ Done(j)' = Done(j)
      BY <1>1, <2>4 DEF Recorded, Done
    <3>2. ASSUME NEW j \in JobIds
          PROVE  /\ job'[j].phase # "free" => job'[j].channel \in Channels
                 /\ job'[j].published \in Final => Done(j)'
                 /\ job'[j].phase \in {"publishing", "leaving", "ended"} => Recorded(j)'
      <4>1. CASE j = next
        BY <2>3, <2>4, <4>1 DEF Final
      <4>2. CASE j # next
        BY <2>4, <3>1, <4>2 DEF JobsOrdered
      <4> QED BY <4>1, <4>2
    <3> QED BY <3>2 DEF JobsOrdered
  <2>8. \A d \in Channels : inFlight'[d] = IF d = c THEN next ELSE inFlight[d]
    BY <2>1, <2>3
  <2>9. /\ \A q \in Readers \ {r} : reader'[q] = reader[q]
        /\ reader'[r].pc = "waiting" /\ reader'[r].job = next /\ reader'[r].channel = c
    BY <2>1
  <2>10. /\ \A j, d : Repairs(j, d) => Repairs(j, d)'
         /\ \A j \in JobIds : Done(j) => Done(j)'
    BY <2>6, AttachedKept DEF JobsAge
  <2>11. \A d \in Channels : inFlight'[d] # NoJob => Repairs(inFlight[d], d)'
    <3> SUFFICES ASSUME NEW d \in Channels, inFlight'[d] # NoJob
                 PROVE  /\ inFlight'[d] \in JobIds
                        /\ job'[inFlight'[d]].phase # "free"
                        /\ job'[inFlight'[d]].channel = d
      BY DEF Repairs
    <3>1. CASE d = c
      BY <2>4, <2>8, <3>1
    <3>2. CASE d # c
      BY <2>8, <2>10, <3>2 DEF RequestsAttached, Repairs
    <3> QED BY <3>1, <3>2
  <2>12. ASSUME NEW q \in Readers
         PROVE  /\ reader'[q].pc # "idle" => reader'[q].channel \in Channels
                /\ reader'[q].pc \in {"waiting", "reread"} =>
                     Repairs(reader[q].job, reader[q].channel)'
                /\ reader'[q].pc = "reread" /\ reader'[q].seen \in Final =>
                     Done(reader[q].job)'
    <3>1. CASE q = r
      BY <2>3, <2>4, <2>9, <3>1 DEF Repairs
    <3>2. CASE q # r
      <4>1. reader'[q] = reader[q]
        BY <2>9, <3>2
      <4>2. /\ reader[q].pc # "idle" => reader[q].channel \in Channels
            /\ reader[q].pc \in {"waiting", "reread"} =>
                 Repairs(reader[q].job, reader[q].channel)
            /\ reader[q].pc = "reread" /\ reader[q].seen \in Final =>
                 Done(reader[q].job)
        BY DEF RequestsAttached
      <4> QED BY <2>10, <4>1, <4>2 DEF Repairs, Done
    <3> QED BY <3>1, <3>2
  <2>13. RequestsAttached'
    BY <2>11, <2>12 DEF RequestsAttached
  <2> QED BY <2>5, <2>7, <2>13
<1> QED BY <1>3, <1>4, <1>5, <1>6, <1>7 DEF ReaderStep

LEMMA RecordStep == RecordInv /\ [RepairNext]_repairVars => RecordInv'
<1> SUFFICES ASSUME RecordInv, [RepairNext]_repairVars PROVE RecordInv'
  OBVIOUS
<1>1. ASSUME NEW j \in JobIds, JobStep(j) PROVE RecordInv'
  BY <1>1, FetchKeepsRecords, RecordKeepsRecords, LeavingKeepsRecords DEF JobStep
<1>2. ASSUME NEW r \in Readers, ReaderStep(r) PROVE RecordInv'
  BY <1>2, RequestKeepsRecords
<1>3. ASSUME RepairTick \/ UNCHANGED repairVars PROVE RecordInv'
  <2>1. clock' \in Nat /\ UNCHANGED <<job, inFlight, checkpoint, reader>>
    BY <1>3 DEF RepairTick, repairVars, RecordInv, RecordTypes
  <2> QED BY <2>1 DEF RecordInv, RecordTypes, JobShape, JobsOrdered, RequestsAttached,
                      Recorded, Done, Repairs
<1> QED BY <1>1, <1>2, <1>3 DEF RepairNext

\* A request that a final completion woke finds that job's checkpoint, or a newer
\* one of its channel, when it reads the checkpoints again: recording comes before
\* the final completion, and trimming never takes the newest checkpoint (run_job
\* of repair.rs, record_repair_checkpoint of sqlite.rs).
THEOREM CompletionIsRecorded == RepairSpec => []FinalIsRecorded
<1>1. RecordInv => FinalIsRecorded
  BY DEF RecordInv, RequestsAttached, JobsOrdered, FinalIsRecorded, Repairs, Recorded,
         Done, Final
<1> QED BY <1>1, RecordInitially, RecordStep, PTL DEF RepairSpec
-----------------------------------------------------------------------------
(* The types, and the bound on what a channel keeps.                         *)

Phases == {"free", "spawned", "fetching", "publishing", "leaving", "ended"}
RecordedPhases == {"publishing", "leaving", "ended"}

\* A channel's checkpoints are of different jobs, all past their fetch: a trim by
\* the age of the job keeps a bounded number only because no two are of one age.
CheckpointsDiffer ==
  \A c \in Channels :
    /\ IsFiniteSet(checkpoint[c])
    /\ \A k, m \in checkpoint[c] : k.job = m.job => k = m
    /\ \A k \in checkpoint[c] : job[k.job].phase \in RecordedPhases

StateTypes ==
  /\ clock \in 0..MaxRepairClock
  /\ circuit \in [Providers -> Circuits]
  /\ inFlight \in [Channels -> JobIds \cup {NoJob}]
  /\ \A j \in JobIds : job[j].phase \in Phases
  /\ \A r \in Readers : reader[r].pc \in {"idle", "due", "waiting", "reread"}
  /\ \A c \in Channels : Cardinality(checkpoint[c]) <= KeptCheckpoints

RepairTyped == RecordInv /\ StateTypes /\ CheckpointsDiffer

LEMMA NewestFew ==
  ASSUME NEW S, IsFiniteSet(S), \A k \in S : k.job \in JobIds,
         \A k, m \in S : k.job = m.job => k = m
  PROVE  Cardinality(Newest(S)) <= KeptCheckpoints
<1> USE RepairBounds DEF JobIds
<1> DEFINE N == Newest(S)
           Ages == {k.job : k \in N}
<1>1. IsFiniteSet(N) /\ N \subseteq S
  BY FS_Subset DEF Newest
<1>2. CASE N = {}
  BY <1>2, FS_EmptySet
<1>3. CASE N # {}
  <2>1. Ages \in SUBSET Nat /\ Ages # {}
    BY <1>1, <1>3
  <2>2. PICK a \in Ages : \A b \in Ages : ~(<<b, a>> \in OpToRel(<, Nat))
    BY <2>1, NatLessThanWellFounded, WFMin, Zenon
  <2>3. \A b \in Ages : ~(b < a)
    <3>1. \A x, y \in Nat : x < y => <<x, y>> \in OpToRel(<, Nat)
      BY Zenon DEF OpToRel
    <3> QED BY <2>1, <2>2, <3>1
  <2>4. PICK m \in N : a = m.job
    BY <2>2
  <2> DEFINE Later == {n \in S : n.job > m.job}
  <2>5. N \ {m} \subseteq Later
    <3> SUFFICES ASSUME NEW n \in N, n # m PROVE n.job > m.job
      BY <1>1
    <3>1. ~(n.job < m.job) /\ n.job # m.job
      BY <1>1, <2>3, <2>4
    <3> QED BY <1>1, <3>1
  <2>6. IsFiniteSet(Later) /\ Cardinality(Later) < KeptCheckpoints
    BY <1>1, FS_Subset DEF Newest
  <2>7. Cardinality(N \ {m}) <= Cardinality(Later)
    BY <2>5, <2>6, FS_Subset
  <2>8. Cardinality(N \ {m}) = Cardinality(N) - 1
    BY <1>1, FS_RemoveElement
  <2>9. Cardinality(N) \in Nat /\ Cardinality(Later) \in Nat
    BY <1>1, <2>6, FS_CardinalityType
  <2> QED BY <2>6, <2>7, <2>8, <2>9
<1> QED BY <1>2, <1>3

LEMMA RepairTypedInitially == RepairInit => RepairTyped
<1> SUFFICES ASSUME RepairInit PROVE RepairTyped
  OBVIOUS
<1>1. RecordInv /\ clock \in 0..MaxRepairClock /\ circuit \in [Providers -> Circuits]
  BY RecordInitially, RepairInitially DEF RepairInv, RepairTypes
<1>2. \A c \in Channels : checkpoint[c] = {} /\ Cardinality(checkpoint[c]) = 0
  BY FS_EmptySet DEF RepairInit
<1>3. \A j \in JobIds : job[j].phase \in Phases
  BY DEF RepairInit, FreeJob, Phases
<1>4. \A r \in Readers : reader[r].pc = "idle"
  BY DEF RepairInit
<1>5. StateTypes
  BY <1>1, <1>2, <1>3, <1>4, RepairBounds DEF RepairInit, StateTypes
<1>6. CheckpointsDiffer
  BY <1>2, FS_EmptySet DEF CheckpointsDiffer
<1> QED BY <1>1, <1>5, <1>6 DEF RepairTyped

LEMMA CircuitsStayTyped ==
  ASSUME RepairTyped, [RepairNext]_repairVars
  PROVE  clock' \in 0..MaxRepairClock /\ circuit' \in [Providers -> Circuits]
<1> USE RepairBounds
<1>1. clock \in 0..MaxRepairClock /\ circuit \in [Providers -> Circuits]
  BY DEF RepairTyped, StateTypes
<1>2. CASE UNCHANGED <<clock, circuit>>
  BY <1>1, <1>2
<1>3. ASSUME RepairTick PROVE clock' \in 0..MaxRepairClock /\ UNCHANGED circuit
  BY <1>1, <1>3 DEF RepairTick
<1>4. ASSUME NEW j \in JobIds, BeginFetch(j)
      PROVE  UNCHANGED clock /\ circuit' \in [Providers -> Circuits]
  <2>1. /\ UNCHANGED clock
        /\ circuit' = [p \in Providers |-> BeginAttempt(circuit[p], clock)]
    BY <1>4 DEF BeginFetch
  <2>2. \A p \in Providers : BeginAttempt(circuit[p], clock) \in Circuits
    BY <1>1 DEF BeginAttempt, IsOpen, Circuits
  <2> QED BY <2>1, <2>2
<1>5. ASSUME NEW j \in JobIds, NEW p \in Providers, ProviderAnswers(j, p)
      PROVE  UNCHANGED clock /\ circuit' \in [Providers -> Circuits]
  <2>1. PICK answer \in {"records", "empty", "anonymous", "error"} :
          circuit' = [circuit EXCEPT
            ![p] = FinishAttempt(@, answer \in {"records", "empty"}, clock)]
    BY <1>5 DEF ProviderAnswers
  <2>2. FinishAttempt(circuit[p], answer \in {"records", "empty"}, clock) \in Circuits
    BY <1>1 DEF FinishAttempt, ClosedCircuit, Circuits
  <2> QED BY <1>1, <1>5, <2>1, <2>2 DEF ProviderAnswers
<1> QED
  BY <1>1, <1>2, <1>3, <1>4, <1>5
  DEF RepairNext, repairVars, JobStep, ReaderStep, PersistUpdate, RecordCheckpoint,
      PublishFinal, RemoveJob, AcquirePermit, PermitTimeout, ReadCheckpoints, StartOrAttach,
      SeeCompletion, Answer
\* No step invents a phase, and none takes a job back to before its checkpoint.
LEMMA PhasesAdvance ==
  ASSUME RepairTyped, [RepairNext]_repairVars
  PROVE  \A i \in JobIds :
           /\ job'[i].phase \in Phases
           /\ job[i].phase \in RecordedPhases => job'[i].phase \in RecordedPhases
<1> USE DEF Phases, RecordedPhases
<1>1. JobShape /\ \A i \in JobIds : job[i].phase \in Phases
  BY DEF RepairTyped, RecordInv, RecordTypes, StateTypes
<1> USE DEF JobShape, JobFields
<1>2. ASSUME NEW j \in JobIds, JobStep(j),
             NEW i \in JobIds
      PROVE  /\ job'[i].phase \in Phases
             /\ job[i].phase \in RecordedPhases => job'[i].phase \in RecordedPhases
  <2>1. CASE BeginFetch(j)
    BY <1>1, <2>1 DEF BeginFetch
  <2>2. CASE PersistUpdate(j)
    BY <1>1, <2>2 DEF PersistUpdate
  <2>3. CASE RecordCheckpoint(j) \/ PublishFinal(j)
    BY <1>1, <2>3 DEF RecordCheckpoint, PublishFinal
  <2>4. CASE RemoveJob(j)
    BY <1>1, <2>4 DEF RemoveJob, EndedJob, FreeJob
  <2>5. ASSUME NEW p \in Providers, AcquirePermit(j, p) \/ PermitTimeout(j, p)
        PROVE  job'[i].phase = job[i].phase
    BY <1>1, <2>5 DEF AcquirePermit, PermitTimeout
  <2>6. ASSUME NEW p \in Providers, ProviderAnswers(j, p)
        PROVE  job'[i].phase = job[i].phase
    <3>1. PICK answer \in {"records", "empty", "anonymous", "error"} :
            job' = [job EXCEPT
              ![j].att[p].st = "done",
              ![j].answered = @ \/ answer # "error",
              ![j].queued = IF answer = "records" THEN @ + 1 ELSE @]
      BY <2>6 DEF ProviderAnswers
    <3> QED BY <1>1, <3>1
  <2> QED BY <1>1, <1>2, <2>1, <2>2, <2>3, <2>4, <2>5, <2>6 DEF JobStep
<1>3. ASSUME NEW r \in Readers, StartOrAttach(r), ~UNCHANGED job,
             NEW i \in JobIds
      PROVE  /\ job'[i].phase \in Phases
             /\ job[i].phase \in RecordedPhases => job'[i].phase \in RecordedPhases
  <2> DEFINE c == reader[r].channel
             fresh == {j \in JobIds : job[j].phase = "free"}
  <2>1. PICK next :
          /\ next = CHOOSE j \in fresh : \A k \in fresh : j <= k
          /\ job' = [job EXCEPT ![next] = [FreeJob EXCEPT !.phase = "spawned",
                                                          !.channel = c]]
          /\ fresh # {}
    BY <1>3 DEF StartOrAttach
  <2>2. next \in fresh
    <3>1. fresh \in SUBSET JobIds
      OBVIOUS
    <3> HIDE DEF fresh
    <3> QED BY <2>1, <3>1, LeastFresh
  <2> QED BY <1>1, <2>1, <2>2 DEF FreeJob
<1>4. ASSUME UNCHANGED job
      PROVE  \A i \in JobIds :
               /\ job'[i].phase \in Phases
               /\ job[i].phase \in RecordedPhases => job'[i].phase \in RecordedPhases
  BY <1>1, <1>4
<1> QED
  BY <1>2, <1>3, <1>4
  DEF RepairNext, repairVars, ReaderStep, RepairTick, ReadCheckpoints, SeeCompletion, Answer

LEMMA CheckpointsStayFew ==
  ASSUME RepairTyped, RecordInv', [RepairNext]_repairVars
  PROVE  /\ \A c \in Channels : Cardinality(checkpoint'[c]) <= KeptCheckpoints
         /\ CheckpointsDiffer'
<1>1. ASSUME UNCHANGED checkpoint
      PROVE  /\ \A c \in Channels : Cardinality(checkpoint'[c]) <= KeptCheckpoints
             /\ CheckpointsDiffer'
  BY <1>1, PhasesAdvance DEF RepairTyped, RecordInv, RecordTypes, StateTypes, CheckpointsDiffer
<1>2. ASSUME NEW j \in JobIds, RecordCheckpoint(j), ~UNCHANGED checkpoint,
             NEW c \in Channels
      PROVE  /\ Cardinality(checkpoint'[c]) <= KeptCheckpoints
             /\ IsFiniteSet(checkpoint'[c])
             /\ \A k, m \in checkpoint'[c] : k.job = m.job => k = m
             /\ \A k \in checkpoint'[c] : job'[k.job].phase \in RecordedPhases
  <2> DEFINE S == checkpoint[c]
  <2>1. PICK row : /\ row.job = j
                   /\ checkpoint' = [checkpoint EXCEPT ![job[j].channel] =
                                       Newest(@ \cup {row})]
    BY <1>2, Zenon DEF RecordCheckpoint
  <2>2. /\ job[j].phase = "fetching"
        /\ job'[j].phase = "publishing"
    BY <1>2 DEF RecordCheckpoint, FetchOver, RepairTyped, RecordInv, RecordTypes, JobShape, JobFields
  <2>3. /\ IsFiniteSet(S) /\ \A k \in S : k.job \in JobIds /\ k.job # j
        /\ \A k, m \in S : k.job = m.job => k = m
        /\ \A k \in S : job[k.job].phase \in RecordedPhases
        /\ Cardinality(S) <= KeptCheckpoints
    BY <2>2 DEF RepairTyped, RecordInv, RecordTypes, StateTypes, CheckpointsDiffer, RecordedPhases
  <2>4. \A k \in S : job'[k.job].phase \in RecordedPhases
    BY <2>3, PhasesAdvance
  <2>5. CASE c = job[j].channel
    <3> DEFINE T == S \cup {row}
    <3>1. checkpoint'[c] = Newest(T)
      BY <2>1, <2>5 DEF RepairTyped, RecordInv, RecordTypes
    <3>2. /\ IsFiniteSet(T) /\ \A k \in T : k.job \in JobIds
          /\ \A k, m \in T : k.job = m.job => k = m
          /\ \A k \in T : job'[k.job].phase \in RecordedPhases
      BY <2>1, <2>2, <2>3, <2>4, FS_AddElement DEF RecordedPhases
    <3> HIDE DEF T
    <3>3. Newest(T) \subseteq T
      BY DEF Newest
    <3>4. IsFiniteSet(Newest(T)) /\ Cardinality(Newest(T)) <= KeptCheckpoints
      BY <3>2, <3>3, NewestFew, FS_Subset
    <3> QED BY <3>1, <3>2, <3>3, <3>4
  <2>6. CASE c # job[j].channel
    <3>1. checkpoint'[c] = S
      BY <2>1, <2>6 DEF RepairTyped, RecordInv, RecordTypes
    <3> QED BY <2>3, <2>4, <3>1
  <2> QED BY <2>5, <2>6
<1>3. ASSUME NEW j \in JobIds, RecordCheckpoint(j), ~UNCHANGED checkpoint
      PROVE  /\ \A c \in Channels : Cardinality(checkpoint'[c]) <= KeptCheckpoints
             /\ CheckpointsDiffer'
  BY <1>2, <1>3 DEF CheckpointsDiffer
<1> QED
  BY <1>1, <1>3
  DEF RepairNext, repairVars, RepairTick, JobStep, ReaderStep, BeginFetch, PersistUpdate,
      PublishFinal, RemoveJob, AcquirePermit, PermitTimeout, ProviderAnswers,
      ReadCheckpoints, StartOrAttach, SeeCompletion, Answer

LEMMA RequestsStayTyped ==
  ASSUME RepairTyped, [RepairNext]_repairVars
  PROVE  \A r \in Readers : reader'[r].pc \in {"idle", "due", "waiting", "reread"}
<1>1. /\ \A r \in Readers : reader[r].pc \in {"idle", "due", "waiting", "reread"}
      /\ DOMAIN reader = Readers
      /\ \A r \in Readers : DOMAIN reader[r] = {"pc", "channel", "job", "seen"}
  BY DEF RepairTyped, RecordInv, RecordTypes, StateTypes
<1>2. ASSUME NEW r \in Readers, ReaderStep(r), NEW q \in Readers
      PROVE  reader'[q].pc \in {"idle", "due", "waiting", "reread"}
  BY <1>1, <1>2 DEF ReaderStep, ReadCheckpoints, StartOrAttach, SeeCompletion, Answer
<1>3. ASSUME UNCHANGED reader
      PROVE  \A r \in Readers : reader'[r].pc \in {"idle", "due", "waiting", "reread"}
  BY <1>1, <1>3
<1> QED
  BY <1>2, <1>3
  DEF RepairNext, repairVars, RepairTick, JobStep, BeginFetch, PersistUpdate,
      RecordCheckpoint, PublishFinal, RemoveJob, AcquirePermit, PermitTimeout, ProviderAnswers

LEMMA InFlightStaysTyped ==
  ASSUME RepairTyped, [RepairNext]_repairVars
  PROVE  inFlight' \in [Channels -> JobIds \cup {NoJob}]
<1>1. inFlight \in [Channels -> JobIds \cup {NoJob}]
  BY DEF RepairTyped, StateTypes
<1>2. CASE UNCHANGED inFlight
  BY <1>1, <1>2
<1>3. ASSUME NEW j \in JobIds, RemoveJob(j)
      PROVE  inFlight' \in [Channels -> JobIds \cup {NoJob}]
  BY <1>1, <1>3 DEF RemoveJob
<1>4. ASSUME NEW r \in Readers, StartOrAttach(r), ~UNCHANGED inFlight
      PROVE  inFlight' \in [Channels -> JobIds \cup {NoJob}]
  <2> DEFINE fresh == {j \in JobIds : job[j].phase = "free"}
             next == CHOOSE j \in fresh : \A i \in fresh : j <= i
  <2>1. fresh # {} /\ inFlight' = [inFlight EXCEPT ![reader[r].channel] = next]
    BY <1>4 DEF StartOrAttach
  <2>2. next \in fresh
    <3>1. fresh \in SUBSET JobIds
      OBVIOUS
    <3> HIDE DEF fresh
    <3> QED BY <2>1, <3>1, LeastFresh
  <2> QED BY <1>1, <2>1, <2>2
<1> QED
  BY <1>2, <1>3, <1>4
  DEF RepairNext, repairVars, RepairTick, JobStep, ReaderStep, BeginFetch, PersistUpdate,
      RecordCheckpoint, PublishFinal, AcquirePermit, PermitTimeout, ProviderAnswers,
      ReadCheckpoints, SeeCompletion, Answer

LEMMA RepairTypedStep == RepairTyped /\ [RepairNext]_repairVars => RepairTyped'
<1> SUFFICES ASSUME RepairTyped, [RepairNext]_repairVars PROVE RepairTyped'
  OBVIOUS
<1>1. RecordInv'
  BY RecordStep DEF RepairTyped
<1>2. StateTypes'
  BY <1>1, CircuitsStayTyped, PhasesAdvance, CheckpointsStayFew, RequestsStayTyped,
     InFlightStaysTyped
  DEF StateTypes
<1> QED BY <1>1, <1>2, CheckpointsStayFew DEF RepairTyped

\* No two channels ever share a job: a job is attached to one channel for life.
LEMMA RepairTypesHold == RepairTyped => RepairTypeOK
<1> SUFFICES ASSUME RepairTyped PROVE RepairTypeOK
  OBVIOUS
<1>1. \A c \in Channels : inFlight[c] # NoJob => Repairs(inFlight[c], c)
  BY DEF RepairTyped, RecordInv, RequestsAttached
<1> QED BY <1>1 DEF RepairTyped, StateTypes, Phases, Circuits, Repairs, RepairTypeOK

\* The tables of the repair service keep their shape whatever jobs, providers and
\* requests do: a channel attaches its requests to one job of its own, and no more
\* checkpoints of a channel are kept than the trim of record_repair_checkpoint
\* leaves (start_or_attach of repair.rs, record_repair_checkpoint of sqlite.rs).
THEOREM RepairIsTyped == RepairSpec => []RepairTypeOK
BY RepairTypedInitially, RepairTypedStep, RepairTypesHold, PTL DEF RepairSpec
=============================================================================
