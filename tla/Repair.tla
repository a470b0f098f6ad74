------------------------------- MODULE Repair -------------------------------
(***************************************************************************)
(* External channel repair: one background job per channel asks every      *)
(* provider whose circuit lets it through, stores what they return,        *)
(* records a checkpoint and publishes its completion to the requests that  *)
(* attached to it.  Channels, deadlines and retry windows are kept; what a *)
(* provider returns is one of four kinds of answer.                        *)
(***************************************************************************)
EXTENDS Integers, FiniteSets

CONSTANTS Channels, Providers, Readers,
          MaxInflight,        \* repair.max_inflight: permits shared by all jobs
          FailureThreshold,   \* consecutive failures that open a circuit
          OpenDuration,       \* ticks a circuit stays open before a probe
          RequestTimeout,     \* ticks a fetch may take
          RetryAfter,         \* outcome -> ticks until the next attempt
          KeptCheckpoints,    \* checkpoints kept per channel (8 in the code)
          MaxJobs,            \* bound: jobs started in a behaviour
          MaxRepairClock,     \* bound: ticks in a behaviour
          NoJob

Outcomes == {"success", "partial", "failed"}
JobIds == 1..MaxJobs

ASSUME RepairBounds ==
  /\ {MaxInflight, FailureThreshold, KeptCheckpoints, MaxJobs} \subseteq Nat \ {0}
  /\ {OpenDuration, RequestTimeout, MaxRepairClock} \subseteq Nat
  /\ RetryAfter \in [Outcomes -> Nat]
  /\ NoJob \notin JobIds

VARIABLES
  clock,         \* monotonic time
  circuit,       \* provider -> [failures, openedAt, probe]; openedAt = -1: closed
  job,           \* job id -> what the spawned task has done so far
  inFlight,      \* channel -> the job other requests attach to, or NoJob
  checkpoint,    \* channel -> recorded checkpoints, newest KeptCheckpoints
  reader         \* request -> [pc, channel, job, seen]

repairVars == <<clock, circuit, job, inFlight, checkpoint, reader>>

-----------------------------------------------------------------------------
(* The circuit breaker of a provider *)

ClosedCircuit == [failures |-> 0, openedAt |-> -1, probe |-> FALSE]
IsOpen(c) == c.openedAt # -1

\* MUTANT of Admits: two jobs both probe an open circuit.
AdmitsWhileProbing(c, now) == IsOpen(c) => now - c.openedAt >= OpenDuration

\* begin_attempt: a closed circuit admits everyone, an open one a single probe
\* once it has been open for long enough.
Admits(c, now) ==
  IsOpen(c) => now - c.openedAt >= OpenDuration /\ ~c.probe
BeginAttempt(c, now) ==
  IF Admits(c, now) THEN [c EXCEPT !.probe = IsOpen(c)] ELSE c

\* finish_attempt: success closes the circuit, failure releases the probe and
\* (re)opens the circuit when it is open or at the threshold.
FinishAttempt(c, ok, now) ==
  IF ok THEN ClosedCircuit
  ELSE [failures |-> c.failures + 1,
        probe    |-> FALSE,
        openedAt |-> IF IsOpen(c) \/ c.failures + 1 >= FailureThreshold
                       THEN now ELSE c.openedAt]

-----------------------------------------------------------------------------
(* A job *)

NoAttempt == [st |-> "none", probe |-> FALSE]
FreeJob == [phase |-> "free", channel |-> CHOOSE c \in Channels : TRUE,
            deadline |-> 0, att |-> [p \in Providers |-> NoAttempt],
            queued |-> 0, persisted |-> FALSE, answered |-> FALSE,
            outcome |-> "failed", published |-> "none", lostRecord |-> FALSE]

Running(j) == job[j].phase \notin {"free", "ended"}
Calls == {jp \in JobIds \X Providers : job[jp[1]].att[jp[2]].st = "call"}
Waiting(j, p) == job[j].phase = "fetching" /\ job[j].att[p].st = "permit"
Calling(j, p) == job[j].phase = "fetching" /\ job[j].att[p].st = "call"
FetchOver(j) == /\ job[j].phase = "fetching" /\ job[j].queued = 0
                /\ \A p \in Providers : job[j].att[p].st \in {"none", "done"}

\* The state of the circuit and of the attempts when a job starts its fetch.
BeginFetch(j) ==
  /\ job[j].phase = "spawned"
  /\ circuit' = [p \in Providers |-> BeginAttempt(circuit[p], clock)]
  /\ job' = [job EXCEPT
       ![j].phase = "fetching",
       ![j].deadline = clock + RequestTimeout,
       ![j].att = [p \in Providers |->
          IF Admits(circuit[p], clock)
            THEN [st |-> "permit", probe |-> IsOpen(circuit[p])]
            ELSE NoAttempt]]
  /\ UNCHANGED <<clock, inFlight, checkpoint, reader>>

AcquirePermit(j, p) ==
  /\ Waiting(j, p)
  /\ Cardinality(Calls) < MaxInflight
  /\ job' = [job EXCEPT ![j].att[p].st = "call"]
  /\ UNCHANGED <<clock, circuit, inFlight, checkpoint, reader>>

\* The deadline passes and there is still no permit: the attempt returns without
\* finish_attempt, so the circuit is left as begin_attempt set it.
PermitTimeout(j, p) ==
  /\ Waiting(j, p)
  /\ clock >= job[j].deadline /\ Cardinality(Calls) >= MaxInflight
  /\ job' = [job EXCEPT ![j].att[p].st = "done"]
  /\ UNCHANGED <<clock, circuit, inFlight, checkpoint, reader>>

\* The provider answers: an error or a timeout fails the attempt; an answer
\* counts as a success for the job, but only one in which every message had an
\* identity counts as one for the circuit.  Records go to the update queue.
ProviderAnswers(j, p) ==
  /\ Calling(j, p)
  /\ \E answer \in {"records", "empty", "anonymous", "error"} :
       /\ circuit' = [circuit EXCEPT
            ![p] = FinishAttempt(@, answer \in {"records", "empty"}, clock)]
       /\ job' = [job EXCEPT
            ![j].att[p].st = "done",
            ![j].answered = @ \/ answer # "error",
            ![j].queued = IF answer = "records" THEN @ + 1 ELSE @]
  /\ UNCHANGED <<clock, inFlight, checkpoint, reader>>

\* append_batch of one provider's records; a stored batch is published as a
\* partial completion, a failed one only logged.
PersistUpdate(j) ==
  /\ job[j].phase = "fetching" /\ job[j].queued > 0
  /\ \E ok \in BOOLEAN :
       job' = [job EXCEPT
         ![j].queued = @ - 1,
         ![j].persisted = @ \/ ok,
         ![j].published = IF ok THEN "partial" ELSE @]
  /\ UNCHANGED <<clock, circuit, inFlight, checkpoint, reader>>

JobOutcome(r) ==
  CASE r.answered /\ r.persisted -> "success"
    [] r.answered /\ ~r.persisted -> "partial"
    [] OTHER -> "failed"

\* The newest KeptCheckpoints of a set: jobs of a channel complete in the order
\* of their ids.
Newest(s) == {k \in s : Cardinality({n \in s : n.job > k.job}) < KeptCheckpoints}

\* The fetch and its updates are over: record_repair_checkpoint inserts and trims
\* in one transaction, or fails, which is only logged.
RecordCheckpoint(j) ==
  LET r == job[j]
      row == [job |-> j, outcome |-> JobOutcome(r),
              nextRetry |-> clock + RetryAfter[JobOutcome(r)]]
  IN /\ FetchOver(j)
     /\ \/ /\ checkpoint' = [checkpoint EXCEPT ![r.channel] = Newest(@ \cup {row})]
           /\ job' = [job EXCEPT ![j].phase = "publishing", ![j].outcome = row.outcome]
        \/ /\ job' = [job EXCEPT ![j].phase = "publishing", ![j].outcome = row.outcome,
                                 ![j].lostRecord = TRUE]
           /\ UNCHANGED checkpoint
     /\ UNCHANGED <<clock, circuit, inFlight, reader>>

\* MUTANT of PublishFinal: the completion is published before its checkpoint.
PublishUnrecorded(j) ==
  \/ /\ job[j].phase = "publishing"
     /\ job' = [job EXCEPT ![j].phase = "leaving"]
     /\ UNCHANGED <<clock, circuit, inFlight, checkpoint, reader>>
  \/ /\ FetchOver(j)
     /\ job' = [job EXCEPT ![j].published = JobOutcome(job[j])]
     /\ UNCHANGED <<clock, circuit, inFlight, checkpoint, reader>>

PublishFinal(j) ==
  /\ job[j].phase = "publishing"
  /\ job' = [job EXCEPT ![j].phase = "leaving", ![j].published = job[j].outcome]
  /\ UNCHANGED <<clock, circuit, inFlight, checkpoint, reader>>

\* What is left of a job that ended: the last value its receivers can see.
EndedJob(r) == [FreeJob EXCEPT !.phase = "ended", !.channel = r.channel,
                !.published = r.published, !.lostRecord = r.lostRecord]

\* MUTANT of RemoveJob: the finished job stays in the map.
RemoveJobForgotten(j) ==
  /\ job[j].phase = "leaving"
  /\ job' = [job EXCEPT ![j] = EndedJob(@)]
  /\ UNCHANGED <<clock, circuit, inFlight, checkpoint, reader>>

RemoveJob(j) ==
  /\ job[j].phase = "leaving"
  /\ job' = [job EXCEPT ![j] = EndedJob(@)]
  /\ inFlight' = [inFlight EXCEPT ![job[j].channel] = NoJob]
  /\ UNCHANGED <<clock, circuit, checkpoint, reader>>

-----------------------------------------------------------------------------
(* A public request with insufficient coverage *)

Suppressed(c) == \E k \in checkpoint[c] : k.nextRetry > clock

\* The request reads the checkpoints; a fresh one suppresses the repair.
ReadCheckpoints(r) ==
  /\ reader[r].pc = "idle"
  /\ \E c \in Channels :
       /\ ~Suppressed(c)
       /\ reader' = [reader EXCEPT ![r].pc = "due", ![r].channel = c]
  /\ UNCHANGED <<clock, circuit, job, inFlight, checkpoint>>

\* start_or_attach, under the lock of the in-flight map.
StartOrAttach(r) ==
  LET c == reader[r].channel
      fresh == {j \in JobIds : job[j].phase = "free"}
      next == CHOOSE j \in fresh : \A i \in fresh : j <= i
  IN /\ reader[r].pc = "due"
     /\ \/ /\ inFlight[c] # NoJob
           /\ reader' = [reader EXCEPT ![r].pc = "waiting", ![r].job = inFlight[c]]
           /\ UNCHANGED <<job, inFlight>>
        \/ /\ inFlight[c] = NoJob /\ fresh # {}
           /\ clock + RequestTimeout <= MaxRepairClock
           /\ job' = [job EXCEPT ![next] = [FreeJob EXCEPT !.phase = "spawned",
                                                          !.channel = c]]
           /\ inFlight' = [inFlight EXCEPT ![c] = next]
           /\ reader' = [reader EXCEPT ![r].pc = "waiting", ![r].job = next]
     /\ UNCHANGED <<clock, circuit, checkpoint>>

\* wait_foreground ends with whatever has been published ...
SeeCompletion(r) ==
  /\ reader[r].pc = "waiting"
  /\ job[reader[r].job].published # "none"
  /\ reader' = [reader EXCEPT ![r].pc = "reread",
                              ![r].seen = job[reader[r].job].published]
  /\ UNCHANGED <<clock, circuit, job, inFlight, checkpoint>>

\* ... or with the foreground wait, and a request that saw a completion answers
\* after it has read the checkpoints again.
Answer(r) ==
  /\ reader[r].pc \in {"waiting", "reread"}
  /\ reader' = [reader EXCEPT ![r] = [pc |-> "idle", channel |-> @.channel,
                                      job |-> NoJob, seen |-> "none"]]
  /\ UNCHANGED <<clock, circuit, job, inFlight, checkpoint>>

\* Timers are punctual: time does not pass an attempt's deadline.
RepairTick ==
  /\ clock < MaxRepairClock
  /\ \A j \in JobIds, p \in Providers :
       Waiting(j, p) \/ Calling(j, p) => clock < job[j].deadline
  /\ clock' = clock + 1
  /\ UNCHANGED <<circuit, job, inFlight, checkpoint, reader>>

\* A circuit that earlier jobs, long ended, have just opened.
OpenedCircuit == [failures |-> FailureThreshold, openedAt |-> 0, probe |-> FALSE]

RepairInit ==
  /\ clock = 0
  /\ circuit \in [Providers -> {ClosedCircuit, OpenedCircuit}]
  /\ job = [j \in JobIds |-> FreeJob]
  /\ inFlight = [c \in Channels |-> NoJob]
  /\ checkpoint = [c \in Channels |-> {}]
  /\ reader = [r \in Readers |-> [pc |-> "idle", channel |-> FreeJob.channel,
                                  job |-> NoJob, seen |-> "none"]]

JobStep(j) ==
  \/ BeginFetch(j) \/ PersistUpdate(j)
  \/ RecordCheckpoint(j) \/ PublishFinal(j) \/ RemoveJob(j)
  \/ \E p \in Providers :
       AcquirePermit(j, p) \/ PermitTimeout(j, p) \/ ProviderAnswers(j, p)
ReaderStep(r) ==
  ReadCheckpoints(r) \/ StartOrAttach(r) \/ SeeCompletion(r) \/ Answer(r)

RepairNext ==
  \/ \E j \in JobIds : JobStep(j)
  \/ \E r \in Readers : ReaderStep(r)
  \/ RepairTick

\* The runtime polls a spawned job, its timers and its HTTP calls (which end by
\* their deadline); nothing is assumed of the requests.
RepairFairness == WF_repairVars(RepairTick) /\ \A j \in JobIds : WF_repairVars(JobStep(j))
RepairSpec == RepairInit /\ [][RepairNext]_repairVars /\ RepairFairness

-----------------------------------------------------------------------------
RepairTypeOK ==
  /\ clock \in 0..MaxRepairClock
  /\ circuit \in [Providers -> [failures : Nat, openedAt : -1..MaxRepairClock,
                                probe : BOOLEAN]]
  /\ inFlight \in [Channels -> JobIds \cup {NoJob}]
  /\ \A c \in Channels, k \in Channels : inFlight[c] = inFlight[k] => c = k \/ inFlight[c] = NoJob
  /\ \A c \in Channels : Cardinality(checkpoint[c]) <= KeptCheckpoints
  /\ \A j \in JobIds : job[j].phase \in {"free", "spawned", "fetching", "publishing", "leaving", "ended"}
  /\ \A r \in Readers : reader[r].pc \in {"idle", "due", "waiting", "reread"}

\* At any time at most one attempt probes an open provider, whatever jobs run for
\* other channels and whatever answers arrive late: begin_attempt's half-open
\* state limits the load on a provider that has been failing.
AtMostOneProbe ==
  \A p \in Providers :
    Cardinality({j \in JobIds : (Waiting(j, p) \/ Calling(j, p)) /\ job[j].att[p].probe}) <= 1

\* A request woken by a job's final completion finds that job's checkpoint when it
\* reads the checkpoints again (x-rm-coverage "best-effort" depends on it), unless
\* writing it failed: a checkpoint is recorded before the completion is final.
FinalIsRecorded ==
  \A r \in Readers :
    reader[r].pc = "reread" /\ reader[r].seen \in {"success", "failed"} =>
      LET j == reader[r].job IN
        job[j].lostRecord \/ \E k \in checkpoint[reader[r].channel] : k.job >= j

\* A channel's job leaves the in-flight map whatever the providers do, so that a
\* later request can start another one.
JobsLeave == \A c \in Channels : inFlight[c] # NoJob ~> inFlight[c] = NoJob

\* The circuit says "half_open_probe_inflight" only while an attempt of that
\* provider is in flight.
ProbeFlagIsTruthful ==
  \A p \in Providers :
    circuit[p].probe => \E j \in JobIds : Waiting(j, p) \/ Calling(j, p)
=============================================================================
