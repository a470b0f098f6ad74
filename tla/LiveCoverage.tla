---------------------------- MODULE LiveCoverage ----------------------------
(***************************************************************************)
(* The direct IRC forwarder: events of the joined channels are batched and *)
(* handed to the ingest coordinator, and the control store claims coverage *)
(* of a channel from its JOIN to its PART.  An event is the time it was    *)
(* received at; every event is received at a time of its own.              *)
(***************************************************************************)
EXTENDS Integers, FiniteSets

CONSTANTS IrcChannels,
          BatchSize,    \* ingest.batch_messages
          MaxEvents,    \* bound: events received in a behaviour
          NotLive

ASSUME ForwarderBounds == BatchSize \in Nat \ {0} /\ MaxEvents \in Nat /\ NotLive \notin Nat

VARIABLES
  received,  \* number of events so far: the time of the last one
  live,      \* live_coverage: channel -> start of the open claim, or NotLive
  closed,    \* coverage_interval: [channel, start, end, by]
  batch,     \* records of the unsent batch: [channel, at]
  lost,      \* history: events the forwarder received and did not hand on
  batcher,   \* "on"; "off" once the coordinator refused a batch
  ingestUp,  \* the coordinator still receives
  forwarder  \* "running" or "stopped"

forwardVars ==
  <<received, live, closed, batch, lost, batcher, ingestUp, forwarder>>

Dead == [c \in IrcChannels |-> NotLive]
Record(c) == [channel |-> c, at |-> received + 1]
Interval(c, end, by) == [channel |-> c, start |-> live[c], end |-> end, by |-> by]

-----------------------------------------------------------------------------
(* The control store's side *)

BeginLive(c) == live' = [live EXCEPT ![c] = received + 1] /\ UNCHANGED closed

\* MUTANT of EndLive: the claim is closed but stays open.
EndLiveKept(c) ==
  /\ closed' = IF live[c] = NotLive THEN closed
               ELSE closed \cup {Interval(c, received + 1, "part")}
  /\ UNCHANGED live

EndLive(c) ==
  /\ closed' = IF live[c] = NotLive THEN closed
               ELSE closed \cup {Interval(c, received + 1, "part")}
  /\ live' = [live EXCEPT ![c] = NotLive]

\* A storage error leaves both tables as they are; it is only logged.
OrError(change) == change \/ UNCHANGED <<live, closed>>

\* MUTANT of DiscardAll: an interrupted stream keeps its claims.
DiscardNone == UNCHANGED <<live, closed>>

\* discard_all_live_coverage.  The discards are taken to be written: one that fails
\* is only logged, and the claims then outlive what was lost.
DiscardAll == live' = Dead /\ UNCHANGED closed

\* discard_live_coverage of the channel of an event that could not be read.
Discard(c) == live' = [live EXCEPT ![c] = NotLive] /\ UNCHANGED closed

-----------------------------------------------------------------------------
(* The forwarder *)

\* A batch is accepted while the coordinator runs; a refusal loses the batch,
\* switches the batcher off and discards every open claim.
Send(records) ==
  IF ingestUp
    THEN batch' = {} /\ UNCHANGED <<lost, batcher>>
    ELSE batch' = {} /\ lost' = lost \cup records /\ batcher' = "off"
Receives == forwarder = "running" /\ received < MaxEvents
Step == received' = received + 1 /\ UNCHANGED <<ingestUp, forwarder>>

\* An event that carries a record joins the batch, which goes out when it is full;
\* without a batcher the record is not kept.
Forward(c) ==
  LET records == batch \cup {Record(c)}
  IN IF batcher = "off"
       THEN lost' = lost \cup {Record(c)} /\ UNCHANGED <<batch, batcher>>
       ELSE IF Cardinality(records) >= BatchSize
         THEN Send(records)
         ELSE batch' = records /\ UNCHANGED <<lost, batcher>>

\* PRIVMSG and the other events with a channel.
Message(c) ==
  /\ Receives
  /\ Step /\ Forward(c)
  /\ IF batcher' # batcher THEN DiscardAll ELSE UNCHANGED <<live, closed>>

\* JOIN and PART are no records: they only open and close claims, and only while
\* there is a batcher.
Join(c) ==
  /\ Receives
  /\ Step /\ UNCHANGED <<batch, lost, batcher>>
  /\ IF batcher = "on" THEN OrError(BeginLive(c)) ELSE UNCHANGED <<live, closed>>

\* Also a NOTICE that ends the membership (suspended, banned): its record is
\* unsupported as well.
Part(c) ==
  /\ Receives
  /\ Step /\ UNCHANGED <<batch, lost, batcher>>
  /\ IF batcher = "on" THEN OrError(EndLive(c)) ELSE UNCHANGED <<live, closed>>

\* MUTANT of Unreadable: an event that cannot be read is skipped.
UnreadableSkipped(c) ==
  /\ Receives
  /\ Step /\ lost' = lost \cup {Record(c)} /\ UNCHANGED <<batch, batcher, live, closed>>

\* An event of a channel that cannot be canonicalised.
Unreadable(c) ==
  /\ Receives
  /\ Step /\ lost' = lost \cup {Record(c)} /\ UNCHANGED <<batch, batcher>>
  /\ IF batcher = "on" THEN Discard(c) ELSE UNCHANGED <<live, closed>>

\* The flush timer.
Flush ==
  /\ forwarder = "running" /\ batcher = "on" /\ batch # {}
  /\ Send(batch)
  /\ IF ingestUp THEN UNCHANGED <<live, closed>> ELSE DiscardAll
  /\ UNCHANGED <<received, ingestUp, forwarder>>

\* MUTANT of CloseAtShutdown: the claims are closed whether or not the last batch
\* was accepted.
CloseUnflushed ==
  /\ closed' = closed \cup {Interval(c, received, "shutdown") :
                              c \in {x \in IrcChannels : live[x] # NotLive}}
  /\ live' = Dead

\* Shutdown: the open claims are closed if the last batch was accepted, and
\* discarded otherwise.
CloseAtShutdown ==
  IF ingestUp \/ batch = {}
    THEN /\ closed' = closed \cup {Interval(c, received, "shutdown") :
                                     c \in {x \in IrcChannels : live[x] # NotLive}}
         /\ live' = Dead
    ELSE DiscardAll

Shutdown ==
  /\ forwarder = "running"
  /\ forwarder' = "stopped"
  /\ batch' = {}
  /\ lost' = IF ingestUp THEN lost ELSE lost \cup batch
  /\ CloseAtShutdown
  /\ UNCHANGED <<received, batcher, ingestUp>>

\* The coordinator ends: from here on every batch is refused.
IngestStops ==
  /\ ingestUp
  /\ ingestUp' = FALSE
  /\ UNCHANGED <<received, live, closed, batch, lost, batcher, forwarder>>

\* Opening the control store deletes what a previous process left in live_coverage.
ForwardInit ==
  /\ received = 0 /\ live = Dead /\ closed = {} /\ batch = {} /\ lost = {}
  /\ batcher = "on" /\ ingestUp = TRUE /\ forwarder = "running"

ForwardNext ==
  \/ \E c \in IrcChannels : Message(c) \/ Join(c) \/ Part(c) \/ Unreadable(c)
  \/ Flush \/ Shutdown \/ IngestStops
ForwardSpec == ForwardInit /\ [][ForwardNext]_forwardVars

-----------------------------------------------------------------------------
Covers(i, e) == i.channel = e.channel /\ i.start <= e.at /\ e.at <= i.end

\* Claims are well formed, and those of one channel never overlap: a claim that is
\* closed is no longer open.
ForwardTypeOK ==
  /\ received \in 0..MaxEvents
  /\ Cardinality(batch) < BatchSize
  /\ \A i \in closed : i.start <= i.end /\ i.end <= received
  /\ \A i, j \in closed : i.channel = j.channel /\ i # j => i.end < j.start \/ j.end < i.start
  /\ \A i \in closed : live[i.channel] # NotLive => i.end < live[i.channel]

\* An open claim, and one closed by an orderly shutdown, covers no event the
\* forwarder received and failed to hand to the ingest coordinator: a refused
\* batch, an unreadable event and a failed last flush all withdraw it first.
ClaimIsReceived ==
  \A e \in lost :
    /\ live[e.channel] = NotLive \/ live[e.channel] > e.at
    /\ \A i \in closed : i.by = "shutdown" => ~Covers(i, e)

\* The same of a claim closed by a PART while records of it wait in the batch.
PartedClaimIsReceived ==
  \A e \in lost, i \in closed : ~Covers(i, e)
=============================================================================
