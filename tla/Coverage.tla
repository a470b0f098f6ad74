------------------------------ MODULE Coverage ------------------------------
(***************************************************************************)
(* The pure part of a read's completeness: which part of the requested     *)
(* window the recorded coverage proves, whether a repair is worth trying   *)
(* and what earlier repair checkpoints say.  An input is chosen once; the  *)
(* operators are compared with their meaning millisecond by millisecond.   *)
(***************************************************************************)
EXTENDS Integers, Sequences, FiniteSets, SequencesExt

CONSTANTS MaxMs,          \* bound: times are 0..MaxMs
          Retention,      \* app.message_ttl
          Grace           \* repair.handoff_grace

ASSUME CoverageBounds == {MaxMs, Retention, Grace} \subseteq Nat

VARIABLE input  \* [intervals, request, received]: one set of arguments

Times == 0..MaxMs
NoTime == -1
Maximum(a, b) == IF a > b THEN a ELSE b
Minimum(a, b) == IF a < b THEN a ELSE b

-----------------------------------------------------------------------------
(* coverage.rs *)

Before(i, j) ==
  i.start < j.start \/ (i.start = j.start /\ i.end < j.end)

\* The n-th has n - 1 before it.
Sorted(intervals) ==
  [n \in 1..Cardinality(intervals) |->
     CHOOSE i \in intervals : Cardinality({j \in intervals : Before(j, i)}) = n - 1]

\* MUTANT of Joins: intervals one millisecond further apart are joined too.
JoinsLoosely(merged, i) == merged # <<>> /\ i.start <= Last(merged).end + 2

\* Adjacent and overlapping intervals are joined, inverted ones dropped.
Joins(merged, i) == merged # <<>> /\ i.start <= Last(merged).end + 1

Merge(merged, i) ==
  IF i.end < i.start THEN merged
  ELSE IF Joins(merged, i) THEN [merged EXCEPT ![Len(merged)].end = Maximum(@, i.end)]
  ELSE Append(merged, i)

MergeIntervals(intervals) ==
  LET sorted == Sorted(intervals)
      merged[n \in 0..Len(sorted)] ==
        IF n = 0 THEN <<>> ELSE Merge(merged[n - 1], sorted[n])
  IN merged[Len(sorted)]

\* One interval of the walk from the window's start to its end.
Advance(acc, i, to) ==
  IF i.end >= acc.cursor /\ i.start <= to /\ acc.cursor < to
    THEN [gaps   |-> IF i.start > acc.cursor
                       THEN Append(acc.gaps, <<acc.cursor, Minimum(i.start, to)>>)
                       ELSE acc.gaps,
          cursor |-> Maximum(acc.cursor, i.end)]
    ELSE acc

UncoveredIntervals(intervals, from, to) ==
  LET merged == MergeIntervals(intervals)
      walked[n \in 0..Len(merged)] ==
        IF n = 0 THEN [gaps |-> <<>>, cursor |-> from] ELSE Advance(walked[n - 1], merged[n], to)
      end == walked[Len(merged)]
  IN IF from >= to THEN <<>>
     ELSE IF end.cursor < to THEN Append(end.gaps, <<end.cursor, to>>) ELSE end.gaps

\* received: the received_at of the returned records, oldest first.
AssessCoverage(received, intervals, request) ==
  LET end == IF request.before = NoTime THEN request.now
             ELSE Minimum(request.before, request.now)
      horizon == end - request.retention
      requested == IF request.after = NoTime THEN horizon
                   ELSE Maximum(request.after, horizon)
      newest == {received[k] : k \in (Len(received) - request.limit + 1)..Len(received)}
      start == IF Len(received) >= request.limit
                 THEN Maximum(CHOOSE t \in newest : \A u \in newest : t <= u, requested)
                 ELSE requested
      gaps == UncoveredIntervals(intervals, start, end)
  IN IF request.limit = 0 \/ (request.after # NoTime /\ request.after >= end)
       THEN [sufficient |-> TRUE, start |-> end, end |-> end, gaps |-> <<>>]
       ELSE [sufficient |-> gaps = <<>>, start |-> start, end |-> end, gaps |-> gaps]

-----------------------------------------------------------------------------
(* get_recent_messages.rs and repair.rs *)

ShouldAttemptRepair(assessment, intervals, count, limit) ==
  /\ ~assessment.sufficient
  /\ \/ count < limit
     \/ \E i \in intervals : i.end >= assessment.start /\ i.start <= assessment.end

\* MUTANT of BridgeLimit: every interval is granted the hand-off grace.
BridgeLimitLoose(acc) == acc.cursor + Grace

\* Coverage continues a checkpoint's window: the first interval may begin up to
\* Grace after it, every later one only adjacent to what is covered so far.
BridgeLimit(acc) == acc.cursor + (IF acc.first THEN Grace ELSE 1)

Bridge(acc, i) ==
  IF i.end < acc.cursor \/ i.start > BridgeLimit(acc) THEN acc
  ELSE [first |-> FALSE, cursor |-> Maximum(acc.cursor, i.end)]

CoverageBridges(intervals, from, to) ==
  LET sorted == Sorted(intervals)
      bridged[n \in 0..Len(sorted)] ==
        IF n = 0 THEN [first |-> TRUE, cursor |-> from] ELSE Bridge(bridged[n - 1], sorted[n])
  IN from >= to \/ bridged[Len(sorted)].cursor >= to

\* One checkpoint's say: does it make the answer best effort, does it hold back
\* the next repair?
AssessCheckpoint(k, assessment, intervals, now) ==
  LET coversStart == k.start <= assessment.start
      overlaps == k.end >= assessment.start
      bridged == k.end >= assessment.end \/ CoverageBridges(intervals, k.end, assessment.end)
  IN [bestEffort |-> k.outcome = "success" /\ coversStart /\ bridged,
      suppressed |-> /\ coversStart /\ overlaps /\ k.nextRetry > now
                     /\ k.outcome # "success" \/ bridged]

-----------------------------------------------------------------------------
Intervals == [start : Times, end : Times]
Requests == [before : {NoTime, MaxMs - 1}, after : {NoTime, 1}, limit : 0..2,
             now : {MaxMs}, retention : {Retention}]

\* Up to three intervals, of which two may be inverted, and a read that returned
\* nothing or two records, received out of order.
CoverageInit ==
  \E a, b \in Intervals, c \in {i \in Intervals : i.start <= i.end},
     r \in Requests, s \in {<<>>, <<2, 1>>} :
    /\ Before(a, b) \/ a = b
    /\ Before(b, c) \/ b = c
    /\ input = [intervals |-> {a, b, c}, request |-> r, received |-> s]

CoverageNext == UNCHANGED input

-----------------------------------------------------------------------------
Covered(ms) == \E i \in input.intervals : i.start <= ms /\ ms <= i.end
Assessment == AssessCoverage(input.received, input.intervals, input.request)

\* x-rm-coverage "complete" is exact: a read is sufficient if and only if every
\* millisecond of the window its answer stands for is covered, and the gaps it
\* reports are the uncovered stretches, whatever overlaps, touches, nests or is
\* inverted among the recorded intervals.
AssessmentIsExact ==
  LET a == Assessment IN
    a.start < a.end =>
      /\ a.sufficient <=> \A ms \in a.start..a.end : Covered(ms)
      /\ \A ms \in a.start..a.end :
           ~Covered(ms) => \E g \in ToSet(a.gaps) : g[1] <= ms /\ ms <= g[2]
      /\ \A g \in ToSet(a.gaps) :
           g[1] < g[2] /\ \E ms \in g[1]..g[2] : ~Covered(ms)

\* x-rm-coverage "best-effort" is backed: each millisecond of the window is
\* covered, was asked of the providers, or lies in the hand-off grace right after
\* what was asked of them.
BestEffortIsBacked ==
  LET a == Assessment IN
    \A from, to \in Times :
      LET k == [start |-> from, end |-> to, outcome |-> "success", nextRetry |-> 0]
      IN AssessCheckpoint(k, a, input.intervals, input.request.now).bestEffort =>
           \A ms \in a.start..a.end :
             Covered(ms) \/ (from <= ms /\ ms <= to) \/ (to < ms /\ ms < to + Grace)
=============================================================================
