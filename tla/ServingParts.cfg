SPECIFICATION ServingSpec
CONSTANTS
 Channels = {c1, c2}
 Providers = {p1}
 Readers = {r1}
 MaxInflight = 1
 FailureThreshold = 1
 OpenDuration = 1
 RequestTimeout = 0
 RetryAfter <- MCRetryAfter
 KeptCheckpoints = 1
 MaxJobs = 2
 MaxRepairClock = 1
 NoJob = NoJob
 MaxMs = 4
 Retention = 4
 Grace = 2
 CacheKeys = {k1, k2}
 Visitors = {v1, v2}
 MaxAge = 1
 PressureHold = 1
 EnterInflight = 1
 MaxEntries = 2
 MaxBytes = 3
 MaxEntryBytes = 2
 Sizes = {1, 2}
 MaxCacheClock = 2
 Clients = {q1, q2}
 Recheck = 0
 SessionTtl = 1
 MaxSessionClock = 2
 MaxTokens = 1
 NoRow = NoRow
 n1 = n1
 n2 = n2
 n3 = n3
 q1 = q1
 Nodes = {n1, n2, n3}
 Readings = {q1, q2}
 Afters = {0, 1}
 Hops = {0, 2}
 AdmitSlots = 1
 PeerPermits = 1
 MaxDepth = 3
INVARIANTS ServingTypeOK AtMostOneProbe FinalIsRecorded AssessmentIsExact BestEffortIsBacked StalenessIsBounded GrantLossStopsRequests NoCascade LoneAnswersAreComplete
PROPERTIES JobsLeave DeadSessionStaysDead ReadsEnd
CHECK_DEADLOCK FALSE
