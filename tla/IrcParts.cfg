SPECIFICATION IrcSpec
CONSTANTS
 JoinChannels = {c1}
 MaxUnprocessed = 1
 MaxOutstanding = 2
 MaxInterventions = 2
 NoState = NoState
 IrcChannels = {c1, c2}
 BatchSize = 3
 MaxEvents = 4
 NotLive = NotLive
INVARIANTS IrcTypeOK ClaimIsReceived
PROPERTIES MembershipFollowsDemand
CHECK_DEADLOCK FALSE
