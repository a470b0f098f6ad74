\* Liveness, with a purge, a block, a fill, crashes, shutdowns and two streams.
SPECIFICATION FairSpec
CONSTANTS
    k1 = k1  k2 = k2  k3 = k3  c1 = c1  c2 = c2
    Key = {k1, k2}
    Channel = {c1}
    Stream = {s1, s2}
    Delivered = {1}
    ChanOf <- MCChanOf
    EventAt <- MCEventAt
    BlockMessages = 2
    AllowedMessages = 2
    MaxOpenChannels = 1
    AppendBatches = 1
    QueueBatches = 2
    MessageTtl = 0
    MaxBatch = 1
    MaxSeq = 1
    MaxTime = 2
    MaxCrash = 1
    MaxPurge = 1
    MaxFill = 1
INVARIANT ShutdownDrains
PROPERTY JournalDrains

