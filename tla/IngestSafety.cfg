\* Three instances: crashes, controls, duplicates (see MCIngestInstances).
SPECIFICATION MCSpec
CONSTANTS
    k1 = k1  k2 = k2  k3 = k3  c1 = c1  c2 = c2  s1 = s1
    Key = {k1, k2, k3}
    Channel = {c1, c2}
    Stream = {s1, s2}
    Delivered = {1, 2}
    ChanOf <- MCChanOf
    EventAt <- MCEventAt
    BlockMessages = 2
    AllowedMessages = 2
    MaxOpenChannels = 1
    AppendBatches = 1
    QueueBatches = 2
    MessageTtl = 0
    MaxBatch = 2
    MaxSeq = 3
    MaxTime = 2
    MaxCrash = 1
    MaxPurge = 2
    MaxFill = 1
INVARIANTS TypeOK StoreRespectsControls MemoryIsJournaled JournalIsPlaced
PROPERTY ImplementsDurableCache
