\* A purge while a batch is put into open blocks.
SPECIFICATION OwnerSpec
CONSTANTS
    k1 = k1  k2 = k2  c1 = c1
    Key = {k1}
    Channel = {c1}
    Stream = {s1}
    Handler = {h1}
    Delivered = {1}
    ChanOf <- MCChanOf
    EventAt <- MCEventAt
    BlockMessages = 2
    AllowedMessages = 2
    MaxOpenChannels = 1
    AppendBatches = 1
    QueueBatches = 1
    MessageTtl = 0
    MaxBatch = 1
    MaxSeq = 1
    MaxTime = 1
    MaxCrash = 1
    MaxPurge = 1
    MaxFill = 0
INVARIANT PurgeIsFinal
