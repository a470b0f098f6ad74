SPECIFICATION StorageSpec
CONSTANTS
 c1 = c1
 c2 = c2
 NoPlan = NoPlan
 StoreChannels = {c1, c2}
 Blockable = {c1}
 Pinnable = {c2}
 BlockMessages = 2
 TargetMessages = 1
 ExpiryBatch = 1
 Ttl = 1
 ProtectFor = 1
 Coalesce = 1
 Floor = 1
 MaxPasses = 1
 Batches <- MCBatches
 Ceilings <- MCCeilings
 MaxStoreClock = 3
 MaxSequence = 3
 MaxBlockId = 3
 TailChannels = {1, 2}
 TailEvents = {1, 2}
 TailBlock = 3
 MaxOpenChannels = 1
 MaxOpenBytes = 3
 IdleAfter = 1
 MaxOpenAge = 2
 MaxTailClock = 2
 NoOpen = NoOpen
 LastSequence = 3
 Payloads = {a, b}
INVARIANTS StoreTypeOK CountersAreExact EventsAreUnique TailIsCounted OffsetCoversNoGap
PROPERTIES ExpiryTakesOnlyExpired PlanIsFair NewEventsFit
CHECK_DEADLOCK FALSE
