\* Three requests on one account whose limit changes between 0 (one slot, in effect) and 2.
CONSTANTS
    Requests = {r1, r2, r3}
    Settings = {0, 2}
    DefaultMaxConcurrency = 1
    MaxQueueSize = 2
    MaxBlock = 2
SPECIFICATION FairSpec
INVARIANTS TypeOK SlotAccounting NobodyIsForgotten
PROPERTIES WaitersAreServed
    ImplementsSlotPool
