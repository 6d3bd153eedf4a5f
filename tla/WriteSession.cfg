SPECIFICATION FairSpec
CONSTANTS
    MaxMessages = 2
    Encoded = {TRUE, FALSE}
    BatchCount = 2
    MaxMemory = 2
    MaxFaults = 1
    LastSeqNo = 1
    Batching = {TRUE, FALSE}
INVARIANTS NeverAborts StoredOnceInOrder MemoryAccounted
PROPERTIES ImplementsLog WritesComplete
CHECK_DEADLOCK FALSE
