\* Two threads, every control value, the reaper on and fair.
CONSTANTS
    t1 = t1
    t2 = t2
    t3 = t3
    h1 = h1
    h2 = h2
    Threads <- MC_TwoThreads
    NoOwner = NoOwner
    NoState = NoState
    IdSpace = {1, 2}
    MaxSequenceNumber = 1
    MaxObjects = 4
    RawControls = {0, 1, 2, 3}
    Handles <- MC_OneHandle
    MaxRequests = 3
    CleanupEnabled = TRUE

SPECIFICATION FairSpec

PROPERTY OrphansReaped
PROPERTY RequestsCompleteWithinCapacity
