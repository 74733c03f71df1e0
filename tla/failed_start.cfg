\* One client: a START whose inference fails, then retries; the reaper off.
CONSTANTS
    t1 = t1
    t2 = t2
    t3 = t3
    h1 = h1
    h2 = h2
    Threads <- MC_OneThread
    NoOwner = NoOwner
    NoState = NoState
    IdSpace = {1, 2}
    MaxSequenceNumber = 1
    MaxObjects = 4
    RawControls = {0, 1, 2}
    Handles <- MC_OneHandle
    MaxRequests = 3
    CleanupEnabled = FALSE

SPECIFICATION Spec
\* With no reaper the server goes quiet once the requests are served.
CHECK_DEADLOCK FALSE

INVARIANT StartedSequenceUsable
