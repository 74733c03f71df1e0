\* END and CONTINUE of one sequence racing; the reaper off.
CONSTANTS
    t1 = t1
    t2 = t2
    t3 = t3
    h1 = h1
    h2 = h2
    Threads <- MC_TwoThreads
    NoOwner = NoOwner
    NoState = NoState
    IdSpace = {1, 2}
    MaxSequenceNumber = 1
    MaxObjects = 4
    RawControls = {0, 1, 2}
    Handles <- MC_TwoHandles
    MaxRequests = 3
    CleanupEnabled = FALSE

SPECIFICATION Spec
SYMMETRY MC_Symmetry
\* With no reaper the server goes quiet once the requests are served.
CHECK_DEADLOCK FALSE

INVARIANT SequenceAliveWhileHeld
