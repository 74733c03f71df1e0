\* START and CONTINUE only, with the reaper sweeping during a request.
CONSTANTS
    t1 = t1
    t2 = t2
    t3 = t3
    h1 = h1
    h2 = h2
    Threads <- MC_TwoThreads
    NoOwner = NoOwner
    NoState = NoState
    IdSpace = {1, 2}
    MaxSequenceNumber = 1
    MaxObjects = 4
    RawControls = {0, 1}
    Handles <- MC_TwoHandles
    MaxRequests = 2
    CleanupEnabled = TRUE

SPECIFICATION Spec
SYMMETRY MC_Symmetry

INVARIANT SequenceAliveWhileHeld
