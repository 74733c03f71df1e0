\* Two request threads, two handles, one id, START and END only, no
\* reaper: two ENDs of one sequence race a new START of the same id.
CONSTANTS
    t1 = t1
    t2 = t2
    t3 = t3
    h1 = h1
    h2 = h2
    Threads <- MC_TwoThreads
    NoOwner = NoOwner
    NoState = NoState
    IdSpace = {1}
    MaxSequenceNumber = 1
    MaxObjects = 4
    RawControls = {1, 2}
    Handles <- MC_TwoHandles
    MaxRequests = 4
    CleanupEnabled = FALSE

SPECIFICATION Spec
CHECK_DEADLOCK FALSE

PROPERTY EndRemovesResolvedSequence
