\* Three request threads, two handles, two ids with room for one sequence,
\* every control value (3 is invalid), the reaper on.
CONSTANTS
    t1 = t1
    t2 = t2
    t3 = t3
    h1 = h1
    h2 = h2
    Threads <- MC_Threads
    NoOwner = NoOwner
    NoState = NoState
    IdSpace = {1, 2}
    MaxSequenceNumber = 1
    MaxObjects = 4
    RawControls = {0, 1, 2, 3}
    Handles <- MC_TwoHandles
    MaxRequests = 4
    CleanupEnabled = TRUE

SPECIFICATION Spec
SYMMETRY MC_Symmetry

INVARIANT TypeOK
INVARIANT NoInterleavedStateUpdate
INVARIANT HandlesExclusive
INVARIANT NoDeadlockWithinCapacity
