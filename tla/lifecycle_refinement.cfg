\* Two request threads, two handles, two ids with room for both, the three
\* valid control values, the reaper on: STARTs, saves, ENDs and sweeps of
\* two sequences interleave freely.
CONSTANTS
    t1 = t1
    t2 = t2
    t3 = t3
    h1 = h1
    h2 = h2
    Threads <- MC_TwoThreads
    NoOwner = NoOwner
    NoState = NoState
    IdSpace = {1, 2}
    MaxSequenceNumber = 2
    MaxObjects = 4
    RawControls = {0, 1, 2}
    Handles <- MC_TwoHandles
    MaxRequests = 4
    CleanupEnabled = TRUE

SPECIFICATION Spec
SYMMETRY MC_TwoThreadSymmetry

PROPERTY ImplementsLifecycle
