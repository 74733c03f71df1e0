\* Up to six loads and reloads, each succeeding or failing, with cleanup
\* switched on and off by the config; retirements are permanent.
CONSTANTS
    MaxManagers = 6
    RetireKinds = {TRUE}

SPECIFICATION Spec
\* The number of (re)loads is bounded, so the version's history ends.
CHECK_DEADLOCK FALSE

INVARIANT ReaperTargetsLiveManager
INVARIANT CleanupRegistered
