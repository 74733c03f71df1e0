\* As lifecycle.cfg, with retirements that are not permanent too.
CONSTANTS
    MaxManagers = 3
    RetireKinds = {TRUE, FALSE}

SPECIFICATION Spec
\* The number of (re)loads is bounded, so the version's history ends.
CHECK_DEADLOCK FALSE

INVARIANT ReaperTargetsLiveManager
