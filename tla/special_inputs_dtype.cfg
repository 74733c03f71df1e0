\* Every request over the bounded domain, including protos whose dtype
\* disagrees with the value field they fill.
CONSTANTS
    Shapes <- MC_Shapes
    Dtypes = {"DT_UINT64", "DT_UINT32", "DT_FLOAT"}
    IdValues = {0, 7}
    CtlValues = {0, 1, 2, 9}
    MaxValues = 2
    Absent = Absent
    WellTypedOnly = FALSE

SPECIFICATION Spec
\* Validation of one request is a computation that ends.
CHECK_DEADLOCK FALSE

INVARIANT ValidationMatchesSpec
