\* Every request over the bounded domain, clients filling the value field
\* their dtype names.
CONSTANTS
    Shapes <- MC_Shapes
    Dtypes = {"DT_UINT64", "DT_UINT32"}
    IdValues = {0, 7}
    CtlValues = {0, 1, 2, 9}
    MaxValues = 2
    Absent = Absent
    WellTypedOnly = TRUE

SPECIFICATION Spec
\* Validation of one request is a computation that ends.
CHECK_DEADLOCK FALSE

INVARIANT ValidationMatchesSpec
