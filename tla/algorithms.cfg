\* The priority queue and the binary payload, on all inputs within the bounds.
CONSTANTS
    MaxTime = 2
    Tasks = {k1, k2}
    Scheduled <- Pending
    Texts <- Strings
    Functions = {f1, f2}
    MaxFields = 3
    Countings = {"chars", "bytes"}
SPECIFICATION ASpec
INVARIANTS PTypeOK Sorted Bracketed BTypeOK ReadsBack FunctionsResolve
PROPERTY ImplementsSchedule
CHECK_DEADLOCK FALSE
