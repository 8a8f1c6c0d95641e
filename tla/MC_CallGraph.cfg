\* The call graph the visitors build matches the direct calls of the bodies.
CONSTANTS
    f1 = f1
    f2 = f2
    f3 = f3
    indirect = indirect
    Indirect <- indirect
    Functions <- MC_Functions
    MaxCalls <- MC_MaxCalls
SPECIFICATION Spec
INVARIANT TypeOK
INVARIANT CallGraphExact
CHECK_DEADLOCK FALSE
