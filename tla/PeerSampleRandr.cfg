SPECIFICATION Spec
CONSTANTS
    Keys = {k1, k2, k3}
    RandMax = 5
    MaxWant = 4
INVARIANT
    RandrInclusive
CHECK_DEADLOCK FALSE
