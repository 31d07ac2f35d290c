SPECIFICATION Spec
CONSTANTS
    Keys = {k1, k2, k3}
    RandMax = 5
    MaxWant = 4
INVARIANTS
    TypeOK
    SampleValid
    WildOnlyAtRandMax
    EveryPeerHasAChance
    EvenChances
CHECK_DEADLOCK FALSE
