\* Two keys, three requests in four units of time.
SPECIFICATION Spec
CONSTANTS
    k1 = k1  k2 = k2
    Keys = {k1, k2}
    Limit = 3
    Window = 4
INVARIANTS
    TypeOK
    BurstsAreBounded
    RefusalsAreEarned
