\* Four requests for two threads and one connection.
SPECIFICATION FairSpec
CONSTANTS
    r1 = r1  r2 = r2  r3 = r3  r4 = r4
    Requests = {r1, r2, r3, r4}
    Threads = 2
    Connections = 1
    MaxVisits = 3
INVARIANTS
    TypeOK
    ConnectionsComeBack
PROPERTY EveryRequestEnds
