\* One server instance, three handshakes of two users.
SPECIFICATION Spec
CONSTANTS
    i1 = i1  i2 = i2  u1 = u1  u2 = u2  c1 = c1  c2 = c2  c3 = c3
    NoUser = NoUser
    Instances = {i1}
    Users = {u1, u2}
    Conns = {c1, c2, c3}
    instanceOf <- OneInstance
    userOf <- Owners
    MaxEvents = 2
    MaxDrops = 1
SYMMETRY Symmetry
INVARIANTS
    TypeOK
    OpenSocketsAreServed
    ListenersHaveViewers
    DeliveredInOrder
    NothingAfterRevocation
    RemovedStayOut
\* The clients run out of handshakes and of events to publish.
CHECK_DEADLOCK FALSE
