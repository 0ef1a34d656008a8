\* One instance with two sockets of one user, a fault of Redis, and fair scheduling.
SPECIFICATION FairSpec
CONSTANTS
    i1 = i1  i2 = i2  u1 = u1  u2 = u2  c1 = c1  c2 = c2  c3 = c3
    NoUser = NoUser
    Instances = {i1}
    Users = {u1}
    Conns = {c1, c2}
    instanceOf <- OneInstance
    userOf <- Owners
    MaxEvents = 2
    MaxDrops = 1
PROPERTIES
    NoEventIsForgotten
    RevocationTakesEffect
\* The clients run out of handshakes and of events to publish.
CHECK_DEADLOCK FALSE
