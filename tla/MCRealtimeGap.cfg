\* An event published while the first subscription is being made.
SPECIFICATION FairSpec
CONSTANTS
    i1 = i1  i2 = i2  u1 = u1  u2 = u2  c1 = c1  c2 = c2  c3 = c3
    NoUser = NoUser
    Instances = {i1}
    Users = {u1, u2}
    Conns = {c1}
    instanceOf <- OneInstance
    userOf <- Owners
    MaxEvents = 1
    MaxDrops = 0
PROPERTY
    GapsAreFilled
\* The clients run out of handshakes and of events to publish.
CHECK_DEADLOCK FALSE
