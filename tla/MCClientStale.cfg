\* One change, its event, and no faults.
SPECIFICATION Spec
CONSTANTS
    b1 = b1  b2 = b2  s1 = s1  s2 = s2  s3 = s3  k1 = k1  k2 = k2
    NoBoard = NoBoard  NoSocket = NoSocket  Idle = Idle
    Boards = {b1, b2}
    Sockets = {s1, s2, s3}
    Calls = {k1, k2}
    MaxMoves = 3
    MaxChanges = 1
    MaxFaults = 0
SYMMETRY Symmetry
INVARIANT LaterEventHeals
\* The user, the events and the faults run out.
CHECK_DEADLOCK FALSE
