\* Requests on one board, its cache entry and all, while the data of either user may be
\* wiped.
SPECIFICATION Spec
CONSTANTS
    w1 = w1  w2 = w2  u1 = u1  u2 = u2  u3 = u3
    b1 = b1
    NoRole = NoRole  NoRow = NoRow  NoRequest = NoRequest
    Workers = {w1, w2}
    Users = {u1, u2}
    Boards = {b1}
    Cleaned = {u1, u2}
    MaxRows = 2
INVARIANT
    NoDanglingRows
PROPERTIES ShownToMembers OwnersAreForLife
\* Once every account is wiped nothing can happen any more.
CHECK_DEADLOCK FALSE
