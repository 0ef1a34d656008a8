\* Two requests at a time about three users on one board.
SPECIFICATION Spec
CONSTANTS
    w1 = w1  w2 = w2  u1 = u1  u2 = u2  u3 = u3
    b1 = b1
    NoRole = NoRole  NoRow = NoRow  NoRequest = NoRequest
    Workers = {w1, w2}
    Users = {u1, u2, u3}
    Boards = {b1}
    Cleaned = {}
    MaxRows = 2
SYMMETRY Symmetry
INVARIANTS
    TypeOK
    OneOwner
    ChangesGetAnnounced
PROPERTIES
    ImplementsMembership
    ChangesAreTheOwners
