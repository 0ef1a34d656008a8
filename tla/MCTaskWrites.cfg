\* Two requests at a time of one user on two boards; the second list of b1 and the
\* task are still to be created.  u2 owns b2, and its role on b1 changes all the time.
SPECIFICATION Spec
CONSTANTS
    u1 = u1  u2 = u2  b1 = b1  b2 = b2
    l1 = l1  l2 = l2  l3 = l3  t = t
    w1 = w1  w2 = w2
    NoRole = NoRole  NoBoard = NoBoard  NoList = NoList  NoRequest = NoRequest
    Unset = Unset  Null = Null
    Workers = {w1, w2}
    Users = {u2}
    Boards = {b1, b2}
    Lists = {l1, l2, l3}
    Tasks = {t}
    MaxVersion = 3
    InitialRole <- MCRole
    InitialBoardOf <- MCBoardOf
    InitialListOf <- MCListOf
SYMMETRY Symmetry
INVARIANTS
    TypeOK
    NoOrphanTasks
    OneWinnerPerVersion
    AuthorizedBoardIsCurrent
    AnswersAreNewer
    ChangesGetAnnounced
PROPERTY ImplementsBoardStore
