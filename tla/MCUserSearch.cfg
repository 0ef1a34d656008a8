\* Four users on two boards, and two to be shown.
SPECIFICATION Spec
CONSTANTS
    b1 = b1  b2 = b2
    NoRole = NoRole  NoBoard = NoBoard
    Users = {1, 2, 3, 4}
    Boards = {b1, b2}
    SearchResultLimit = 2
INVARIANTS
    NothingForeignShows
    CollaboratorsFirst
