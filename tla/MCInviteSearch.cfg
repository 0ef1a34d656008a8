\* Two users, their common prefix, and two invitations at a time.
SPECIFICATION FairSpec
CONSTANTS
    bo = bo  boa = boa  bob = bob
    NoUser = NoUser  Empty = Empty
    Users = {boa, bob}
    Texts = {bo, boa, bob}
    MaxPosts = 2
INVARIANTS
    OlderNeverOverwrites
    ClosedIsQuiet
    InvitesWhomItNames
PROPERTY SearchSettles
