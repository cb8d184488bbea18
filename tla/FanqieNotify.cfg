SPECIFICATION FairSpec
CONSTANTS
    u1 = u1
    u2 = u2
    g1 = g1
    c1 = c1
    c2 = c2
    NoUser = NoUser
    NoGroup = NoGroup
    Users = {u1}
    Groups = {}
    Clients = {c1}
    MaxJobId = 1
    MaxChapters = 1
    QueueMax = 1
    UserActiveMax = 1
    GroupActiveMax = 1
    Budget <- NotifyBudget
PROPERTIES NotifyKeepsStatus
CHECK_DEADLOCK FALSE
