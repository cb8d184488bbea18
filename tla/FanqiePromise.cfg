SPECIFICATION TimelySpec
CONSTANTS
    u1 = u1
    u2 = u2
    g1 = g1
    c1 = c1
    c2 = c2
    NoUser = NoUser
    NoGroup = NoGroup
    Users = {u1}
    Groups = {}
    Clients = {c1}
    MaxJobId = 2
    MaxChapters = 1
    QueueMax = 2
    UserActiveMax = 2
    GroupActiveMax = 1
    Budget <- PromiseBudget
 
PROPERTIES KeepsPromise
CHECK_DEADLOCK FALSE
