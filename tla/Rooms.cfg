SPECIFICATION FairSpec
CONSTANTS
    h1 = h1
    h2 = h2
    b1 = b1
    g1 = g1
    g2 = g2
    NoUser = NoUser
    NoGroup = NoGroup
    NoLease = NoLease
    Users <- PlayersAndBot
    Humans = {h1, h2}
    Bots = {b1}
    Groups = {g1, g2}
    MaxGames = 2
    MaxCommands = 3
INVARIANTS TypeOK LeasesAgree EngineHasRoom OneSeat
PROPERTIES RoomFreed
CHECK_DEADLOCK FALSE
