SPECIFICATION FairSpec
CONSTANTS
    Texts = {m1, m2}
    Commands = {k1}
    States = {s1, s2, s3}
    Tasks = {w1, w2, w3}
    MaxQueue = 2
    Budget <- ChatBudget
INVARIANTS TypeOK ResetAlone QueueHasWorker OneWorker
PROPERTIES ModeEnds LostOnlyWhenLeft WaitingIsServed
CHECK_DEADLOCK FALSE
