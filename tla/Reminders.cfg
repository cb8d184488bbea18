SPECIFICATION FairSpec
CONSTANTS
    Clients = {c1, c2}
    Times = {t1, t2}
    Budget <- RemindersBudget
INVARIANTS TypeOK JobMatchesRow SentOnce
PROPERTIES OnceEnds
CHECK_DEADLOCK FALSE
