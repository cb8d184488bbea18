SPECIFICATION FairSpec
CONSTANTS
    Seats = {1, 2, 3, 4, 5}
    Deals <- SmallDeals
INVARIANTS TypeOK SheriffLives ShotsAreOwed NobodyUnasked OverWhenWon
PROPERTIES ElectedOnce DayShortens DayEnds
CHECK_DEADLOCK FALSE
