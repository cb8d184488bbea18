SPECIFICATION Spec
CONSTANTS
    Seats = {1, 2, 3, 4, 5}
    Deals <- KeeperDeals
INVARIANT NewsOfYesterday
CHECK_DEADLOCK FALSE
