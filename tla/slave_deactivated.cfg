SPECIFICATION FairSpec
CONSTANTS
    Actors = {"loop", "spin", "stop"}
    Faults = {"refused", "lost", "full"}
    Reenter = TRUE
    MaxRequests = 1
INVARIANT UpdateOnlyWhenServing
PROPERTY LockReleased
CHECK_DEADLOCK FALSE
