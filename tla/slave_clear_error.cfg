SPECIFICATION Spec
CONSTANTS
    Actors = {"loop", "spin"}
    Faults = {"refused"}
    Reenter = FALSE
    MaxRequests = 2
INVARIANT NotOnSlave
