SPECIFICATION FairSpec
CONSTANTS
    Actors = {"loop", "spin"}
    Faults = {"refused", "lost", "full"}
    Reenter = FALSE
    MaxRequests = 3
INVARIANT TypeOK
INVARIANT ModeAgrees
INVARIANT ArmInSlaveMode
INVARIANT LinkOfMode
INVARIANT ServedInNormalModeOnly
INVARIANT PublishersReady
PROPERTY LeavesSlaveOnError
