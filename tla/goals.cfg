SPECIFICATION FairSpec
CONSTANTS
    Goals = {g1, g2}
    Kinds = {move, drive}
    NoGoal = NoGoal
    Faults = {"take", "move", "halt"}
    Disturb = {"cancel", "restart", "speed"}
    MaxDisturb = 2
INVARIANT OneMotion
INVARIANT BusyOnlyInFlight
INVARIANT ArmFreeWhenIdle
PROPERTY EveryGoalAnswered
PROPERTY ThreadsEnd
