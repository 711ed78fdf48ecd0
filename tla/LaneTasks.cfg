\* A database error between marking an orphan and releasing its tasks.
SPECIFICATION FairSpec
CONSTANTS
    a = a  b = b
    NoLane = NoLane
    Lanes = {a}
    Policy = "backoff"
    MaxRestarts = 1
    IdleTimeout = 3
    OrphanFloor = 1
    StartTime = 1
    TaskLanes = {a}
    DeadLetterAfter = 2
    BreakerThreshold = 2
    MaxFaults = 1
    MaxCrashes = 1
PROPERTIES
    TasksOfDeadLaneReleased
