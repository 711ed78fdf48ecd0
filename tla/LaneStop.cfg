\* A user stops a lane while the supervisor restarts it.
SPECIFICATION Spec
CONSTANTS
    a = a  b = b
    NoLane = NoLane
    Lanes = {a}
    Policy = "backoff"
    MaxRestarts = 1
    IdleTimeout = 3
    OrphanFloor = 1
    StartTime = 1
    TaskLanes = {}
    DeadLetterAfter = 2
    BreakerThreshold = 2
    MaxFaults = 0
    MaxCrashes = 0
INVARIANTS
    StoppedLaneIsDown
