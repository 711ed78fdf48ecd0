\* Two lanes, restarts with backoff, one database error or one crash.
SPECIFICATION Spec
CONSTANTS
    a = a  b = b
    NoLane = NoLane
    Lanes = {a, b}
    Policy = "backoff"
    MaxRestarts = 1
    IdleTimeout = 3
    OrphanFloor = 1
    StartTime = 1
    TaskLanes = {}
    DeadLetterAfter = 2
    BreakerThreshold = 1
    MaxFaults = 1
    MaxCrashes = 1
SYMMETRY Symmetry
CONSTRAINT OneTrouble
INVARIANTS
    HealthyLaneNotReaped
PROPERTIES
    DeadLetterIsFinal
