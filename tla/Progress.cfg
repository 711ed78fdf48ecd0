\* Two emitters and a reader; one lane, two database errors and a crash.
SPECIFICATION ProgressSpec
CONSTANTS
    e1 = e1  e2 = e2  r1 = r1  p1 = p1  p2 = p2  t1 = t1  a = a
    Emitters = {e1, e2}
    Subscribers = {}
    Readers = {r1}
    Sessions = {p1, p2}
    AnySession = AnySession
    Types = {t1}
    Hashes = {}
    NoHash = NoHash
    NoEmitter = NoEmitter
    QueueSize = 1
    TailPage = 1
    MaxEvents = 3
    NoLane = NoLane
    Lanes = {a}
    Policy = "backoff"
    MaxRestarts = 1
    IdleTimeout = 3
    OrphanFloor = 1
    StartTime = 1
    TaskLanes = {}
    DeadLetterAfter = 2
    BreakerThreshold = 2
    MaxFaults = 2
    MaxCrashes = 1
INVARIANTS
    TailComplete
PROPERTIES
    LogSpec
    LogProceeds
    LanesSettle
