\* Fan-out to bounded queues: concurrent emitters, two filtered subscriptions;
\* and tasks of two callers, each of which may be retried as the other.
SPECIFICATION BusSpec
CONSTANTS
    c1 = c1  c2 = c2  x1 = x1  x2 = x2  p1 = p1  t1 = t1
    Emitters = {c1, c2}
    Subscribers = {x1, x2}
    Readers = {}
    Sessions = {p1}
    AnySession = AnySession
    Types = {t1}
    Hashes = {}
    NoHash = NoHash
    NoEmitter = NoEmitter
    QueueSize = 1
    TailPage = 1
    MaxEvents = 3
    Tasks = {x1, x2}
    Callers = {c1, c2}
    NoTask = NoTask
SYMMETRY Symmetry
INVARIANTS
    PersistedBeforeDelivered
    LossAccounted
PROPERTIES
    FinishedUnlessStale
