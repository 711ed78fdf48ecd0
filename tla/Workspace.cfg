\* What is asked of the data the commands keep is safety: all may stop.
SPECIFICATION WorkspaceSpec
CHECK_DEADLOCK FALSE
SYMMETRY Symmetry
CONSTANTS
    w1 = w1  w2 = w2  w3 = w3
    l1 = l1  l2 = l2  d1 = d1  d2 = d2  i1 = i1  i2 = i2  i3 = i3
    f1 = f1  f2 = f2  glob = glob  all = all  src = src
    Nobody = Nobody  Unnamed = Unnamed  Nameless = Nameless
    NoParent = NoParent
    Commands = {w1, w2}
    Lanes = {l1, l2}
    Teammates = {}
    Plans = {i1, i2}
    Steps = {i1, i2}
    MaxVersion = 3
    Creators = {w1, w2, w3}
    Holders = {l1, l2}
    Resources = {f1, f2, glob}
    Overlapping <- Touching
    Visitors = {w1, w2}
    Entries = {i1, i2}
    Topics = {f1}
    Reporters = {l1, l2}
    Workers = {w1, w2}
    Lessons = {i3}
    Witnesses = {d1}
    MinSamples = 2
    HitPercent = 60
    MaxInjections = 2
    Delegations = {i1, i2, i3}
    Delegators = {d1, d2}
    Capabilities = {all, src}
    Everything = all
    Covers <- Nested
    ScopeOf <- Bounded
    MaxDepth = 1
    Redelegation = FALSE
    Clients = {w1, w2}
    Edits = {f1}
    FrameMax = 1
    SentMax = 1
    RadarLanes = {l1, l2}
    SessionOf <- OneSession
    Sessions = {d1, d2}
    Paths = {f1}
    RadarCalls = {i1, i2, i3}
    ReannounceAfter = 2
    NoIntent = NoIntent
INVARIANTS
    WorkspaceTypeOK
    DependenciesFirst
    OverlapExplained
    CorroborationIsIndependent
    EvictedOnEvidence
    AuthorityNarrows
    KnownCollisionSaid
    MissingIsOldOrDropped
PROPERTIES
    LostOnlyToStaleCopy
