\* An exchange ends, a client is stopped, a daemon exits: all may stop.
SPECIFICATION ServiceSpec
CHECK_DEADLOCK FALSE
CONSTANTS
    p1 = p1  p2 = p2  d1 = d1  d2 = d2  l1 = l1
    QueueMax = 2
    BatchMax = 2
    Chaos = TRUE
    MaxOffers = 5
    MaxBreaks = 2
    MaxExchanges = 5
    EscalateAfter = 4
    Positions = {p1, p2}
    Daemons = {d1, d2}
    Runnable = {l1}
    NoDaemon = NoDaemon
    Messages = {l1}
    MaxRetries = 2
    MaxPieces = 4
    MaxBuffer = 1
    TerminalSize = 2
    Askers = {p1}
    MaxChunks = 2
    PollInterval = 1
    MinBackoff = 1
    MaxBackoff = 4
    AnswerTime = 2
    PollTimeout = 3
    PageMax = 2
    FeedMax = 2
    MaxEvents = 4
    MaxTroubles = 2
    Nothing = Nothing
INVARIANTS
    ServiceTypeOK
    ExchangesSound
    OneDaemonUnlessRaced
    DeliveredOnceUnlessRaced
    FeedHasNoHoles
    WokenAndReleased
    LoggedInOrder
PROPERTIES
    ChannelToRelay
    EveryoneCatchesUp
    EverythingEnds
