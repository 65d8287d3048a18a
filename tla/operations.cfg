SPECIFICATION MCSpec
CONSTANTS
    RefreshIds = {i1, i2, i3}
    NoRefreshId = none
    AuthClients = {p1, p2}
    RefreshLifetime = 2
    MaxAuthClock = 3
    MaxAuthFaults = 1
    RateCallers = {p1, p2}
    RateKeys = {k1, k2}
    RateLimit = 2
    RateWindow = 4
    MaxRateDelay = 1
    MaxRateClock = 6
    ReplayWorkers = {p1, p2}
    NoReplayWorker = none
    MaxReplayFaults = 2
    ConfigVersionIds = {i1, i2, i3}
    NoConfigVersion = none
    ConfigOperators = {o1}
    Resolvers = {p1, p2}
    MaxActivations = 2
    MaxConfigFaults = 1
    FeedbackIds = {1, 2}
    FeedbackKinds <- Kinds
    FeedbackTimes = {1, 2}
    Promoters = {p1, p2}
    InboxFilters = {"all", "unreviewed"}
    MaxInboxPage = 1
    MaxReviews = 1
    MaxFeedbackFaults = 1
    Outcomes = {1, 2, 3}
    Embeddings <- Vectors
    GapScores = {30, 80}
    GapMinConfidence = 50
    MaxTopics = 2
    MinOutcomes = 2
SYMMETRY Interchangeable
INVARIANTS
    SessionsDoNotBranch
    ReuseStaysDetectable
    ReuseEndsSessions
    LimitHolds
    AuditExplainsActive
    StampsWereActive
    PagingIsComplete
    PromotionsHaveCases
    ReportsHoldUp
PROPERTIES
    ReplayImplementsContract
    CancelledRunStops
CHECK_DEADLOCK FALSE
