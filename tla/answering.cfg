SPECIFICATION MCSpec
CONSTANTS
    Requests = {r1, r2, r3}
    Askers = {r1, r2, r3}
    MaxTurns = 2
    RewriteWindow = 1
    Scopes = {s1}
    NoScope = nosc
    ClarificationScopes = {s1, nosc}
    ClarificationExpiry = 1
    MaxAskClock = 1
    MaxAskFaults = 1
    Documents = {d1, d2}
    SearchDepth = 3
    ContextSize = 2
    MaxClaims = 2
    Verifiers = 2
    RetrievalScores = {200, 900}
    LogProbs = {1000}
    RetrievalThreshold = 300
    RouteMinimum = 500
    MaxAttempts = 3
    a = a
    b = b
    Symbols = {a, b}
    Marker <- MarkerOfTest
    MaxPiece = 3
    MaxStream = 8
    CopilotMaxRows = 2
    TableRows = 3
    MaxCalls = 3
    LabRequests = {q1, q2}
    RowLimit = 2
    MaxSampleRows = 1
    MaxLabFaults = 2
    CorpusIds = {1, 2, 3}
    CorpusTitles = {1, 2}
    CorpusOwners = {1, 2}
    CorpusViewers = {0, 1}
    CorpusSearches = {0, 1}
    MaxCorpusPage = 1
    MaxDisturbances = 1
SYMMETRY Interchangeable
INVARIANTS
    RecordExplainsItsTurns
    AnswersPassTheirGates
    ClarifiedOnceInScope
    AnswersHoldUp
    DeltasAreTheProse
    RowsAreRecorded
    StatementsAreBounded
    CorpusPagesCompose
CHECK_DEADLOCK FALSE
