SPECIFICATION AroundSpec
CONSTANTS
    MAX_STEPS = 3
    TOOL_CONCURRENCY = 2
    MaxCalls = 3
    Asks = {t1, t2}
    Subjects = {s1, s2}
    Tables = {x, y}
    MAX_TABLES = 1
    TTL_S = 2
    ReadMax = 1
    Horizon = 4
    Lifetime = 3
    Slack = 1
    Assumed = 2
    LastTime = 6
    People = {x, y}
    Columns = {c1}
    Words = {w1}
    MIN_USERS = 2
    MIN_RUNS = 3
    MaxLines = 4
    MaxJobs = 2
    Titles = {x, y}
    Questions = {q1, q2}
    MaxCandidates = 1
    MaxPublications = 2
    Threads = {t1, t2}
    CallMax = 0
    MaxNow = 0
    Never = Never
    MaxSpecs = 3
    MaxVersions = 4
    Tokens = {x, y}
    Shared = Shared
    MaxRows = 1
    PoolsKept = 1
    MaxPools = 4
SYMMETRY Symmetry
INVARIANTS
    TranscriptAnswered
    AnswerAccounts
    CallsEndWithTurn
    SchemaOfCaller
    HandedAlive
    ThresholdHolds
    PublishedWhole
    ServedAsConfigured
    ImplementationsAgree
    CallsGuarded
    HandedOutBounded
    RunsAsAsker
    PoolsAccounted
    AnswerWhole
PROPERTY
    SpecSettles
CHECK_DEADLOCK FALSE
