SPECIFICATION ExecutorSpec
CONSTANTS
    Threads = {t1, t2}
    CallMax = 1
    MaxNow = 4
    Never = Never
    a = a
    c = c
    Columns = {a, c}
    PageOf <- MCPageOf
    MAX_PAGES = 2
    CatalogMax = 3
    TagRefresh = 1
    Roles = {r1}
    RoleTtl = 1
    RoleEvents = 2
    Kids = {k1, k2}
    KeysTtl = 1
    u1 = u1
    u2 = u2
    s1 = s1
    s2 = s2
    c1 = c1
    c2 = c2
    Users = {u1, u2}
    Sources = {s1, s2}
    Scopes = {c1, c2}
    ScopeOf <- MCScopeOf
    GlobalScope = c1
    Life = 3
    Margin = 2
    MaxExchanges = 2
    MaxFaults = 1
    TokenLeft = 1
    MaxWrong = 2
    Tables = {a1, a2}
    Names = {n1}
    HeldRoles = {r1}
    AnyRole = AnyRole
    NoRole = NoRole
    AnyTable = AnyTable
    AnyName = AnyName
    Schemas = {dbo, hr}
    AllowedSchemas = {dbo}
    TableNames = {n1, n2}
    Aliases = {x, y}
    ColumnNames = {c1}
    NoName = NoName
    MaxRows = 2
    MaxItems = 2
    SchemaDepth = 6
    FilterDepth = 8
    MaxNesting = 8
INVARIANTS
    TagsInTime
    RolesInTime
    KeysInTime
    TokenHanded
    OwnFailureOnly
    DecisionRecorded
    SurfacesAgree
    TokenLiveAtEngine
    AnswerWithholds
    DenialStands
    JudgedOnce
    
    CallGuarded
SYMMETRY Symmetry
