\* A request that no event asked for.
SPECIFICATION FairProxySpec
CONSTANTS
    g1 = g1  g2 = g2  u1 = u1  b1 = b1  b2 = b2
    NoId = NoId  NoPlan = NoPlan  NoContext = NoContext  Never = Never
    NoVerdict = NoVerdict  NoUrl = NoUrl
    Groups = {g1, g2}  Users = {}  Bots = {b1, b2}
    Downstreams = {"yunzai"}
    Plans <- CommandPlans  Requests <- MCRequests
    ContextTtl = 1  Lookback = 1
    FirstValidCooldown = 2  GatedCooldown = 3
    DayLength = 5  MaxTime = 1
    ScheduledEnabled = FALSE  ScheduledKinds = {}  ScheduledGroups = {}
    ScheduledActions = {}  ScheduledWindows <- NoWindows  ScheduledMax = 0
    Kind <- MCKind
    SummaryEnabled = FALSE  SummaryDownstreams = {}  SummaryGroups = {}
    SummaryActions = {}  SummaryWindows = {}  SummaryAnytime = FALSE
    Kinds = {"send", "query", "http", "repeat"}
    HttpUrl <- MCUrls  DefaultUrl = "http5700"  MemberOf <- OneEach
    Calls <- FewCalls
PROPERTY BlockedGetsFakeSuccess
CHECK_DEADLOCK FALSE
