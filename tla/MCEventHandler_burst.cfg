\* A message both bots see, a notice, frames of every kind, and the shutdown.
SPECIFICATION FairHandlerSpec
CONSTANTS
    g1 = g1  u1 = u1  b1 = b1  b2 = b2  c1 = c1  c2 = c2
    NoId = NoId  NoPlan = NoPlan  NoContext = NoContext  Never = Never
    NoVerdict = NoVerdict  NoClient = NoClient  NoEvent = NoEvent
    Groups = {g1}  Users = {u1}  Bots = {b1, b2}
    Downstreams = {"astrbot", "yunzai"}
    Plans <- MCPlans  Requests <- MCRequests
    ContextTtl = 0  Lookback = 0
    FirstValidCooldown = 1  GatedCooldown = 2
    DayLength = 5  MaxTime = 1
    ScheduledEnabled = FALSE  ScheduledKinds = {}  ScheduledGroups = {}
    ScheduledActions = {}  ScheduledWindows <- NoWindows  ScheduledMax = 0
    Kind <- MCKind
    SummaryEnabled = FALSE  SummaryDownstreams = {}  SummaryGroups = {}
    SummaryActions = {}  SummaryWindows = {}  SummaryAnytime = FALSE
    Conns = {c1, c2}
    Bot <- MCBot  Script <- MCScript  SelfId <- MCSelfId  Rank <- MCRank
    MaxForwarded = 1  EventIds = {"m1", "m2", "n1"}
INVARIANTS HandlerTypeOK PushesCutNothing ReceivedCanAnswer
PROPERTIES InOrder EveryEventSettles ShutdownEnds
CHECK_DEADLOCK FALSE
