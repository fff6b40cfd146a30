\* The same window on two consecutive days.
SPECIFICATION Spec
CONSTANTS
    g1 = g1  g2 = g2  u1 = u1  b1 = b1
    NoId = NoId  NoPlan = NoPlan  NoContext = NoContext  Never = Never
    NoVerdict = NoVerdict
    Groups = {g1}  Users = {}  Bots = {b1}
    Downstreams = {"yunzai"}
    Plans <- NoticePlans
    Requests <- SignIn
    ContextTtl = 2  Lookback = 1
    FirstValidCooldown = 2  GatedCooldown = 3
    DayLength = 5  MaxTime = 6
    ScheduledEnabled = TRUE  ScheduledKinds = {"yunzai"}  ScheduledGroups = {g1}
    ScheduledActions = {"send_group_msg"}
    ScheduledWindows <- MorningOnly  ScheduledMax = 1
    Kind <- MCKind
    SummaryEnabled = FALSE  SummaryDownstreams = {"astrbot_main"}
    SummaryGroups = {}  SummaryActions = {"send_group_msg"}
    SummaryWindows <- MCSummaryWindows  SummaryAnytime = FALSE
PROPERTY QuotaIsPerWindow
CHECK_DEADLOCK FALSE
