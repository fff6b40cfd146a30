\* Two groups, one of which has the number of the user, over a day with an
\* overnight window and one right after it: contexts are replaced and expire
\* between requests, a link and a summary each have a cooldown, a command has none, and
\* unsolicited sends fall to the whitelists.  The map of groups to bots, which nothing
\* reads here, stays empty: events carry no self_id.
SPECIFICATION Spec
CONSTANTS
    g1 = g1  g2 = g2  u1 = u1  b1 = b1
    NoId = NoId  NoPlan = NoPlan  NoContext = NoContext  Never = Never
    NoVerdict = NoVerdict
    Groups = {g1, g2}  Users = {g2}  Bots = {}
    Downstreams = {"astrbot_main", "yunzai"}
    Plans <- ReplyPlans
    Requests <- MCRequests
    ContextTtl = 1  Lookback = 1
    FirstValidCooldown = 2  GatedCooldown = 3
    DayLength = 4  MaxTime = 3
    ScheduledEnabled = TRUE  ScheduledKinds = {"yunzai"}  ScheduledGroups = {g1}
    ScheduledActions = {"send_group_msg"}
    ScheduledWindows <- MCWindows  ScheduledMax = 1
    Kind <- MCKind
    SummaryEnabled = TRUE  SummaryDownstreams = {"astrbot_main"}
    SummaryGroups = {g1}  SummaryActions = {"send_group_msg"}
    SummaryWindows <- MCSummaryWindows  SummaryAnytime = FALSE
INVARIANTS TypeOK GrantHasFreshContext ThrottleSpacing ScheduledCap LimiterKeepsUp
PROPERTY RefusalIsFree
CHECK_DEADLOCK FALSE
