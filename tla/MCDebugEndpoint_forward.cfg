\* A mention posted twice, another call, three posts that are turned away.
SPECIFICATION EndpointSpec
CONSTANTS
    g1 = g1  private = private  b1 = b1  b2 = b2  b3 = b3
    NoBot = NoBot  NoMessage = NoMessage  NotPosted = NotPosted
    Features = {}
    LinkTargets = {"hermes"}  CardTargets = {"hermes"}
    SummaryTargets = {"hermes"}  LegacyTargets = {"hermes"}
    LinkCooldown = 1  CardCooldown = 1  LegacyCooldown = 1
    SummaryGroups = {}  KleeRepeatGroups = {}  LegacyGroups = {}
    Chats = {g1, private}
    Window = 1  MaxRecent = 1  Hour = 2  MaxTime = 3
    Downstreams = {"hermes"}
    Kind <- MCKind  SelfId <- MCSelfId
    Bots = {b1, b2, b3}
    Events <- MCEvents
    Texts = {""}  Blank = ""  Prefixed = {}  Keywords = {}  Spaced = {}  Rules <- MCRules
    GateCooldown = 2  MaxHourlyReplies = 2  DensityThreshold = 1
    MaxReplies = 3
    Posts = {1, 2, 3, 4, 5, 6}
    EventOf <- MCEventOf  TypeOf <- MCTypeOf  Managed <- MCManaged  Private = private  Webhook = TRUE
INVARIANTS EndpointTypeOK RetryIsDamped ClientIsClosed
CHECK_DEADLOCK FALSE
