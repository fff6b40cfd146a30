\* Hermes is configured: the reply gate hands mentions over to it.
SPECIFICATION Spec
CONSTANTS
    g1 = g1  private = private  b1 = b1  b2 = b2
    NoBot = NoBot  NoMessage = NoMessage
    Features <- MCFeatures
    LinkTargets = {"astrbot_main"}
    CardTargets = {"astrbot_main", "astrbot_third"}
    SummaryTargets = {"astrbot_secondary"}
    LegacyTargets = {"astrbot_secondary"}
    LinkCooldown = 4  CardCooldown = 3  LegacyCooldown = 5
    SummaryGroups = {g1}  KleeRepeatGroups = {g1}  LegacyGroups = {g1}
    Chats = {g1, private}
    Window = 1  MaxRecent = 2  Hour = 2  MaxTime = 4
    Downstreams = {"astrbot_main", "astrbot_secondary", "yunzai", "hermes"}
    Kind <- MCKind  SelfId <- MCSelfId
    Bots = {b1, b2}
    Events <- MCEvents
    Texts = {" ", "hi", "look", "h  i", "speech", "#sign", "/help", "pat", "recap",
             "favor", "ask hermes", "meme"}
    Blank = " "  Prefixed = {"#sign", "/help"}  Keywords = {"pat"}
    Spaced = {"h  i"}  Rules <- MCRules
    GateCooldown = 2  MaxHourlyReplies = 2  DensityThreshold = 1
    MaxReplies = 3
INVARIANTS TypeOK RepliersAreRecipientsOrAll PolicyIsJoin CommandIsExclusive RepeatFiltersAgree
INVARIANTS GateSpacing
