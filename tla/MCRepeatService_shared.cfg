\* Two bots in one group, every interleaving of their connections.
SPECIFICATION Spec
CONSTANTS
    g1 = g1  g2 = g2  b1 = b1  b2 = b2  hi = hi  ho = ho
    Idle = Idle  Never = Never  NoDecision = NoDecision
    Groups = {g1}  Texts = {hi, ho}  Bots = {b1, b2}
    Members <- Shared
    Threshold = 3  Window = 4  Cooldown = 2  CacheSize = 5
    MaxSaid = 5  MaxTime = 5
INVARIANTS TypeOK RepeatHasQuorum
PROPERTIES RepeatSpacing
SYMMETRY AnyOrder
CHECK_DEADLOCK FALSE
