\* Sessions are lost at any moment; the client
\* remembers fewer ids than are in use.
SPECIFICATION FairSpec
CONSTANTS
    b1 = b1  b2 = b2  q1 = q1  NoMessageId = NoMessageId
    Events <- MCEvents  Requests = {q1}
    MaxForwarded = 1  InitialDelay = 1  MaxDelay = 2  Pushers = 2
INVARIANTS TypeOK UnwrittenIsBounded OpenSessionIsUsed StopIsFinal
PROPERTIES AtMostOnce BackoffRestarts Reconnects
CHECK_DEADLOCK FALSE
