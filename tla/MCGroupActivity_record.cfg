\* One chat, more messages than the deque holds, times beyond both horizons.
SPECIFICATION Spec
CONSTANTS
    Chats = {c1}
    Window = 2  MaxRecent = 3  Hour = 3  MaxTime = 6
    MaxMessages = 5  MaxReplies = 3
    Cooldown = 2
INVARIANTS RecentIsNewest RepliesAreCounted
CHECK_DEADLOCK FALSE
