---------------------------- MODULE ActivityRecord ----------------------------
(***************************************************************************)
(* GroupActivity next to a complete record of what happened, so that the   *)
(* answers of the trimmed deques can be compared with the true ones.  The  *)
(* gate's coroutines call the tracker in any order; no call awaits.        *)
(***************************************************************************)
EXTENDS GroupActivity

CONSTANTS
    MaxMessages, MaxReplies,   \* bounds on the record
    Cooldown                   \* ReplyGate.COOLDOWN_SECONDS

ASSUME RecordAssumption == Cooldown \in Nat

VARIABLES
    messageLog,                \* every message of every chat
    replyLog                   \* the time of every reply

vars == <<now, recent, replyTimes, lastReply, messageLog, replyLog>>

Init ==
    /\ ActivityInit
    /\ messageLog = [c \in Chats |-> <<>>]
    /\ replyLog = [c \in Chats |-> <<>>]

Message(c, media) ==
    /\ Len(messageLog[c]) < MaxMessages
    /\ RecordMessage(c, media)
    /\ messageLog' = [messageLog EXCEPT ![c] =
                        Append(@, [at |-> now, media |-> media])]
    /\ UNCHANGED <<now, replyTimes, lastReply, replyLog>>

Reply(c) ==
    /\ Len(replyLog[c]) < MaxReplies
    /\ RecordReply(c)
    /\ replyLog' = [replyLog EXCEPT ![c] = Append(@, now)]
    /\ UNCHANGED <<now, recent, messageLog>>

Tick == ActivityTick /\ UNCHANGED <<messageLog, replyLog>>

Next ==
    \/ \E c \in Chats, media \in BOOLEAN : Message(c, media)
    \/ \E c \in Chats : Reply(c)
    \/ Tick

Spec == Init /\ [][Next]_vars

-----------------------------------------------------------------------------

MessagesInWindow(c) == {i \in DOMAIN messageLog[c] : messageLog[c][i].at + Window >= now}

\* The deque holds the newest messages of the window: trimming on append by
\* age and by size never drops one that get_density or get_image_spam_ratio
\* should still see, unless MaxRecent newer ones exist.
RecentIsNewest ==
    \A c \in Chats :
       LET n == Len(recent[c])
           total == Len(messageLog[c])
       IN  /\ n <= MaxRecent
           /\ recent[c] = SubSeq(messageLog[c], total - n + 1, total)
           /\ \/ n = MaxRecent
              \/ MessagesInWindow(c) \subseteq (total - n + 1)..total

\* The hourly count is exact although old entries go only when a reply is
\* recorded, and a group is in cooldown exactly while its last reply is young.
RepliesAreCounted ==
    \A c \in Chats :
       /\ HourlyReplyCount(c)
            = Cardinality({i \in DOMAIN replyLog[c] : replyLog[c][i] + Hour >= now})
       /\ IsInCooldown(c, Cooldown)
            <=> \E i \in DOMAIN replyLog[c] : now - replyLog[c][i] < Cooldown

=============================================================================
