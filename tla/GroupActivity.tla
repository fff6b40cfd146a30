---------------------------- MODULE GroupActivity ----------------------------
(***************************************************************************)
(* GroupActivityTracker of app/services/group_activity.py: what the reply  *)
(* gate remembers of the messages and of the bot's replies in each group.  *)
(*                                                                         *)
(* Private chats have no group id and all share the entry of the id 0      *)
(* (NoId).  The clock starts at 1, because last_reply_at = 0 means "never".*)
(***************************************************************************)
EXTENDS Naturals, Sequences, FiniteSets

CONSTANTS
    Chats,           \* group ids, and the 0 of private chats
    Window,          \* window_seconds
    MaxRecent,       \* max_recent
    Hour,            \* the 3600 seconds of the hourly cap
    MaxTime          \* bounds the clock

ASSUME ActivityAssumption ==
    {Window, MaxRecent, Hour, MaxTime} \subseteq Nat \ {0}

VARIABLES
    now,             \* time.time()
    recent,          \* _GroupState.recent, per chat: (timestamp, is_media)
    replyTimes,      \* _GroupState.reply_times, per chat
    lastReply        \* _GroupState.last_reply_at, per chat

activityVars == <<recent, replyTimes, lastReply>>

Record == [at : 1..MaxTime, media : BOOLEAN]

\* The positions whose time stamps are at most `age' old.
Young(stamps, age) == {i \in DOMAIN stamps : stamps[i] + age >= now}

\* popleft while the first entry's time stamp is older than `age'.
DropOld(s, stamps, age) ==
    LET young == Young(stamps, age) IN
    IF young = {} THEN <<>>
    ELSE SubSeq(s, CHOOSE i \in young : \A j \in young : i <= j, Len(s))

\* Mutant: the oldest entries are kept.
LastN_Oldest(s, n) == IF Len(s) <= n THEN s ELSE SubSeq(s, 1, n)

LastN(s, n) == IF Len(s) <= n THEN s ELSE SubSeq(s, Len(s) - n + 1, Len(s))

Stamps(records) == [i \in DOMAIN records |-> records[i].at]

ActivityInit ==
    /\ now = 1
    /\ recent = [c \in Chats |-> <<>>]
    /\ replyTimes = [c \in Chats |-> <<>>]
    /\ lastReply = [c \in Chats |-> 0]

\* record_message: append, drop what left the window, then what is too many.
RecordMessage(c, media) ==
    LET appended == Append(recent[c], [at |-> now, media |-> media])
    IN  recent' = [recent EXCEPT ![c] =
            LastN(DropOld(appended, Stamps(appended), Window), MaxRecent)]

\* Mutant: the end of the hour is stored, not the time of the reply.
RecordReply_Deadline(c) ==
    /\ lastReply' = [lastReply EXCEPT ![c] = now + Hour]
    /\ UNCHANGED replyTimes

\* Mutant: replies are dropped with the horizon of messages.
RecordReply_WrongHorizon(c) ==
    LET appended == Append(replyTimes[c], now) IN
    /\ lastReply' = [lastReply EXCEPT ![c] = now]
    /\ replyTimes' = [replyTimes EXCEPT ![c] = DropOld(appended, appended, Window)]

\* record_reply
RecordReply(c) ==
    LET appended == Append(replyTimes[c], now) IN
    /\ lastReply' = [lastReply EXCEPT ![c] = now]
    /\ replyTimes' = [replyTimes EXCEPT ![c] = DropOld(appended, appended, Hour)]

\* Queries.  They filter again, because deques are trimmed only when written.
InWindow(c) == Young(Stamps(recent[c]), Window)

\* get_density(c) > threshold, without the division: the elapsed time is
\* always the whole window.
DensityExceeds(c, threshold) == Cardinality(InWindow(c)) > threshold * Window

\* get_image_spam_ratio(c) > percent / 100
ImageRatioExceeds(c, percent) ==
    LET media == {i \in InWindow(c) : recent[c][i].media}
    IN  100 * Cardinality(media) > percent * Cardinality(InWindow(c))

\* Mutant: the cooldown ends one tick early.
IsInCooldown_Early(c, seconds) ==
    lastReply[c] # 0 /\ now + 1 < lastReply[c] + seconds

\* is_in_cooldown
IsInCooldown(c, seconds) == lastReply[c] # 0 /\ now < lastReply[c] + seconds

HourlyReplyCount(c) == Cardinality(Young(replyTimes[c], Hour))

ActivityTick ==
    /\ now < MaxTime
    /\ now' = now + 1
    /\ UNCHANGED activityVars

ActivityTypeOK ==
    /\ now \in 1..MaxTime
    /\ recent \in [Chats -> Seq(Record)]
    /\ replyTimes \in [Chats -> Seq(1..MaxTime)]
    /\ lastReply \in [Chats -> 0..MaxTime]

=============================================================================
