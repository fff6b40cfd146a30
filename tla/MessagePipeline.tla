--------------------------- MODULE MessagePipeline ---------------------------
(***************************************************************************)
(* MessagePipeline of app/services/message_pipeline.py with the ReplyGate  *)
(* of app/services/reply_gate.py: for each OneBot event, the plan that     *)
(* tells the event bus and the reply arbiter what to do with it.           *)
(*                                                                         *)
(* process() runs without an await and is one step.  It is called with the *)
(* events of every NapCat connection, in the order they arrive.            *)
(***************************************************************************)
EXTENDS PlanResolution, GroupActivity, MessageContent

CONSTANTS
    Events,              \* the messages that arrive, see MessageContent
    GateCooldown,        \* ReplyGate.COOLDOWN_SECONDS
    MaxHourlyReplies,    \* ReplyGate.MAX_HOURLY_REPLIES
    DensityThreshold,    \* ReplyGate.DENSITY_THRESHOLD
    MaxReplies,          \* bounds the replies remembered per chat
    NoMessage            \* no message processed yet

\* The messages as the router sees them.
Messages == {Read(e) : e \in Events}

\* The keyword groups of the reply gate's patterns.
Topics == {"klee", "help", "genshin", "gacha", "sad"}

ASSUME PipelineAssumption ==
    /\ NoMessage \notin Messages
    /\ {GateCooldown, MaxHourlyReplies, DensityThreshold, MaxReplies} \subseteq Nat
    /\ \A e \in Events : e.group \in Chats /\ e.bot \in Bots /\ e.topics \subseteq Topics

VARIABLES
    message,             \* the message process() was last called with
    plan,                \* the ExecutionPlan it returned
    answers              \* history: the mentions of each chat that the gate answered

vars == <<now, recent, replyTimes, lastReply, message, plan, answers>>

\* An answer of the gate; plain if the mention had nothing else to say for itself.
Answer == [at : 1..MaxTime, plain : BOOLEAN]

-----------------------------------------------------------------------------
(* The reply gate.  topics are the keyword groups found in the text; a      *)
(* mention is always present, because the pipeline asks only then.          *)

Bonus == [klee |-> 80, help |-> 70, genshin |-> 30, gacha |-> 30, sad |-> 50]

AtBot == 100
ReplyThreshold == 80

Penalty(applies, points) == IF applies THEN points ELSE 0

Penalties(m) ==
    Penalty(IsInCooldown(m.group, GateCooldown), 60)
    + Penalty(DensityExceeds(m.group, DensityThreshold), 40)
    + Penalty(ImageRatioExceeds(m.group, 70), 40)
    + Penalty(m.meaningless, 30)
    + Penalty(HourlyReplyCount(m.group) >= MaxHourlyReplies, 50)

\* score() >= REPLY_THRESHOLD
ShouldReply(m) ==
    AtBot + MapThenSumSet(LAMBDA t : Bonus[t], m.topics)
      >= ReplyThreshold + Penalties(m)

-----------------------------------------------------------------------------

\* The gate is asked about messages that mention the bot and are no command.
GateTriggers(m) == m.handler = "none" /\ m.mentions /\ ShouldReply(m)

Init ==
    /\ ActivityInit
    /\ message = NoMessage /\ plan = EmptyPlan
    /\ answers = [c \in Chats |-> <<>>]

\* The history of what the gate has decided to answer: the plan just made is handed
\* to Hermes, whether there is one or not, and the decision counts as a reply.
NoteAnswer(m) ==
    answers' = IF plan'.reasons = {"reply_gate"}
               THEN [answers EXCEPT ![m.group] =
                       Append(@, [at |-> now, plain |-> m.topics = {}])]
               ELSE answers

\* _process_message: the gate looks at the activity before this message.
ProcessMessage(m) ==
    /\ Len(replyTimes[m.group]) < MaxReplies
    /\ message' = m
    /\ plan' = PlanFor(m, GateTriggers(m))
    /\ IF GateTriggers(m) THEN RecordReply(m.group)
                          ELSE UNCHANGED <<replyTimes, lastReply>>
    /\ RecordMessage(m.group, m.body = "media")
    /\ NoteAnswer(m)
    /\ UNCHANGED now

\* Meta events, notices and unknown post types.
ProcessOther ==
    /\ message' = NoMessage
    /\ plan' = SelfIdRoute
    /\ UNCHANGED <<now, activityVars, answers>>

Tick == ActivityTick /\ UNCHANGED <<message, plan, answers>>

Next ==
    \/ \E m \in Messages : ProcessMessage(m)
    \/ ProcessOther
    \/ Tick

Spec == Init /\ [][Next]_vars

-----------------------------------------------------------------------------
(* Properties *)

\* The type invariant of the tracker and of the returned plan.
TypeOK ==
    /\ ActivityTypeOK
    /\ message \in Messages \cup {NoMessage}
    /\ plan.policy.mode \in {"none", "silent", "gated", "first_valid", "exclusive"}
    /\ plan.strategy \in {"silent", "single", "observer", "self_id_route"}
    /\ answers \in [Chats -> Seq(Answer)]

\* Routing and arbitration agree, through command routing, observer merging,
\* target resolution and the reply gate's override: of the running downstreams,
\* those that are sent a message may reply to it and no others.  The one
\* exception is a message that is sent to nobody and left without a policy:
\* everybody may reply to that (api_proxy.py:290).
RepliersAreRecipientsOrAll ==
    message # NoMessage
    => \/ Repliers(plan) = Recipients(plan) \cap Downstreams
       \/ Recipients(plan) = {} /\ plan.policy.mode = "none" /\ Repliers(plan) = Downstreams

\* The observers that fire for a message, each with what it asks for.
Observers(m) ==
    (IF "links" \in Features /\ m.link
       THEN {[to |-> LinkTargets, mode |-> "first_valid", wait |-> LinkCooldown]} ELSE {})
    \cup
    (IF "cards" \in Features /\ m.card
       THEN {[to |-> CardTargets, mode |-> "first_valid", wait |-> CardCooldown]} ELSE {})
    \cup
    (IF "summary" \in Features /\ m.group \in SummaryGroups
       THEN {[to |-> SummaryTargets, mode |-> "gated", wait |-> 0]} ELSE {})
    \cup
    (IF "legacy_repeat" \in Features /\ m.group \in LegacyGroups /\ ~m.link /\ ~m.card
       THEN {[to |-> LegacyTargets, mode |-> "gated", wait |-> LegacyCooldown]} ELSE {})

\* The policy merged observer by observer is the join of what the observers
\* ask for: everybody's targets, the strongest mode, the shortest cooldown,
\* whatever the order in which route() applies them.
PolicyIsJoin ==
    message # NoMessage /\ message.handler = "none" /\ plan.handler # "hermes"
    => LET asked == Observers(message)
           waits == {o.wait : o \in asked} \ {0}
       IN  plan.policy =
             IF asked = {} THEN NoPolicy
             ELSE [mode |-> IF \E o \in asked : o.mode = "first_valid"
                            THEN "first_valid" ELSE "gated",
                   allow |-> UNION {o.to : o \in asked},
                   cooldown |-> IF waits = {} THEN 0 ELSE Min(waits)]

\* A command concerns one service: it wakes no observer, is never offered to
\* the repeater, and one downstream may answer it, unless the bot that saw it
\* has no astrbot of its own and all astrbots are asked.
CommandIsExclusive ==
    message # NoMessage /\ message.handler # "none"
    => /\ plan.observer = {} /\ "klee_core.repeat" \notin plan.internal
       /\ OwnAstrbot(message.bot) # {} => Cardinality(plan.policy.allow) <= 1

\* Three filters decide what may be repeated, each in its own way, and agree: a
\* message that the router offers to the repeater is a candidate for the
\* passive detector, enters the cache that counts it (add_message), and is no
\* command, whatever is said around the command.
RepeatFiltersAgree ==
    message # NoMessage /\ "klee_core.repeat" \in plan.internal
    => LET e == message.event IN
       /\ IsRepeatCandidate(e)
       /\ KeptByCache(e, message.handler # "none")
       /\ NormalizedText(e) \notin Prefixed

\* After the gate has answered a message, a mention with nothing else to say for
\* itself is not answered in the same chat before the cooldown is over, in the
\* same moment (the copy of another bot) neither.  It is stated of the answers,
\* whatever the tracker remembers of them.
GateSpacing ==
    \A c \in Chats : \A i, j \in DOMAIN answers[c] :
       i < j /\ answers[c][j].plain
       => answers[c][j].at - answers[c][i].at >= GateCooldown

=============================================================================
