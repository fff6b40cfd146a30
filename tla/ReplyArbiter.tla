---------------------------- MODULE ReplyArbiter ----------------------------
(***************************************************************************)
(* The Reply Arbiter of app/services/onebot_bridge/api_proxy.py: what      *)
(* OneBotAPIProxy remembers of the events NapCat pushes (record_event) and *)
(* how it decides whether a downstream may send a message (_arbitrate).    *)
(*                                                                         *)
(* Both functions run without an await, so each is one step.  Chat groups  *)
(* and users are identified by numbers in ONE dictionary in the code;      *)
(* Groups and Users are therefore not assumed disjoint.  Time is a number  *)
(* of ticks; the time of day is now % DayLength.                           *)
(***************************************************************************)
EXTENDS Naturals, FiniteSets, Sequences

CONSTANTS
    Groups, Users,          \* ids of chat groups and of users
    NoId,                   \* the 0 that stands for "no group" / "no user"
    Bots,                   \* self_ids of the NapCat accounts
    Downstreams,            \* names of the connected downstream services
    Plans,                  \* the ExecutionPlans the pipeline can produce
    NoPlan,                 \* record_event without a plan
    NoContext, Never,       \* absent entry of _event_contexts, _reply_cooldowns
    NoVerdict,              \* no arbitration ended in the last step
    Requests,               \* the send requests downstreams make
    ContextTtl,             \* is_expired: ttl
    Lookback,               \* _find_observer_context: lookback_seconds
    FirstValidCooldown,     \* `cooldown_seconds or 10'
    GatedCooldown,          \* observer_reply_cooldown_seconds
    DayLength, MaxTime      \* MaxTime bounds the clock

CONSTANTS                   \* reply_arbiter section of the configuration
    ScheduledEnabled, ScheduledKinds, ScheduledGroups, ScheduledActions,
    ScheduledWindows, ScheduledMax, Kind,
    SummaryEnabled, SummaryDownstreams, SummaryGroups, SummaryActions,
    SummaryWindows, SummaryAnytime

Targets == Groups \cup Users

\* The downstreams a plan sends its event to.
Routed(plan) == plan.primary \cup plan.observer

Modes == {"none", "silent", "gated", "first_valid", "exclusive", "allow_all"}

\* A policy's mode "none" is reply_policy = None; cooldown 0 is both None and
\* 0, which `cooldown_seconds or default' does not tell apart.
Request == [source : Downstreams, action : STRING,
            group : Groups \cup {NoId}, user : Users \cup {NoId}]

\* One dictionary entry: what the arbiter reads of an _EventContext.
Context == [group : Groups \cup {NoId}, plan : Plans, created : 0..MaxTime]

ASSUME IdsAssumption == NoId \notin Groups \cup Users

ASSUME AbsentAssumption ==
    /\ NoContext \notin Context
    /\ Never \notin Nat
    /\ NoPlan \notin Plans

ASSUME RequestsAssumption == Requests \subseteq Request

\* Of the running downstreams a policy allows only recipients of the event
\* (RepliersAreRecipientsOrAll of MessagePipeline).
ASSUME PlansAssumption ==
    \A p \in Plans : /\ p.policy.allow \cap Downstreams \subseteq Routed(p)
                      /\ p.policy.cooldown \in Nat

ASSUME TimeAssumption ==
    /\ {ContextTtl, Lookback, FirstValidCooldown, GatedCooldown, MaxTime}
         \subseteq Nat
    /\ DayLength \in Nat \ {0}
    /\ Lookback <= ContextTtl

ASSUME ScheduleAssumption ==
    /\ ScheduledMax \in Nat
    /\ ScheduledGroups \subseteq Groups
    /\ ScheduledEnabled \in BOOLEAN

VARIABLES
    now,              \* time.time()
    groupBot,         \* _group_bot
    contexts,         \* _event_contexts
    replyCooldowns,   \* _reply_cooldowns
    scheduledCounts,  \* _scheduled_task_counts (only the current key is ever in it)
    scheduledWindow,  \* _scheduled_task_window_ttl
    verdict,          \* what _arbitrate returned in this step, and by which rule
    granted,          \* history: scheduled sends let through since the window opened
    replied           \* history: target and downstream -> its throttled replies

quotaVars == <<scheduledCounts, scheduledWindow, granted>>
vars == <<now, groupBot, contexts, replyCooldowns, scheduledCounts,
          scheduledWindow, verdict, granted, replied>>

-----------------------------------------------------------------------------
(* Time windows *)

NoWindow == <<>>

Zero == [g \in Groups |-> 0]

Inside(w, t) == IF w.start <= w.end THEN w.start <= t /\ t <= w.end
                                    ELSE t >= w.start \/ t <= w.end

\* _resolve_scheduled_time_window: the first configured window that holds t,
\* identified by its bounds.
WindowAt(t) ==
    LET tod == t % DayLength
        hits == {i \in DOMAIN ScheduledWindows : Inside(ScheduledWindows[i], tod)}
    IN  IF hits = {} THEN NoWindow
        ELSE LET w == ScheduledWindows[CHOOSE i \in hits : \A j \in hits : i <= j]
             IN  <<w.start, w.end>>

\* _is_in_summary_time_window: overnight windows are not recognised here.
InSummaryWindow(t) ==
    \E w \in SummaryWindows : w.start <= t % DayLength /\ t % DayLength <= w.end

-----------------------------------------------------------------------------
(* Recording events *)

Init ==
    /\ now = 0
    /\ groupBot = [g \in Groups |-> NoId]
    /\ contexts = [t \in Targets |-> NoContext]
    /\ replyCooldowns = [key \in Targets \X Downstreams |-> Never]
    /\ scheduledCounts = Zero
    /\ scheduledWindow = NoWindow
    /\ verdict = NoVerdict
    /\ granted = Zero
    /\ replied = [key \in Targets \X Downstreams |-> <<>>]

\* The key a context is stored under: the group, else (private chat) the user.
ContextKey(g, u) == IF g # NoId THEN g ELSE u

\* Mutant: the expiry time is stored in place of the creation time.
NewContext_Expiry(g, plan) ==
    [group |-> g, plan |-> plan, created |-> now + ContextTtl]

NewContext(g, plan) == [group |-> g, plan |-> plan, created |-> now]

RecordEvent(bot, g, u, plan) ==
    LET key == ContextKey(g, u) IN
    /\ groupBot' = IF NoId \in {g, bot} THEN groupBot ELSE [groupBot EXCEPT ![g] = bot]
    /\ contexts' = IF plan = NoPlan \/ key = NoId THEN contexts
                   ELSE [contexts EXCEPT ![key] = NewContext(g, plan)]
    /\ verdict' = NoVerdict
    /\ UNCHANGED <<now, replyCooldowns, quotaVars, replied>>

-----------------------------------------------------------------------------
(* Arbitration of a send request with a live context *)

Target(r) == IF r.group # NoId THEN r.group ELSE r.user

ContextFor(r) == IF Target(r) = NoId THEN NoContext ELSE contexts[Target(r)]

OlderThan(ctx, ttl) == now - ctx.created > ttl

\* Mutant: contexts never expire.
LiveContext_Forever(r) == ContextFor(r) # NoContext

LiveContext(r) ==
    /\ ContextFor(r) # NoContext
    /\ ~OlderThan(ContextFor(r), ContextTtl)

Return(r, allowed, rule) ==
    verdict' = [request |-> r, allowed |-> allowed, rule |-> rule]

\* No policy, "exclusive", "silent" and "allow_all": nothing is written.
ArbitrateByMode(r) ==
    LET policy == ContextFor(r).plan.policy
        allowed == \/ policy.mode \in {"none", "allow_all"}
                   \/ policy.mode = "exclusive" /\ r.source \in policy.allow
    IN  /\ LiveContext(r)
        /\ policy.mode \in {"none", "silent", "exclusive", "allow_all"}
        /\ Return(r, allowed, policy.mode)
        /\ UNCHANGED <<now, groupBot, contexts, replyCooldowns, quotaVars, replied>>

EffectiveCooldown(policy) ==
    CASE policy.cooldown # 0           -> policy.cooldown
      [] policy.mode = "first_valid"   -> FirstValidCooldown
      [] OTHER                         -> GatedCooldown

CooldownKey(r) == <<Target(r), r.source>>

\* Mutant: a new event resets the cooldown.
CooledDown_PerContext(r, policy) ==
    LET last == replyCooldowns[CooldownKey(r)]
    IN  \/ last = Never
        \/ now - last >= EffectiveCooldown(policy)
        \/ last < ContextFor(r).created

CooledDown(r, policy) ==
    LET last == replyCooldowns[CooldownKey(r)]
    IN  last = Never \/ now - last >= EffectiveCooldown(policy)

\* Mutant: a refused request starts the cooldown again.
StartCooldown_Always(r, allowed) ==
    replyCooldowns' = [replyCooldowns EXCEPT ![CooldownKey(r)] = now]

StartCooldown(r, allowed) ==
    replyCooldowns' = IF allowed
                      THEN [replyCooldowns EXCEPT ![CooldownKey(r)] = now]
                      ELSE replyCooldowns

\* The history of what is let through, whatever the stamps say.
NoteReply(r, allowed, policy) ==
    replied' = IF allowed
               THEN [replied EXCEPT ![CooldownKey(r)] =
                       Append(@, [at |-> now, wait |-> EffectiveCooldown(policy)])]
               ELSE replied

\* "first_valid" and "gated": a granted reply starts the cooldown of this
\* downstream in this target.
ArbitrateThrottled(r) ==
    LET policy == ContextFor(r).plan.policy
        allowed == r.source \in policy.allow /\ CooledDown(r, policy)
    IN  /\ LiveContext(r)
        /\ policy.mode \in {"first_valid", "gated"}
        /\ Return(r, allowed, policy.mode)
        /\ StartCooldown(r, allowed)
        /\ NoteReply(r, allowed, policy)
        /\ UNCHANGED <<now, groupBot, contexts, quotaVars>>

-----------------------------------------------------------------------------
(* Arbitration of an unsolicited send request *)

\* Mutant: every call starts a new count.
CountsNow_Fresh == Zero

\* The rate limiter's counts after the window change has been detected.
CountsNow ==
    IF WindowAt(now) = scheduledWindow THEN scheduledCounts ELSE Zero

\* Mutant: one send too many.
ScheduledTaskAllowed_OffByOne(r) ==
    /\ ScheduledEnabled /\ Kind[r.source] \in ScheduledKinds
    /\ r.group \in ScheduledGroups /\ r.action \in ScheduledActions
    /\ WindowAt(now) # NoWindow /\ CountsNow[r.group] <= ScheduledMax

ScheduledTaskAllowed(r) ==
    /\ ScheduledEnabled
    /\ Kind[r.source] \in ScheduledKinds
    /\ r.group \in ScheduledGroups
    /\ r.action \in ScheduledActions
    /\ WindowAt(now) # NoWindow
    /\ CountsNow[r.group] < ScheduledMax

\* Mutant: refused requests are counted too.
CheckScheduledSystemTask_CountsAll(r) ==
    /\ scheduledWindow' = WindowAt(now)
    /\ scheduledCounts' = [g \in Groups |->
                              CountsNow[g] + IF g = r.group THEN 1 ELSE 0]
    /\ UNCHANGED granted

\* _check_scheduled_system_task writes the limiter on every call, allowed or not.
CheckScheduledSystemTask(r) ==
    IF ~ScheduledEnabled THEN UNCHANGED quotaVars
    ELSE /\ scheduledWindow' = WindowAt(now)
         /\ scheduledCounts' = IF ScheduledTaskAllowed(r)
                               THEN [CountsNow EXCEPT ![r.group] = @ + 1]
                               ELSE CountsNow
         /\ granted' = IF ScheduledTaskAllowed(r)
                       THEN [granted EXCEPT ![r.group] = @ + 1]
                       ELSE granted

SummaryAllowed(r) ==
    /\ SummaryEnabled
    /\ r.source \in SummaryDownstreams
    /\ r.group \in SummaryGroups
    /\ r.action \in SummaryActions
    /\ InSummaryWindow(now) \/ SummaryAnytime

\* The tag "astrbot_repeat_observer" without its "_legacy" form.
LegacyRepeatOnly(plan) ==
    /\ "astrbot_repeat_observer" \in plan.reasons
    /\ "astrbot_repeat_observer_legacy" \notin plan.reasons

\* _find_observer_context finds something: any stored context will do when
\* the request names no group.
ObserverContexts(r) ==
    {t \in Targets :
        /\ contexts[t] # NoContext
        /\ ~OlderThan(contexts[t], Lookback)
        /\ r.group = NoId \/ contexts[t].group = r.group
        /\ r.source \in Routed(contexts[t].plan)
        /\ ~LegacyRepeatOnly(contexts[t].plan)}

\* _try_summary_or_observer_context
ArbitrateUnsolicited(r) ==
    /\ ~LiveContext(r)
    /\ CheckScheduledSystemTask(r)
    /\ \/ ScheduledTaskAllowed(r) /\ Return(r, TRUE, "scheduled")
       \/ /\ ~ScheduledTaskAllowed(r)
          /\ \/ SummaryAllowed(r) /\ Return(r, TRUE, "summary")
             \/ /\ ~SummaryAllowed(r)
                /\ \/ ObserverContexts(r) # {} /\ Return(r, TRUE, "observer")
                   \/ ObserverContexts(r) = {} /\ Return(r, FALSE, "unsolicited")
    /\ UNCHANGED <<now, groupBot, contexts, replyCooldowns, replied>>

Arbitrate(r) ==
    \/ ArbitrateByMode(r)
    \/ ArbitrateThrottled(r)
    \/ ArbitrateUnsolicited(r)

-----------------------------------------------------------------------------
(* The clock, and the whole *)

Tick ==
    /\ now < MaxTime
    /\ now' = now + 1
    /\ granted' = IF WindowAt(now + 1) = WindowAt(now) THEN granted ELSE Zero
    /\ verdict' = NoVerdict
    /\ UNCHANGED <<groupBot, contexts, replyCooldowns, scheduledCounts,
                   scheduledWindow, replied>>

\* Another part of the program takes a step; what _arbitrate returned is used.
ArbiterIdle ==
    /\ verdict' = NoVerdict
    /\ UNCHANGED <<now, groupBot, contexts, replyCooldowns, quotaVars, replied>>

Next ==
    \/ \E bot \in Bots \cup {NoId}, g \in Groups \cup {NoId}, u \in Users \cup {NoId},
          plan \in Plans \cup {NoPlan} : RecordEvent(bot, g, u, plan)
    \/ \E r \in Requests : Arbitrate(r)
    \/ Tick
    \/ ArbiterIdle

Spec == Init /\ [][Next]_vars

-----------------------------------------------------------------------------
(* Properties *)

Rules == Modes \cup {"scheduled", "summary", "observer", "unsolicited"}

Verdict == [request : Requests, allowed : BOOLEAN, rule : Rules]

Reply == [at : Nat, wait : Nat]

\* The type invariant of the proxy's dictionaries.
TypeOK ==
    /\ now \in 0..MaxTime
    /\ groupBot \in [Groups -> Bots \cup {NoId}]
    /\ contexts \in [Targets -> Context \cup {NoContext}]
    /\ replyCooldowns \in [Targets \X Downstreams -> Nat \cup {Never}]
    /\ scheduledCounts \in [Groups -> Nat]
    /\ scheduledWindow \in {WindowAt(t) : t \in 0..MaxTime} \cup {NoWindow}
    /\ verdict \in Verdict \cup {NoVerdict}
    /\ granted \in [Groups -> Nat]
    /\ replied \in [Targets \X Downstreams -> Seq(Reply)]

\* The scheduled-task whitelist lets at most ScheduledMax sends per group
\* through between an opening of a time window and its end, however the
\* limiter's lazy detection of window changes falls between requests
\* (_check_scheduled_system_task).
ScheduledCap == \A g \in Groups : granted[g] <= ScheduledMax

\* Why ScheduledCap holds: while the limiter's key is the current window it
\* has counted every send of this opening; until it has looked at the window
\* none was let through.
LimiterKeepsUp ==
    /\ \A g \in Groups : scheduledCounts[g] <= ScheduledMax
    /\ IF scheduledWindow = WindowAt(now)
       THEN \A g \in Groups : granted[g] <= scheduledCounts[g]
       ELSE granted = Zero

\* A context found under a key is that group's, or a private chat's: events of
\* one group are never filed under another (record_event).
FiledUnderOwnKey ==
    \A t \in Targets : contexts[t] # NoContext =>
       \/ contexts[t].group = t
       \/ contexts[t].group = NoId /\ t \in Users

\* The recent-observer rule of _try_summary_or_observer_context never lets a
\* GROUP message through: it is reached only when the group's own context is
\* missing or older than ContextTtl, and no other context carries its group.
NoObserverRescue ==
    verdict # NoVerdict /\ verdict.rule = "observer" => verdict.request.group = NoId

\* The context under key t is young and its event was sent to downstream d.
Fresh(t, d) ==
    /\ contexts[t] # NoContext
    /\ now - contexts[t].created <= ContextTtl
    /\ d \in Routed(contexts[t].plan)

\* A downstream that a policy lets through was a recipient of an event at most
\* ContextTtl old of the very chat it sends to, or, where a user has the number
\* of a group and the two share an entry, of the other one; the observer rule
\* asks for such an event of the same group, or of any chat when the request
\* names no group.
GrantHasFreshContext ==
    verdict # NoVerdict /\ verdict.allowed
    => LET r == verdict.request
           t == Target(r)
       IN  /\ verdict.rule \in {"exclusive", "first_valid", "gated"}
              => /\ t \in Targets /\ Fresh(t, r.source)
                 /\ contexts[t].group = r.group \/ t \in Groups \cap Users
           /\ verdict.rule = "observer"
              => \E k \in Targets : /\ Fresh(k, r.source)
                                    /\ r.group \in {NoId, contexts[k].group}

\* The cooldown of a downstream in a target survives the contexts it was
\* granted under: however events replace each other and contexts expire, a
\* throttled reply of a downstream to a target comes no sooner after any earlier
\* one than the policy it is granted under asks for.  It is stated of the
\* replies let through, whatever the stamps remember of them.
ThrottleSpacing ==
    \A key \in Targets \X Downstreams : \A i, j \in DOMAIN replied[key] :
       i < j => replied[key][j].at - replied[key][i].at >= replied[key][j].wait

\* A refused request costs nothing: it starts no cooldown and uses up none of
\* the scheduled-task quota of any group.
RefusalIsFree ==
    [][verdict' # NoVerdict /\ ~verdict'.allowed
       => /\ replyCooldowns' = replyCooldowns
          /\ \A g \in Groups : scheduledCounts'[g] <= scheduledCounts[g]]_vars

\* What api_proxy.py says of the limiter: it counts the sends within the
\* current window, so a whitelisted send is refused only when the quota of
\* this opening of the window is used up.
QuotaIsPerWindow ==
    [][\A r \in Requests :
         verdict' = [request |-> r, allowed |-> FALSE, rule |-> "unsolicited"]
         => ~ /\ ScheduledEnabled
              /\ Kind[r.source] \in ScheduledKinds
              /\ r.group \in ScheduledGroups
              /\ r.action \in ScheduledActions
              /\ WindowAt(now) # NoWindow
              /\ granted[r.group] < ScheduledMax]_vars

=============================================================================
