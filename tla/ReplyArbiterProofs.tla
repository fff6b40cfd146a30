-------------------------- MODULE ReplyArbiterProofs --------------------------
(***************************************************************************)
(* What ReplyArbiter promises for every number of groups, users,           *)
(* downstreams, every set of plans and every configuration of windows.     *)
(***************************************************************************)
EXTENDS ReplyArbiter, TLAPS

-----------------------------------------------------------------------------
(* The dictionaries keep their types. *)

LEMMA TypeInit == Init => TypeOK
  BY TimeAssumption DEF Init, TypeOK, Zero, NoWindow

LEMMA CountsNowType == TypeOK => CountsNow \in [Groups -> Nat]
  BY DEF TypeOK, CountsNow, Zero

LEMMA WindowIsKnown == now \in 0..MaxTime =>
                         WindowAt(now) \in {WindowAt(t) : t \in 0..MaxTime} \cup {NoWindow}
  OBVIOUS

\* The rate limiter's part of an arbitration keeps the limiter's types.
LEMMA LimiterType ==
  ASSUME TypeOK, NEW r \in Requests, CheckScheduledSystemTask(r)
  PROVE  /\ scheduledCounts' \in [Groups -> Nat]
         /\ granted' \in [Groups -> Nat]
         /\ scheduledWindow' \in {WindowAt(t) : t \in 0..MaxTime} \cup {NoWindow}
<1>1. CASE ~ScheduledEnabled
  BY <1>1 DEF CheckScheduledSystemTask, TypeOK, quotaVars
<1>2. CASE ScheduledEnabled
  <2>1. scheduledWindow' = WindowAt(now)
    BY <1>2 DEF CheckScheduledSystemTask
  <2>2. now \in 0..MaxTime
    BY DEF TypeOK
  <2>3. scheduledCounts' \in [Groups -> Nat]
    BY <1>2, CountsNowType DEF CheckScheduledSystemTask
  <2>4. granted' \in [Groups -> Nat]
    <3>1. granted \in [Groups -> Nat]
      BY DEF TypeOK
    <3> QED
      BY <1>2, <3>1 DEF CheckScheduledSystemTask
  <2> QED
    BY <2>1, <2>2, <2>3, <2>4, WindowIsKnown
<1> QED
  BY <1>1, <1>2

\* Only a request for a known group or user finds a context.
LEMMA LiveTarget ==
  ASSUME TypeOK, NEW r \in Requests, LiveContext(r)
  PROVE  /\ Target(r) \in Targets
         /\ CooldownKey(r) \in Targets \X Downstreams
         /\ contexts[Target(r)] \in Context
         /\ ContextFor(r) = contexts[Target(r)]
<1>1. r \in Request
  BY RequestsAssumption
<1>2. Target(r) # NoId /\ ContextFor(r) = contexts[Target(r)]
  BY DEF LiveContext, ContextFor
<1>3. Target(r) \in Targets
  BY <1>1, <1>2 DEF Target, Request, Targets
<1>4. contexts[Target(r)] \in Context
  BY <1>2, <1>3 DEF LiveContext, TypeOK
<1> QED
  BY <1>1, <1>2, <1>3, <1>4 DEF CooldownKey, Request

LEMMA ReturnType ==
  ASSUME NEW r \in Requests, NEW allowed \in BOOLEAN, NEW rule \in Rules,
         Return(r, allowed, rule)
  PROVE  verdict' \in Verdict
  BY DEF Return, Verdict

LEMMA CooldownType ==
  ASSUME TypeOK, NEW r \in Requests, LiveContext(r)
  PROVE  EffectiveCooldown(ContextFor(r).plan.policy) \in Nat
<1>1. ContextFor(r).plan.policy.cooldown \in Nat
  BY LiveTarget, PlansAssumption DEF Context
<1> QED
  BY <1>1, TimeAssumption DEF EffectiveCooldown

LEMMA RepliedType ==
  ASSUME TypeOK, NEW r \in Requests, LiveContext(r), NEW allowed \in BOOLEAN,
         NoteReply(r, allowed, ContextFor(r).plan.policy)
  PROVE  replied' \in [Targets \X Downstreams -> Seq(Reply)]
<1> DEFINE reply == [at |-> now, wait |-> EffectiveCooldown(ContextFor(r).plan.policy)]
<1>1. reply \in Reply
  BY CooldownType, TimeAssumption DEF TypeOK, Reply
<1>2. CooldownKey(r) \in Targets \X Downstreams
  BY LiveTarget
<1>3. replied \in [Targets \X Downstreams -> Seq(Reply)]
  BY DEF TypeOK
<1>4. Append(replied[CooldownKey(r)], reply) \in Seq(Reply)
  BY <1>1, <1>2, <1>3
<1>5. replied' = IF allowed
                 THEN [replied EXCEPT ![CooldownKey(r)] = Append(replied[CooldownKey(r)], reply)]
                 ELSE replied
  BY DEF NoteReply
<1> HIDE DEF reply
<1> QED
  BY <1>2, <1>3, <1>4, <1>5

LEMMA TypeNext == TypeOK /\ [Next]_vars => TypeOK'
<1> SUFFICES ASSUME TypeOK, [Next]_vars PROVE TypeOK'
  OBVIOUS
<1> USE DEF TypeOK
<1>1. ASSUME NEW bot \in Bots \cup {NoId}, NEW g \in Groups \cup {NoId},
             NEW u \in Users \cup {NoId}, NEW p \in Plans \cup {NoPlan},
             RecordEvent(bot, g, u, p)
      PROVE  TypeOK'
  <2>1. groupBot' \in [Groups -> Bots \cup {NoId}]
    BY <1>1 DEF RecordEvent
  <2>2. contexts' \in [Targets -> Context \cup {NoContext}]
    <3>1. CASE p = NoPlan \/ ContextKey(g, u) = NoId
      BY <1>1, <3>1 DEF RecordEvent
    <3>2. CASE ~(p = NoPlan \/ ContextKey(g, u) = NoId)
      <4>1. [group |-> g, plan |-> p, created |-> now] \in Context
        BY <1>1, <3>2 DEF Context
      <4> QED
        BY <1>1, <3>2, <4>1 DEF RecordEvent, NewContext
    <3> QED
      BY <3>1, <3>2
  <2> QED
    BY <1>1, <2>1, <2>2 DEF RecordEvent, quotaVars
<1>2. ASSUME NEW r \in Requests, ArbitrateByMode(r)
      PROVE  TypeOK'
  <2>1. verdict' \in Verdict
    BY <1>2 DEF ArbitrateByMode, Return, Verdict, Rules, Modes
  <2> QED
    BY <1>2, <2>1 DEF ArbitrateByMode, quotaVars
<1>3. ASSUME NEW r \in Requests, ArbitrateThrottled(r)
      PROVE  TypeOK'
  <2>1. verdict' \in Verdict
    <3> DEFINE policy == ContextFor(r).plan.policy
               allowed == r.source \in policy.allow /\ CooledDown(r, policy)
    <3>1. policy.mode \in Rules
      BY <1>3 DEF ArbitrateThrottled, Rules, Modes
    <3>2. Return(r, allowed, policy.mode)
      BY <1>3 DEF ArbitrateThrottled
    <3>3. allowed \in BOOLEAN
      OBVIOUS
    <3> QED
      BY <3>1, <3>2, <3>3, ReturnType
  <2>2. replyCooldowns' \in [Targets \X Downstreams -> Nat \cup {Never}]
    <3>1. CooldownKey(r) \in Targets \X Downstreams
      BY <1>3, LiveTarget DEF ArbitrateThrottled
    <3> QED
      BY <1>3, <3>1 DEF ArbitrateThrottled, StartCooldown
  <2>3. replied' \in [Targets \X Downstreams -> Seq(Reply)]
    BY <1>3, RepliedType DEF ArbitrateThrottled
  <2> QED
    BY <1>3, <2>1, <2>2, <2>3 DEF ArbitrateThrottled, quotaVars
<1>4. ASSUME NEW r \in Requests, ArbitrateUnsolicited(r)
      PROVE  TypeOK'
  <2>1. verdict' \in Verdict
    <3>1. \/ Return(r, TRUE, "scheduled") \/ Return(r, TRUE, "summary")
          \/ Return(r, TRUE, "observer") \/ Return(r, FALSE, "unsolicited")
      BY <1>4 DEF ArbitrateUnsolicited
    <3> QED
      BY <3>1, ReturnType DEF Rules
  <2> QED
    BY <1>4, <2>1, LimiterType DEF ArbitrateUnsolicited
<1>5. CASE Tick
  <2>1. now' \in 0..MaxTime
    BY <1>5, TimeAssumption DEF Tick
  <2> QED
    BY <1>5, <2>1 DEF Tick, Zero
<1>6. CASE ArbiterIdle
  BY <1>6 DEF ArbiterIdle, quotaVars
<1>7. CASE UNCHANGED vars
  BY <1>7 DEF vars
<1> QED
  BY <1>1, <1>2, <1>3, <1>4, <1>5, <1>6, <1>7 DEF Next, Arbitrate

\* The proxy's dictionaries keep their types (OneBotAPIProxy.__init__).
THEOREM TypeCorrect == Spec => []TypeOK
  BY TypeInit, TypeNext, PTL DEF Spec

-----------------------------------------------------------------------------
(* The scheduled-task whitelist. *)

LEMMA LimiterInit == Init => LimiterKeepsUp
  BY ScheduleAssumption DEF Init, LimiterKeepsUp, Zero

\* One look of the limiter at a request, allowed or not.
LEMMA LimiterCheck ==
  ASSUME TypeOK, LimiterKeepsUp, NEW r \in Requests, now' = now,
         CheckScheduledSystemTask(r)
  PROVE  LimiterKeepsUp'
<1>1. CASE ~ScheduledEnabled
  BY <1>1 DEF CheckScheduledSystemTask, LimiterKeepsUp, quotaVars, WindowAt
<1>2. CASE ScheduledEnabled
  <2>1. scheduledWindow' = WindowAt(now)'
    BY <1>2 DEF CheckScheduledSystemTask, WindowAt
  <2>2. \A g \in Groups : granted[g] <= CountsNow[g] /\ CountsNow[g] <= ScheduledMax
    BY ScheduleAssumption DEF LimiterKeepsUp, CountsNow, Zero, TypeOK
  <2>3. \A g \in Groups : granted'[g] <= scheduledCounts'[g]
                          /\ scheduledCounts'[g] <= ScheduledMax
    <3>1. CASE ScheduledTaskAllowed(r)
      <4>1. /\ scheduledCounts' = [CountsNow EXCEPT ![r.group] = @ + 1]
            /\ granted' = [granted EXCEPT ![r.group] = @ + 1]
            /\ CountsNow[r.group] < ScheduledMax
        BY <1>2, <3>1 DEF CheckScheduledSystemTask, ScheduledTaskAllowed
      <4> QED
        BY <4>1, <2>2, CountsNowType, ScheduleAssumption DEF TypeOK
    <3>2. CASE ~ScheduledTaskAllowed(r)
      BY <1>2, <3>2, <2>2 DEF CheckScheduledSystemTask
    <3> QED
      BY <3>1, <3>2
  <2> QED
    BY <2>1, <2>3 DEF LimiterKeepsUp
<1> QED
  BY <1>1, <1>2

LEMMA LimiterNext == TypeOK /\ LimiterKeepsUp /\ [Next]_vars => LimiterKeepsUp'
<1> SUFFICES ASSUME TypeOK, LimiterKeepsUp, [Next]_vars PROVE LimiterKeepsUp'
  OBVIOUS
<1>1. ASSUME UNCHANGED <<now, quotaVars>>
      PROVE  LimiterKeepsUp'
  BY <1>1 DEF LimiterKeepsUp, quotaVars, WindowAt
<1>2. ASSUME NEW bot \in Bots \cup {NoId}, NEW g \in Groups \cup {NoId},
             NEW u \in Users \cup {NoId}, NEW p \in Plans \cup {NoPlan},
             RecordEvent(bot, g, u, p)
      PROVE  LimiterKeepsUp'
  BY <1>1, <1>2 DEF RecordEvent, quotaVars
<1>3. ASSUME NEW r \in Requests, Arbitrate(r)
      PROVE  LimiterKeepsUp'
  <2>1. CASE ArbitrateByMode(r)
    BY <2>1, <1>1 DEF ArbitrateByMode
  <2>2. CASE ArbitrateThrottled(r)
    BY <2>2, <1>1 DEF ArbitrateThrottled
  <2>3. CASE ArbitrateUnsolicited(r)
    BY <2>3, LimiterCheck DEF ArbitrateUnsolicited
  <2> QED
    BY <1>3, <2>1, <2>2, <2>3 DEF Arbitrate
\* The clock may leave the window the limiter knows, or come back to it: then
\* the history starts again at zero, below whatever the limiter still holds.
<1>4. CASE Tick
  <2>1. WindowAt(now)' = WindowAt(now + 1)
    BY <1>4 DEF Tick, WindowAt
  <2>2. UNCHANGED <<scheduledCounts, scheduledWindow>>
    BY <1>4 DEF Tick
  <2>3. CASE WindowAt(now + 1) = WindowAt(now)
    BY <1>4, <2>1, <2>2, <2>3 DEF Tick, LimiterKeepsUp
  <2>4. CASE WindowAt(now + 1) # WindowAt(now)
    <3>1. granted' = Zero
      BY <1>4, <2>4 DEF Tick
    <3> QED
      BY <3>1, <2>1, <2>2 DEF LimiterKeepsUp, Zero, TypeOK
  <2> QED
    BY <2>3, <2>4
<1>5. CASE ArbiterIdle \/ UNCHANGED vars
  BY <1>5, <1>1 DEF ArbiterIdle, vars, quotaVars
<1> QED
  BY <1>2, <1>3, <1>4, <1>5 DEF Next

\* The limiter never loses count of the sends of the current opening of a
\* window (_check_scheduled_system_task).
THEOREM LimiterCorrect == Spec => []LimiterKeepsUp
  BY TypeInit, TypeNext, LimiterInit, LimiterNext, PTL DEF Spec

LEMMA CapFromLimiter == TypeOK /\ LimiterKeepsUp => ScheduledCap
  BY ScheduleAssumption DEF TypeOK, LimiterKeepsUp, ScheduledCap, Zero

\* At most ScheduledMax scheduled sends per group and opening of a window.
THEOREM CapCorrect == Spec => []ScheduledCap
  BY TypeCorrect, LimiterCorrect, CapFromLimiter, PTL

-----------------------------------------------------------------------------
(* Contexts. *)

LEMMA FiledInit == Init => FiledUnderOwnKey
  BY DEF Init, FiledUnderOwnKey

LEMMA FiledNext == TypeOK /\ FiledUnderOwnKey /\ [Next]_vars => FiledUnderOwnKey'
<1> SUFFICES ASSUME TypeOK, FiledUnderOwnKey, [Next]_vars PROVE FiledUnderOwnKey'
  OBVIOUS
<1>1. ASSUME UNCHANGED contexts
      PROVE  FiledUnderOwnKey'
  BY <1>1 DEF FiledUnderOwnKey
<1>2. ASSUME NEW bot \in Bots \cup {NoId}, NEW g \in Groups \cup {NoId},
             NEW u \in Users \cup {NoId}, NEW p \in Plans \cup {NoPlan},
             RecordEvent(bot, g, u, p)
      PROVE  FiledUnderOwnKey'
  <2>1. CASE p = NoPlan \/ ContextKey(g, u) = NoId
    BY <1>1, <1>2, <2>1 DEF RecordEvent
  <2>2. CASE ~(p = NoPlan \/ ContextKey(g, u) = NoId)
    <3>1. contexts' = [contexts EXCEPT ![ContextKey(g, u)] =
                         [group |-> g, plan |-> p, created |-> now]]
      BY <1>2, <2>2 DEF RecordEvent, NewContext
    <3>2. g = ContextKey(g, u) \/ (g = NoId /\ ContextKey(g, u) \in Users)
      BY <2>2 DEF ContextKey
    <3> QED
      BY <3>1, <3>2 DEF FiledUnderOwnKey, TypeOK
  <2> QED
    BY <2>1, <2>2
<1>3. ASSUME NEW r \in Requests, Arbitrate(r)
      PROVE  FiledUnderOwnKey'
  BY <1>1, <1>3 DEF Arbitrate, ArbitrateByMode, ArbitrateThrottled, ArbitrateUnsolicited
<1>4. CASE Tick
  BY <1>1, <1>4 DEF Tick
<1>5. CASE ArbiterIdle \/ UNCHANGED vars
  BY <1>1, <1>5 DEF ArbiterIdle, vars
<1> QED
  BY <1>2, <1>3, <1>4, <1>5 DEF Next

\* Events of one group are never filed under another (record_event).
THEOREM FiledCorrect == Spec => []FiledUnderOwnKey
  BY TypeInit, TypeNext, FiledInit, FiledNext, PTL DEF Spec

\* The heart of the matter: the observer rule is asked about a group only when
\* that group's context is too old for it, and no other key holds the group.
LEMMA NoContextLeft ==
  ASSUME TypeOK, FiledUnderOwnKey, NEW r \in Requests, ~LiveContext(r), r.group # NoId
  PROVE  ObserverContexts(r) = {}
<1> SUFFICES ASSUME NEW t \in ObserverContexts(r) PROVE FALSE
  OBVIOUS
<1>1. /\ t \in Targets
      /\ contexts[t] # NoContext
      /\ contexts[t].group = r.group
      /\ ~OlderThan(contexts[t], Lookback)
  BY DEF ObserverContexts
<1>2. t = r.group
  BY <1>1 DEF FiledUnderOwnKey
<1>3. ContextFor(r) = contexts[t]
  BY <1>2 DEF ContextFor, Target
<1>4. OlderThan(contexts[t], ContextTtl)
  BY <1>1, <1>3 DEF LiveContext
<1>5. contexts[t].created \in Nat /\ now \in Nat
  BY <1>1, TimeAssumption DEF TypeOK, Context
<1> QED
  BY <1>1, <1>4, <1>5, TimeAssumption DEF OlderThan

\* A live context under which the requester may reply is fresh, and of the chat
\* that is asked for unless two numbers collide.
LEMMA LiveContextServes ==
  ASSUME TypeOK, FiledUnderOwnKey, NEW r \in Requests,
         LiveContext(r), r.source \in ContextFor(r).plan.policy.allow
  PROVE  /\ Target(r) \in Targets /\ Fresh(Target(r), r.source)
         /\ contexts[Target(r)].group = r.group \/ Target(r) \in Groups \cap Users
<1> DEFINE t == Target(r)
<1>1. r \in Request
  BY RequestsAssumption
<1>2. t \in Targets /\ contexts[t] \in Context /\ ContextFor(r) = contexts[t]
  BY LiveTarget
<1>3. contexts[t] # NoContext /\ ~OlderThan(contexts[t], ContextTtl)
  BY <1>2 DEF LiveContext
<1>4. now - contexts[t].created <= ContextTtl
  BY <1>2, <1>3, TimeAssumption DEF OlderThan, Context, TypeOK
<1>5. r.source \in Routed(contexts[t].plan)
  BY <1>1, <1>2, PlansAssumption DEF Context, Request
<1>6. contexts[t].group = t \/ (contexts[t].group = NoId /\ t \in Users)
  BY <1>2, <1>3 DEF FiledUnderOwnKey
<1>7. contexts[t].group = r.group \/ t \in Groups \cap Users
  <2>1. CASE r.group = NoId
    <3>1. t = r.user /\ t \in Users
      BY <1>1, <1>2, <2>1, IdsAssumption DEF Target, Request, Targets
    <3>2. contexts[t].group \in Groups \cup {NoId}
      BY <1>2 DEF Context
    <3> QED
      BY <1>6, <2>1, <3>1, <3>2, IdsAssumption
  <2>2. CASE r.group # NoId
    <3>1. t = r.group /\ t \in Groups
      BY <1>1, <2>2 DEF Target, Request
    <3> QED
      BY <1>6, <3>1
  <2> QED
    BY <2>1, <2>2
<1> QED
  BY <1>2, <1>3, <1>4, <1>5, <1>7 DEF Fresh

\* So is every context the observer rule finds.
LEMMA ObserverServes ==
  ASSUME TypeOK, NEW r \in Requests, NEW t \in ObserverContexts(r)
  PROVE  t \in Targets /\ Fresh(t, r.source) /\ r.group \in {NoId, contexts[t].group}
<1>1. /\ t \in Targets
      /\ contexts[t] # NoContext
      /\ ~OlderThan(contexts[t], Lookback)
      /\ r.group = NoId \/ contexts[t].group = r.group
      /\ r.source \in Routed(contexts[t].plan)
  BY DEF ObserverContexts
<1>2. contexts[t].created \in Nat /\ now \in Nat
  BY <1>1, TimeAssumption DEF TypeOK, Context
<1>3. now - contexts[t].created <= ContextTtl
  BY <1>1, <1>2, TimeAssumption DEF OlderThan
<1> QED
  BY <1>1, <1>3 DEF Fresh

LEMMA RescueNext ==
  TypeOK /\ FiledUnderOwnKey /\ NoObserverRescue /\ [Next]_vars => NoObserverRescue'
<1> SUFFICES ASSUME TypeOK, FiledUnderOwnKey, NoObserverRescue, [Next]_vars
             PROVE  NoObserverRescue'
  OBVIOUS
<1>1. ASSUME verdict' = NoVerdict
      PROVE  NoObserverRescue'
  BY <1>1 DEF NoObserverRescue
<1>2. ASSUME NEW bot \in Bots \cup {NoId}, NEW g \in Groups \cup {NoId},
             NEW u \in Users \cup {NoId}, NEW p \in Plans \cup {NoPlan},
             RecordEvent(bot, g, u, p)
      PROVE  NoObserverRescue'
  BY <1>1, <1>2 DEF RecordEvent
<1>3. ASSUME NEW r \in Requests, ArbitrateByMode(r) \/ ArbitrateThrottled(r)
      PROVE  NoObserverRescue'
  <2>1. verdict'.rule # "observer"
    BY <1>3 DEF ArbitrateByMode, ArbitrateThrottled, Return
  <2> QED
    BY <2>1 DEF NoObserverRescue
<1>4. ASSUME NEW r \in Requests, ArbitrateUnsolicited(r)
      PROVE  NoObserverRescue'
  <2>1. CASE r.group = NoId
    <3>1. verdict'.request = r
      BY <1>4 DEF ArbitrateUnsolicited, Return
    <3> QED
      BY <2>1, <3>1 DEF NoObserverRescue
  <2>2. CASE r.group # NoId
    <3>1. ObserverContexts(r) = {}
      BY <1>4, <2>2, NoContextLeft DEF ArbitrateUnsolicited
    <3>2. verdict'.rule # "observer"
      BY <1>4, <3>1 DEF ArbitrateUnsolicited, Return
    <3> QED
      BY <3>2 DEF NoObserverRescue
  <2> QED
    BY <2>1, <2>2
<1>5. CASE Tick \/ ArbiterIdle
  BY <1>1, <1>5 DEF Tick, ArbiterIdle
<1>6. CASE UNCHANGED vars
  BY <1>6 DEF vars, NoObserverRescue
<1> QED
  BY <1>2, <1>3, <1>4, <1>5, <1>6 DEF Next, Arbitrate

\* The recent-observer rule never lets a group message through.
THEOREM RescueCorrect == Spec => []NoObserverRescue
<1>1. Init => NoObserverRescue
  BY DEF Init, NoObserverRescue
<1> QED
  BY <1>1, TypeCorrect, FiledCorrect, RescueNext, PTL DEF Spec

LEMMA GrantNext ==
  TypeOK /\ FiledUnderOwnKey /\ GrantHasFreshContext /\ [Next]_vars
  => GrantHasFreshContext'
<1> SUFFICES ASSUME TypeOK, FiledUnderOwnKey, GrantHasFreshContext, [Next]_vars
             PROVE  GrantHasFreshContext'
  OBVIOUS
<1>1. ASSUME verdict' = NoVerdict
      PROVE  GrantHasFreshContext'
  BY <1>1 DEF GrantHasFreshContext
<1>2. ASSUME NEW bot \in Bots \cup {NoId}, NEW g \in Groups \cup {NoId},
             NEW u \in Users \cup {NoId}, NEW p \in Plans \cup {NoPlan},
             RecordEvent(bot, g, u, p)
      PROVE  GrantHasFreshContext'
  BY <1>1, <1>2 DEF RecordEvent
\* An arbitration leaves contexts and the clock alone: what serves a request
\* before the step serves it after.
<1>3. ASSUME NEW r \in Requests, verdict'.request = r, UNCHANGED <<now, contexts>>,
             LiveContext(r), r.source \in ContextFor(r).plan.policy.allow,
             verdict'.rule # "observer"
      PROVE  GrantHasFreshContext'
  <2>1. /\ Target(r) \in Targets /\ Fresh(Target(r), r.source)
        /\ contexts[Target(r)].group = r.group \/ Target(r) \in Groups \cap Users
    BY <1>3, LiveContextServes
  <2>2. Fresh(Target(r), r.source)'
    BY <1>3, <2>1 DEF Fresh
  <2> QED
    BY <1>3, <2>1, <2>2 DEF GrantHasFreshContext
<1>4. ASSUME NEW r \in Requests, ArbitrateByMode(r)
      PROVE  GrantHasFreshContext'
  <2> DEFINE policy == ContextFor(r).plan.policy
  <2>1. verdict'.request = r /\ UNCHANGED <<now, contexts>> /\ LiveContext(r)
    BY <1>4 DEF ArbitrateByMode, Return
  <2>2. CASE r.source \in policy.allow
    <3>1. verdict'.rule # "observer"
      BY <1>4 DEF ArbitrateByMode, Return
    <3> QED
      BY <2>1, <2>2, <3>1, <1>3
  <2>3. CASE r.source \notin policy.allow
    <3>1. /\ verdict'.rule = policy.mode
          /\ verdict'.allowed => policy.mode \in {"none", "allow_all"}
      BY <1>4, <2>3 DEF ArbitrateByMode, Return
    <3> QED
      BY <3>1 DEF GrantHasFreshContext
  <2> QED
    BY <2>2, <2>3
<1>5. ASSUME NEW r \in Requests, ArbitrateThrottled(r)
      PROVE  GrantHasFreshContext'
  <2> DEFINE policy == ContextFor(r).plan.policy
  <2>1. verdict'.request = r /\ UNCHANGED <<now, contexts>> /\ LiveContext(r)
    BY <1>5 DEF ArbitrateThrottled, Return
  <2>2. CASE r.source \in policy.allow
    <3>1. verdict'.rule # "observer"
      BY <1>5 DEF ArbitrateThrottled, Return
    <3> QED
      BY <2>1, <2>2, <3>1, <1>3
  <2>3. CASE r.source \notin policy.allow
    <3>1. ~verdict'.allowed
      BY <1>5, <2>3 DEF ArbitrateThrottled, Return
    <3> QED
      BY <3>1 DEF GrantHasFreshContext
  <2> QED
    BY <2>2, <2>3
<1>6. ASSUME NEW r \in Requests, ArbitrateUnsolicited(r)
      PROVE  GrantHasFreshContext'
  <2>1. verdict'.request = r /\ UNCHANGED <<now, contexts>>
    BY <1>6 DEF ArbitrateUnsolicited, Return
  <2>2. CASE ObserverContexts(r) # {}
    <3>1. PICK t \in ObserverContexts(r) : TRUE
      BY <2>2
    <3>2. t \in Targets /\ Fresh(t, r.source)' /\ r.group \in {NoId, contexts'[t].group}
      BY <2>1, <3>1, ObserverServes DEF Fresh
    <3>3. verdict'.rule \in {"scheduled", "summary", "observer"}
      BY <1>6, <2>2 DEF ArbitrateUnsolicited, Return
    <3> QED
      BY <2>1, <3>2, <3>3 DEF GrantHasFreshContext
  <2>3. CASE ObserverContexts(r) = {}
    <3>1. verdict'.rule \in {"scheduled", "summary", "unsolicited"}
      BY <1>6, <2>3 DEF ArbitrateUnsolicited, Return
    <3> QED
      BY <3>1 DEF GrantHasFreshContext
  <2> QED
    BY <2>2, <2>3
<1>7. CASE Tick \/ ArbiterIdle
  BY <1>1, <1>7 DEF Tick, ArbiterIdle
<1>8. CASE UNCHANGED vars
  BY <1>8 DEF vars, GrantHasFreshContext, Fresh
<1> QED
  BY <1>2, <1>4, <1>5, <1>6, <1>7, <1>8 DEF Next, Arbitrate

\* Whoever is let through by a policy was sent an event at most ContextTtl old of
\* the chat it answers in, unless a user has the number of a group, and by the
\* observer rule one of the group it names, or of any chat if it names none.
THEOREM GrantCorrect == Spec => []GrantHasFreshContext
<1>1. Init => GrantHasFreshContext
  BY DEF Init, GrantHasFreshContext
<1> QED
  BY <1>1, TypeCorrect, FiledCorrect, GrantNext, PTL DEF Spec

-----------------------------------------------------------------------------
(* What steps never do. *)

\* The stamp of a downstream in a target is no older than any throttled reply
\* that was let through.
StampsInv ==
    \A key \in Targets \X Downstreams :
       /\ replyCooldowns[key] # Never => replyCooldowns[key] <= now
       /\ \A i \in DOMAIN replied[key] :
            replyCooldowns[key] # Never /\ replied[key][i].at <= replyCooldowns[key]

\* One throttled reply more.
LEMMA ReplyLetThrough ==
  ASSUME TypeOK, StampsInv, ThrottleSpacing, NEW r \in Requests, ArbitrateThrottled(r),
         r.source \in ContextFor(r).plan.policy.allow, CooledDown(r, ContextFor(r).plan.policy)
  PROVE  StampsInv' /\ ThrottleSpacing'
<1> DEFINE k == CooldownKey(r)
           wait == EffectiveCooldown(ContextFor(r).plan.policy)
           reply == [at |-> now, wait |-> wait]
           s == replied[k]
<1>1. LiveContext(r) /\ k \in Targets \X Downstreams /\ wait \in Nat /\ now \in Nat /\ now' = now
  BY LiveTarget, CooldownType, TimeAssumption DEF ArbitrateThrottled, TypeOK
<1>2. /\ replyCooldowns' = [replyCooldowns EXCEPT ![k] = now]
      /\ replied' = [replied EXCEPT ![k] = Append(s, reply)]
      /\ replyCooldowns[k] = Never \/ now - replyCooldowns[k] >= wait
  BY DEF ArbitrateThrottled, StartCooldown, NoteReply, CooledDown
<1>3. /\ replied \in [Targets \X Downstreams -> Seq(Reply)] /\ s \in Seq(Reply)
      /\ replyCooldowns \in [Targets \X Downstreams -> Nat \cup {Never}]
      /\ \A i \in DOMAIN s : s[i].at \in Nat
  <2>1. replied \in [Targets \X Downstreams -> Seq(Reply)]
    BY DEF TypeOK
  <2>2. s \in Seq(Reply)
    BY <1>1, <2>1
  <2>3. replyCooldowns \in [Targets \X Downstreams -> Nat \cup {Never}]
    BY DEF TypeOK
  <2> HIDE DEF s
  <2>4. \A i \in DOMAIN s : s[i] \in Reply
    BY <2>2
  <2> QED
    BY <2>1, <2>2, <2>3, <2>4 DEF Reply
<1>4. /\ reply.at = now /\ reply.wait = wait
  OBVIOUS
<1>5. ASSUME NEW i \in DOMAIN s PROVE now - s[i].at >= wait
  <2>1. replyCooldowns[k] # Never /\ s[i].at <= replyCooldowns[k]
    BY <1>1, <1>5 DEF StampsInv
  <2> QED
    BY <1>1, <1>2, <1>3, <2>1
<1> HIDE DEF k, wait, reply, s
<1>6. /\ DOMAIN Append(s, reply) = 1..(Len(s) + 1) /\ DOMAIN s = 1..Len(s)
      /\ \A i \in DOMAIN s : Append(s, reply)[i] = s[i]
      /\ Append(s, reply)[Len(s) + 1] = reply /\ Len(s) \in Nat
  BY <1>3
<1>7. s = replied[k]
  BY DEF s
<1>8. ASSUME NEW key \in Targets \X Downstreams, key # k
      PROVE  replied'[key] = replied[key] /\ replyCooldowns'[key] = replyCooldowns[key]
  BY <1>2, <1>3, <1>8
<1>9. replied'[k] = Append(s, reply) /\ replyCooldowns'[k] = now
  BY <1>1, <1>2, <1>3
<1>10. StampsInv'
  <2> SUFFICES ASSUME NEW key \in Targets \X Downstreams
               PROVE  /\ replyCooldowns'[key] # Never => replyCooldowns'[key] <= now'
                      /\ \A i \in DOMAIN replied'[key] :
                           /\ replyCooldowns'[key] # Never
                           /\ replied'[key][i].at <= replyCooldowns'[key]
    BY DEF StampsInv
  <2>1. CASE key # k
    BY <1>1, <1>8, <2>1 DEF StampsInv
  <2>2. CASE key = k
    <3>1. now # Never
      BY <1>1, AbsentAssumption
    <3>2. \A i \in DOMAIN s : s[i].at <= now
      BY <1>1, <1>3, <1>5
    <3>3. \A i \in 1..(Len(s) + 1) : Append(s, reply)[i].at <= now
      BY <1>1, <1>4, <1>6, <3>2
    <3> QED
      BY <1>1, <1>6, <1>9, <2>2, <3>1, <3>3
  <2> QED
    BY <2>1, <2>2
<1>11. ThrottleSpacing'
  <2> SUFFICES ASSUME NEW key \in Targets \X Downstreams,
                      NEW i \in DOMAIN replied'[key], NEW j \in DOMAIN replied'[key], i < j
               PROVE  replied'[key][j].at - replied'[key][i].at >= replied'[key][j].wait
    BY DEF ThrottleSpacing
  <2>1. CASE key # k
    BY <1>8, <2>1 DEF ThrottleSpacing
  <2>2. CASE key = k /\ j \in DOMAIN s
    <3>1. i \in DOMAIN s
      BY <1>6, <1>9, <2>2
    <3>2. replied'[key][i] = s[i] /\ replied'[key][j] = s[j]
      BY <1>6, <1>9, <2>2, <3>1
    <3> QED
      BY <1>1, <1>7, <2>2, <3>1, <3>2 DEF ThrottleSpacing
  <2>3. CASE key = k /\ j \notin DOMAIN s
    <3>1. j = Len(s) + 1 /\ i \in DOMAIN s
      BY <1>6, <1>9, <2>3
    <3>2. replied'[key][j] = reply /\ replied'[key][i] = s[i]
      BY <1>6, <1>9, <2>3, <3>1
    <3> QED
      BY <1>4, <1>5, <3>1, <3>2
  <2> QED
    BY <2>1, <2>2, <2>3
<1> QED
  BY <1>10, <1>11

LEMMA ThrottleNext ==
  TypeOK /\ StampsInv /\ ThrottleSpacing /\ [Next]_vars => StampsInv' /\ ThrottleSpacing'
<1> SUFFICES ASSUME TypeOK, StampsInv, ThrottleSpacing, [Next]_vars
             PROVE  StampsInv' /\ ThrottleSpacing'
  OBVIOUS
<1>1. ASSUME UNCHANGED <<replyCooldowns, replied>>, now' \in {now, now + 1}
      PROVE  StampsInv' /\ ThrottleSpacing'
  <2>1. \A key \in Targets \X Downstreams :
          replyCooldowns[key] # Never => replyCooldowns[key] \in Nat /\ replyCooldowns[key] <= now'
    BY <1>1, TimeAssumption DEF StampsInv, TypeOK
  <2> QED
    BY <1>1, <2>1 DEF StampsInv, ThrottleSpacing
<1>2. ASSUME NEW r \in Requests, ArbitrateThrottled(r)
      PROVE  StampsInv' /\ ThrottleSpacing'
  <2> DEFINE allowed == /\ r.source \in ContextFor(r).plan.policy.allow
                        /\ CooledDown(r, ContextFor(r).plan.policy)
  <2>1. CASE allowed
    BY <1>2, <2>1, ReplyLetThrough
  <2>2. CASE ~allowed
    BY <1>1, <1>2, <2>2 DEF ArbitrateThrottled, StartCooldown, NoteReply
  <2> QED
    BY <2>1, <2>2
<1>3. ASSUME NEW r \in Requests, ArbitrateByMode(r) \/ ArbitrateUnsolicited(r)
      PROVE  StampsInv' /\ ThrottleSpacing'
  BY <1>1, <1>3 DEF ArbitrateByMode, ArbitrateUnsolicited
<1>4. ASSUME NEW bot \in Bots \cup {NoId}, NEW g \in Groups \cup {NoId},
             NEW u \in Users \cup {NoId}, NEW p \in Plans \cup {NoPlan},
             RecordEvent(bot, g, u, p)
      PROVE  StampsInv' /\ ThrottleSpacing'
  BY <1>1, <1>4 DEF RecordEvent
<1>5. CASE Tick \/ ArbiterIdle \/ UNCHANGED vars
  BY <1>1, <1>5 DEF Tick, ArbiterIdle, vars
<1> QED
  BY <1>2, <1>3, <1>4, <1>5 DEF Next, Arbitrate

\* A throttled reply comes no sooner after any earlier one of its downstream to
\* its target than its policy asks for, whatever happens to the contexts.
THEOREM ThrottleCorrect == Spec => []ThrottleSpacing
<1>1. Init => StampsInv /\ ThrottleSpacing
  BY DEF Init, StampsInv, ThrottleSpacing
<1> QED
  BY <1>1, TypeCorrect, ThrottleNext, PTL DEF Spec

\* What a stamp says is true: a throttled reply was let through then.
StampedReplies ==
    \A key \in Targets \X Downstreams : replyCooldowns[key] # Never =>
       \E n \in DOMAIN replied[key] : replied[key][n].at = replyCooldowns[key]

LEMMA StampedInit == Init => StampedReplies
  BY DEF Init, StampedReplies

LEMMA StampedNext == TypeOK /\ StampedReplies /\ [Next]_vars => StampedReplies'
<1> SUFFICES ASSUME TypeOK, StampedReplies, [Next]_vars PROVE StampedReplies'
  OBVIOUS
<1>1. CASE UNCHANGED <<replyCooldowns, replied>>
  BY <1>1 DEF StampedReplies
<1>2. ASSUME NEW r \in Requests, ArbitrateThrottled(r)
      PROVE  StampedReplies'
  <2> DEFINE policy == ContextFor(r).plan.policy
             reply == [at |-> now, wait |-> EffectiveCooldown(policy)]
             k == CooldownKey(r)
  <2>1. CASE ~(r.source \in policy.allow /\ CooledDown(r, policy))
    BY <1>1, <1>2, <2>1 DEF ArbitrateThrottled, StartCooldown, NoteReply
  <2>2. CASE r.source \in policy.allow /\ CooledDown(r, policy)
    <3>1. /\ replyCooldowns' = [replyCooldowns EXCEPT ![k] = now]
          /\ replied' = [replied EXCEPT ![k] = Append(@, reply)]
      BY <1>2, <2>2 DEF ArbitrateThrottled, StartCooldown, NoteReply
    <3>2. k \in Targets \X Downstreams /\ reply.at = now
      BY <1>2, LiveTarget DEF ArbitrateThrottled
    <3>3. replied \in [Targets \X Downstreams -> Seq(Reply)]
          /\ replyCooldowns \in [Targets \X Downstreams -> Nat \cup {Never}]
      BY DEF TypeOK
    <3> HIDE DEF k, reply
    <3>4. replied[k] \in Seq(Reply)
      BY <3>2, <3>3
    <3>5. replyCooldowns'[k] = now /\ replied'[k] = Append(replied[k], reply)
      BY <3>1, <3>2, <3>3
    <3>6. \E n \in DOMAIN replied'[k] : replied'[k][n].at = now
      <4>1. /\ Len(replied[k]) + 1 \in DOMAIN Append(replied[k], reply)
            /\ Append(replied[k], reply)[Len(replied[k]) + 1] = reply
        BY <3>4
      <4> QED
        BY <4>1, <3>2, <3>5
    <3>7. \A key \in (Targets \X Downstreams) \ {k} :
             replyCooldowns'[key] = replyCooldowns[key] /\ replied'[key] = replied[key]
      BY <3>1, <3>3
    <3> QED
      BY <3>5, <3>6, <3>7 DEF StampedReplies
  <2> QED
    BY <2>1, <2>2
<1>3. ASSUME NEW r \in Requests, ArbitrateByMode(r) \/ ArbitrateUnsolicited(r)
      PROVE  StampedReplies'
  BY <1>1, <1>3 DEF ArbitrateByMode, ArbitrateUnsolicited
<1>4. ASSUME NEW bot \in Bots \cup {NoId}, NEW g \in Groups \cup {NoId},
             NEW u \in Users \cup {NoId}, NEW p \in Plans \cup {NoPlan},
             RecordEvent(bot, g, u, p)
      PROVE  StampedReplies'
  BY <1>1, <1>4 DEF RecordEvent
<1>5. CASE Tick \/ ArbiterIdle \/ UNCHANGED vars
  BY <1>1, <1>5 DEF Tick, ArbiterIdle, vars
<1> QED
  BY <1>2, <1>3, <1>4, <1>5 DEF Next, Arbitrate

LEMMA RefusalStep ==
  TypeOK /\ [Next]_vars
  => (verdict' # NoVerdict /\ ~verdict'.allowed
      => /\ replyCooldowns' = replyCooldowns
         /\ \A g \in Groups : scheduledCounts'[g] <= scheduledCounts[g])
<1> SUFFICES ASSUME TypeOK, [Next]_vars, verdict' # NoVerdict, ~verdict'.allowed
             PROVE  /\ replyCooldowns' = replyCooldowns
                    /\ \A g \in Groups : scheduledCounts'[g] <= scheduledCounts[g]
  OBVIOUS
<1>1. ASSUME UNCHANGED <<replyCooldowns, scheduledCounts>>
      PROVE  /\ replyCooldowns' = replyCooldowns
             /\ \A g \in Groups : scheduledCounts'[g] <= scheduledCounts[g]
  BY <1>1 DEF TypeOK
<1>2. ASSUME NEW r \in Requests, ArbitrateByMode(r)
      PROVE  UNCHANGED <<replyCooldowns, scheduledCounts>>
  BY <1>2 DEF ArbitrateByMode, quotaVars
<1>3. ASSUME NEW r \in Requests, ArbitrateThrottled(r)
      PROVE  UNCHANGED <<replyCooldowns, scheduledCounts>>
  BY <1>3 DEF ArbitrateThrottled, StartCooldown, Return, quotaVars
<1>4. ASSUME NEW r \in Requests, ArbitrateUnsolicited(r)
      PROVE  /\ replyCooldowns' = replyCooldowns
             /\ \A g \in Groups : scheduledCounts'[g] <= scheduledCounts[g]
  <2>1. ~ScheduledTaskAllowed(r)
    BY <1>4 DEF ArbitrateUnsolicited, Return
  <2>2. scheduledCounts' \in {scheduledCounts, CountsNow}
    BY <1>4, <2>1 DEF ArbitrateUnsolicited, CheckScheduledSystemTask, quotaVars
  <2>3. \A g \in Groups : CountsNow[g] <= scheduledCounts[g]
    BY DEF CountsNow, Zero, TypeOK
  <2> QED
    BY <1>4, <2>2, <2>3 DEF ArbitrateUnsolicited, TypeOK
<1> QED
  BY <1>1, <1>2, <1>3, <1>4
  DEF Next, Arbitrate, RecordEvent, Tick, ArbiterIdle, quotaVars, vars

\* A refused request starts no cooldown and uses up no quota.
THEOREM RefusalCorrect == Spec => RefusalIsFree
  BY TypeCorrect, RefusalStep, PTL DEF Spec, RefusalIsFree

=============================================================================
