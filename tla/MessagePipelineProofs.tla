------------------------ MODULE MessagePipelineProofs ------------------------
(***************************************************************************)
(* Proofs about MessagePipeline: what a plan allows is what it sends, the  *)
(* observers' policies join, a command is one service's, and the three     *)
(* repeat filters agree, whatever the rules, the observers' settings, the  *)
(* downstreams and the messages are.                                       *)
(***************************************************************************)
EXTENDS MessagePipeline, TLAPS, WellFoundedInduction, FiniteSetTheorems, SequenceTheorems

-----------------------------------------------------------------------------
(* The invariant: the plan is PlanFor of the message.                       *)

\* What process() returned for the last message: the reply gate's override is
\* only for messages that mention the bot and are no command.
PlanIsFor(m) ==
    \/ plan = PlanFor(m, FALSE)
    \/ m.handler = "none" /\ plan = PlanFor(m, TRUE)

PlanInv ==
    /\ message \in Messages \cup {NoMessage}
    /\ message # NoMessage => PlanIsFor(message)

LEMMA GateIsForMentions ==
  ASSUME NEW m, GateTriggers(m)
  PROVE  m.handler = "none"
BY DEF GateTriggers

THEOREM PlanInvariant == Spec => []PlanInv
<1>1. Init => PlanInv
  BY DEF Init, PlanInv
<1>2. PlanInv /\ [Next]_vars => PlanInv'
  <2> SUFFICES ASSUME PlanInv, [Next]_vars PROVE PlanInv'
    OBVIOUS
  <2>1. ASSUME NEW m \in Messages, ProcessMessage(m) PROVE PlanInv'
    <3>1. message' = m /\ plan' = PlanFor(m, GateTriggers(m))
      BY <2>1 DEF ProcessMessage
    <3>2. CASE GateTriggers(m)
      <4>1. plan' = PlanFor(m, TRUE)
        BY <3>1, <3>2 DEF PlanFor
      <4> QED
        BY <3>1, <3>2, <4>1, GateIsForMentions DEF PlanInv, PlanIsFor
    <3>3. CASE ~GateTriggers(m)
      <4>1. plan' = PlanFor(m, FALSE)
        BY <3>1, <3>3 DEF PlanFor
      <4> QED
        BY <3>1, <4>1 DEF PlanInv, PlanIsFor
    <3> QED
      BY <3>2, <3>3
  <2>2. CASE ProcessOther
    BY <2>2 DEF ProcessOther, PlanInv
  <2>3. CASE Tick \/ UNCHANGED vars
    BY <2>3 DEF Tick, PlanInv, PlanIsFor, vars
  <2> QED
    BY <2>1, <2>2, <2>3 DEF Next
<1> QED
  BY <1>1, <1>2, PTL DEF Spec

-----------------------------------------------------------------------------
(* The plans that route() builds observer by observer.                      *)

Names == LinkTargets \cup CardTargets \cup SummaryTargets \cup LegacyTargets

Request == [to : SUBSET Names, mode : {"gated", "first_valid"}, wait : Nat]

Policy == [mode : {"none", "gated", "first_valid"}, allow : SUBSET Names, cooldown : Nat]

Reasons == {"link", "card", "summary", "astrbot_repeat_observer_legacy"}

ObserverPlan ==
    [strategy : {"silent"}, primary : {{}}, observer : SUBSET Names,
     internal : SUBSET {"klee_core.repeat"}, handler : {"none"}, policy : Policy,
     reasons : SUBSET Reasons]

Wanted(asked) == UNION {o.to : o \in asked}

Waits(asked) == {o.wait : o \in asked} \ {0}

\* c is the least of some waits, or 0 for none.
IsLeast(c, waits) ==
    IF waits = {} THEN c = 0 ELSE c \in waits /\ \A w \in waits : c <= w

\* p is the plan of the observers that asked.
Merged(p, asked) ==
    /\ p \in ObserverPlan
    /\ asked \subseteq Request
    /\ p.observer = Wanted(asked)
    /\ p.policy.allow = Wanted(asked)
    /\ IsLeast(p.policy.cooldown, Waits(asked))
    /\ p.policy.mode = IF asked = {} THEN "none"
                       ELSE IF \E o \in asked : o.mode = "first_valid"
                            THEN "first_valid" ELSE "gated"

LEMMA ShorterIsLeast ==
  ASSUME NEW c \in Nat, NEW waits \in SUBSET (Nat \ {0}), IsLeast(c, waits), NEW w \in Nat
  PROVE  /\ Shorter(c, w) \in Nat
         /\ IsLeast(Shorter(c, w), waits \cup ({w} \ {0}))
<1>1. CASE w = 0
  <2>1. waits \cup ({w} \ {0}) = waits
    BY <1>1
  <2> QED
    BY <1>1, <2>1 DEF IsLeast, Shorter
<1>2. CASE w # 0 /\ waits = {}
  BY <1>2 DEF IsLeast, Shorter
<1>3. CASE w # 0 /\ waits # {}
  <2>1. c # 0 /\ c \in waits /\ \A v \in waits : c <= v
    BY <1>3 DEF IsLeast
  <2>2. waits \cup ({w} \ {0}) = waits \cup {w}
    BY <1>3
  <2>3. \A v \in waits : v \in Nat
    OBVIOUS
  <2> QED
    BY <1>3, <2>1, <2>2, <2>3 DEF IsLeast, Shorter
<1> QED
  BY <1>1, <1>2, <1>3

LEMMA StrongerOfTwo ==
  ASSUME NEW a \in {"gated", "first_valid"}, NEW b \in {"gated", "first_valid"}
  PROVE  Stronger(a, b) = IF "first_valid" \in {a, b} THEN "first_valid" ELSE "gated"
BY DEF Stronger, ModeOrder

\* An observer more: its targets, mode and wait join those of the others.
LEMMA ObserveMerges ==
  ASSUME NEW p, NEW asked, Merged(p, asked),
         NEW targets \in SUBSET Names, NEW reason \in Reasons,
         NEW mode \in {"gated", "first_valid"}, NEW wait \in Nat
  PROVE  Merged(Observe(p, targets, reason, mode, wait),
                asked \cup {[to |-> targets, mode |-> mode, wait |-> wait]})
<1> DEFINE o == [to |-> targets, mode |-> mode, wait |-> wait]
<1> DEFINE r == MergeObserverTargets(p, targets, reason)
<1> DEFINE q == Observe(p, targets, reason, mode, wait)
<1>1. p \in ObserverPlan /\ p.policy \in Policy /\ p.primary = {}
  BY DEF Merged, ObserverPlan
<1>2. /\ r \in ObserverPlan /\ r.policy = p.policy
      /\ r.observer = p.observer \cup targets
  BY <1>1 DEF MergeObserverTargets, ObserverPlan
<1>3. o \in Request /\ o.to = targets /\ o.mode = mode /\ o.wait = wait
  BY DEF Request
<1>4. Wanted(asked \cup {o}) = Wanted(asked) \cup targets
  BY <1>3 DEF Wanted
<1>5. Waits(asked \cup {o}) = Waits(asked) \cup ({wait} \ {0})
  BY <1>3 DEF Waits
<1>6. q = [r EXCEPT !.policy =
             [mode |-> IF p.policy.mode = "none" THEN mode ELSE Stronger(p.policy.mode, mode),
              allow |-> p.policy.allow \cup r.observer,
              cooldown |-> Shorter(p.policy.cooldown, wait)]]
  BY <1>2 DEF Observe, ApplyObserverPolicy
<1>7. /\ q.observer = r.observer
      /\ q.policy.allow = p.policy.allow \cup r.observer
      /\ q.policy.cooldown = Shorter(p.policy.cooldown, wait)
      /\ q.policy.mode = IF p.policy.mode = "none" THEN mode ELSE Stronger(p.policy.mode, mode)
  BY <1>2, <1>6 DEF ObserverPlan
<1>8. Waits(asked) \in SUBSET (Nat \ {0})
  BY DEF Merged, Waits, Request
<1>9. /\ q.policy.cooldown \in Nat
      /\ IsLeast(q.policy.cooldown, Waits(asked \cup {o}))
  <2>1. p.policy.cooldown \in Nat /\ IsLeast(p.policy.cooldown, Waits(asked))
    BY <1>1 DEF Merged, Policy
  <2>2. /\ Shorter(p.policy.cooldown, wait) \in Nat
        /\ IsLeast(Shorter(p.policy.cooldown, wait), Waits(asked) \cup ({wait} \ {0}))
    BY <1>8, <2>1, ShorterIsLeast
  <2> QED
    BY <1>5, <1>7, <2>2
<1>10. /\ q.observer = Wanted(asked \cup {o})
       /\ q.policy.allow = Wanted(asked \cup {o})
  BY <1>2, <1>4, <1>7 DEF Merged
<1>11. q.policy.mode = IF \E a \in asked \cup {o} : a.mode = "first_valid"
                       THEN "first_valid" ELSE "gated"
  <2>1. CASE asked = {}
    BY <1>3, <1>7, <2>1 DEF Merged
  <2>2. CASE asked # {}
    <3>1. p.policy.mode = IF \E a \in asked : a.mode = "first_valid"
                          THEN "first_valid" ELSE "gated"
      BY <2>2 DEF Merged
    <3>2. q.policy.mode = IF "first_valid" \in {p.policy.mode, mode}
                          THEN "first_valid" ELSE "gated"
      BY <1>7, <3>1, StrongerOfTwo
    <3> QED
      BY <1>3, <3>1, <3>2
  <2> QED
    BY <2>1, <2>2
<1>12. q \in ObserverPlan
  <2>1. q.policy.mode \in {"gated", "first_valid"}
    BY <1>11
  <2>2. [mode |-> IF p.policy.mode = "none" THEN mode ELSE Stronger(p.policy.mode, mode),
         allow |-> p.policy.allow \cup r.observer,
         cooldown |-> Shorter(p.policy.cooldown, wait)] \in Policy
    BY <1>1, <1>2, <1>7, <1>9, <2>1 DEF Policy, ObserverPlan
  <2> QED
    BY <1>2, <1>6, <2>2 DEF ObserverPlan
<1>13. asked \cup {o} \subseteq Request
  BY <1>3 DEF Merged
<1> QED
  BY <1>9, <1>10, <1>11, <1>12, <1>13 DEF Merged

-----------------------------------------------------------------------------
(* The chain of observers.                                                  *)

Asked(applies, targets, mode, wait) ==
    IF applies THEN {[to |-> targets, mode |-> mode, wait |-> wait]} ELSE {}

LinkAsks(m) == Asked("links" \in Features /\ m.link, LinkTargets, "first_valid", LinkCooldown)

CardAsks(m) == Asked("cards" \in Features /\ m.card, CardTargets, "first_valid", CardCooldown)

SummaryAsks(m) ==
    Asked("summary" \in Features /\ m.group \in SummaryGroups, SummaryTargets, "gated", 0)

LegacyAsks(m) ==
    Asked("legacy_repeat" \in Features /\ m.group \in LegacyGroups /\ ~m.link /\ ~m.card,
          LegacyTargets, "gated", LegacyCooldown)

\* The plan before route() sets its strategy.
Chain(m) ==
    OnLegacyRepeat(OnKleeRepeat(OnSummary(OnCard(OnLink(EmptyPlan, m), m), m), m), m)

\* One link of the chain: the observer asks, or the plan is left alone.
LEMMA LinkMerges ==
  ASSUME NEW p, NEW asked, Merged(p, asked), NEW m
  PROVE  Merged(OnLink(p, m), asked \cup LinkAsks(m))
<1>1. LinkTargets \in SUBSET Names /\ LinkCooldown \in Nat
  BY RouterAssumption DEF Names
<1>2. CASE "links" \in Features /\ m.link
  <2>1. Merged(Observe(p, LinkTargets, "link", "first_valid", LinkCooldown),
               asked \cup {[to |-> LinkTargets, mode |-> "first_valid", wait |-> LinkCooldown]})
    BY <1>1, ObserveMerges DEF Reasons
  <2>2. OnLink(p, m) = Observe(p, LinkTargets, "link", "first_valid", LinkCooldown)
    BY <1>2 DEF OnLink
  <2>3. LinkAsks(m) = {[to |-> LinkTargets, mode |-> "first_valid", wait |-> LinkCooldown]}
    BY <1>2 DEF LinkAsks, Asked
  <2> QED
    BY <2>1, <2>2, <2>3
<1>3. CASE ~("links" \in Features /\ m.link)
  BY <1>3 DEF OnLink, LinkAsks, Asked
<1> QED
  BY <1>2, <1>3

LEMMA CardMerges ==
  ASSUME NEW p, NEW asked, Merged(p, asked), NEW m
  PROVE  Merged(OnCard(p, m), asked \cup CardAsks(m))
<1>1. CardTargets \in SUBSET Names /\ CardCooldown \in Nat
  BY RouterAssumption DEF Names
<1>2. CASE "cards" \in Features /\ m.card
  <2>1. Merged(Observe(p, CardTargets, "card", "first_valid", CardCooldown),
               asked \cup {[to |-> CardTargets, mode |-> "first_valid", wait |-> CardCooldown]})
    BY <1>1, ObserveMerges DEF Reasons
  <2>2. OnCard(p, m) = Observe(p, CardTargets, "card", "first_valid", CardCooldown)
    BY <1>2 DEF OnCard
  <2>3. CardAsks(m) = {[to |-> CardTargets, mode |-> "first_valid", wait |-> CardCooldown]}
    BY <1>2 DEF CardAsks, Asked
  <2> QED
    BY <2>1, <2>2, <2>3
<1>3. CASE ~("cards" \in Features /\ m.card)
  BY <1>3 DEF OnCard, CardAsks, Asked
<1> QED
  BY <1>2, <1>3

LEMMA SummaryMerges ==
  ASSUME NEW p, NEW asked, Merged(p, asked), NEW m
  PROVE  Merged(OnSummary(p, m), asked \cup SummaryAsks(m))
<1>1. SummaryTargets \in SUBSET Names /\ 0 \in Nat
  BY RouterAssumption DEF Names
<1>2. CASE "summary" \in Features /\ m.group \in SummaryGroups
  <2>1. Merged(Observe(p, SummaryTargets, "summary", "gated", 0),
               asked \cup {[to |-> SummaryTargets, mode |-> "gated", wait |-> 0]})
    BY <1>1, ObserveMerges DEF Reasons
  <2>2. OnSummary(p, m) = Observe(p, SummaryTargets, "summary", "gated", 0)
    BY <1>2 DEF OnSummary
  <2>3. SummaryAsks(m) = {[to |-> SummaryTargets, mode |-> "gated", wait |-> 0]}
    BY <1>2 DEF SummaryAsks, Asked
  <2> QED
    BY <2>1, <2>2, <2>3
<1>3. CASE ~("summary" \in Features /\ m.group \in SummaryGroups)
  BY <1>3 DEF OnSummary, SummaryAsks, Asked
<1> QED
  BY <1>2, <1>3

LEMMA LegacyMerges ==
  ASSUME NEW p, NEW asked, Merged(p, asked), NEW m
  PROVE  Merged(OnLegacyRepeat(p, m), asked \cup LegacyAsks(m))
<1>1. LegacyTargets \in SUBSET Names /\ LegacyCooldown \in Nat
  BY RouterAssumption DEF Names
<1>2. CASE "legacy_repeat" \in Features /\ m.group \in LegacyGroups
              /\ ~m.link /\ ~m.card
  <2>1. Merged(Observe(p, LegacyTargets, "astrbot_repeat_observer_legacy", "gated", LegacyCooldown),
               asked \cup {[to |-> LegacyTargets, mode |-> "gated", wait |-> LegacyCooldown]})
    BY <1>1, ObserveMerges DEF Reasons
  <2>2. OnLegacyRepeat(p, m) = Observe(p, LegacyTargets, "astrbot_repeat_observer_legacy", "gated", LegacyCooldown)
    BY <1>2 DEF OnLegacyRepeat
  <2>3. LegacyAsks(m) = {[to |-> LegacyTargets, mode |-> "gated", wait |-> LegacyCooldown]}
    BY <1>2 DEF LegacyAsks, Asked
  <2> QED
    BY <2>1, <2>2, <2>3
<1>3. CASE ~("legacy_repeat" \in Features /\ m.group \in LegacyGroups
              /\ ~m.link /\ ~m.card)
  BY <1>3 DEF OnLegacyRepeat, LegacyAsks, Asked
<1> QED
  BY <1>2, <1>3

LEMMA KleeRepeatKeeps ==
  ASSUME NEW p, NEW asked, Merged(p, asked), NEW m
  PROVE  Merged(OnKleeRepeat(p, m), asked)
<1> DEFINE q == [p EXCEPT !.internal = @ \cup {"klee_core.repeat"}]
<1>1. p \in ObserverPlan
  BY DEF Merged
<1>2. q \in ObserverPlan /\ q.observer = p.observer /\ q.policy = p.policy
  BY <1>1 DEF ObserverPlan
<1>3. Merged(q, asked)
  BY <1>2 DEF Merged
<1> QED
  BY <1>3 DEF OnKleeRepeat

LEMMA ChainMerges ==
  ASSUME NEW m
  PROVE  Merged(Chain(m), Observers(m))
<1> DEFINE p1 == OnLink(EmptyPlan, m)
<1> DEFINE p2 == OnCard(p1, m)
<1> DEFINE p3 == OnSummary(p2, m)
<1> DEFINE p4 == OnKleeRepeat(p3, m)
<1>1. Merged(EmptyPlan, {})
  BY DEF Merged, EmptyPlan, NoPolicy, ObserverPlan, Policy, Wanted, Waits, IsLeast
<1>2. Merged(p1, {} \cup LinkAsks(m))
  BY <1>1, LinkMerges
<1>3. Merged(p2, ({} \cup LinkAsks(m)) \cup CardAsks(m))
  BY <1>2, CardMerges
<1>4. Merged(p3, (({} \cup LinkAsks(m)) \cup CardAsks(m)) \cup SummaryAsks(m))
  BY <1>3, SummaryMerges
<1>5. Merged(p4, (({} \cup LinkAsks(m)) \cup CardAsks(m)) \cup SummaryAsks(m))
  BY <1>4, KleeRepeatKeeps
<1>6. Merged(OnLegacyRepeat(p4, m),
             ((({} \cup LinkAsks(m)) \cup CardAsks(m)) \cup SummaryAsks(m)) \cup LegacyAsks(m))
  BY <1>5, LegacyMerges
<1>7. Observers(m)
        = ((({} \cup LinkAsks(m)) \cup CardAsks(m)) \cup SummaryAsks(m)) \cup LegacyAsks(m)
  BY DEF Observers, LinkAsks, CardAsks, SummaryAsks, LegacyAsks, Asked
<1> QED
  BY <1>6, <1>7 DEF Chain

RoutedPlan ==
    [strategy : {"silent", "observer"}, primary : {{}}, observer : SUBSET Names,
     internal : SUBSET {"klee_core.repeat"}, handler : {"none"}, policy : Policy,
     reasons : SUBSET Reasons]

\* route(): the strategy is the observers' if any of them named a target.
LEMMA RouteMerges ==
  ASSUME NEW m
  PROVE  /\ RouteObservers(m).policy = Chain(m).policy
         /\ RouteObservers(m).observer = Chain(m).observer
         /\ RouteObservers(m).primary = {}
         /\ RouteObservers(m).handler = "none"
         /\ RouteObservers(m).internal = Chain(m).internal
         /\ RouteObservers(m).strategy
              = IF Chain(m).observer = {} THEN "silent" ELSE "observer"
         /\ RouteObservers(m) \in RoutedPlan
<1> DEFINE c == Chain(m)
<1>1. c \in ObserverPlan
  BY ChainMerges DEF Merged
<1>2. RouteObservers(m) = IF c.observer = {} THEN c ELSE [c EXCEPT !.strategy = "observer"]
  BY DEF RouteObservers, Chain
<1> HIDE DEF c
<1> QED
  BY <1>1, <1>2 DEF ObserverPlan, RoutedPlan, c

-----------------------------------------------------------------------------
(* The plan before the reply gate's override.                               *)

\* A message that is no command: what the observers asked for, as far as it runs.
LEMMA ChatterPlan ==
  ASSUME NEW m, m.handler = "none"
  PROVE  /\ PlanFor(m, FALSE) \in RoutedPlan
         /\ PlanFor(m, FALSE).policy = Chain(m).policy
         /\ PlanFor(m, FALSE).internal = Chain(m).internal
         /\ PlanFor(m, FALSE).handler = "none"
         /\ Recipients(PlanFor(m, FALSE)) = Wanted(Observers(m)) \cap Downstreams
<1> DEFINE r == RouteObservers(m)
<1> DEFINE p == PlanFor(m, FALSE)
<1>1. /\ r.policy = Chain(m).policy /\ r.observer = Chain(m).observer /\ r.primary = {}
      /\ r.handler = "none" /\ r.internal = Chain(m).internal
      /\ r.strategy = IF Chain(m).observer = {} THEN "silent" ELSE "observer"
  BY RouteMerges
<1>2. Chain(m) \in ObserverPlan /\ Chain(m).observer = Wanted(Observers(m))
  BY ChainMerges DEF Merged
<1>3. r \in RoutedPlan
  BY RouteMerges
<1>4. p = [r EXCEPT !.observer = @ \cap Downstreams]
  <2>1. Route(m) = r
    BY DEF Route
  <2>2. ResolveHandler(r, m) = r
    BY <1>1 DEF ResolveHandler
  <2> HIDE DEF r
  <2> QED
    BY <2>1, <2>2 DEF PlanFor, ResolveObservers
<1>5. /\ p.policy = r.policy /\ p.internal = r.internal /\ p.handler = r.handler
      /\ p.strategy = r.strategy /\ p.primary = r.primary
      /\ p.observer = r.observer \cap Downstreams
  <2> HIDE DEF r, p
  <2> QED
    BY <1>3, <1>4 DEF RoutedPlan
<1>6. p \in RoutedPlan
  <2> HIDE DEF r, p
  <2> QED
    BY <1>3, <1>4 DEF RoutedPlan
<1>7. Recipients(p) = Wanted(Observers(m)) \cap Downstreams
  <2> HIDE DEF r, p
  <2>1. CASE r.observer = {}
    BY <1>1, <1>2, <1>5, <2>1 DEF Recipients
  <2>2. CASE r.observer # {}
    BY <1>1, <1>2, <1>5, <2>2 DEF Recipients
  <2> QED
    BY <2>1, <2>2
<1> HIDE DEF r, p
<1> QED
  BY <1>1, <1>5, <1>6, <1>7 DEF p

\* p is a command's plan.
IsCommandPlan(p, strategy, primary, internal, handler, allow) ==
    /\ p \in [strategy : {strategy}, primary : {primary}, observer : {{}},
              internal : {internal}, handler : {handler},
              policy : [mode : {"exclusive", "silent"}, allow : {allow}, cooldown : {0}],
              reasons : {{}, {handler}}]
    /\ p.policy.mode = "silent" => strategy = "silent"

\* The pipeline's resolution leaves every command but astrbot's as it is.
LEMMA ResolveKeeps ==
  ASSUME NEW m, NEW strategy, NEW primary, NEW internal, NEW handler, NEW allow,
         IsCommandPlan(Route(m), strategy, primary, internal, handler, allow),
         handler # "astrbot"
  PROVE  IsCommandPlan(PlanFor(m, FALSE), strategy, primary, internal, handler, allow)
<1> DEFINE r == Route(m)
<1>1. r.handler = handler
  BY DEF IsCommandPlan
<1>2. ResolveHandler(r, m) = r
  BY <1>1 DEF ResolveHandler
<1>3. PlanFor(m, FALSE) = [r EXCEPT !.observer = @ \cap Downstreams]
  BY <1>2 DEF PlanFor, ResolveObservers
<1> HIDE DEF r
<1>4. IsCommandPlan(r, strategy, primary, internal, handler, allow)
  BY DEF r
<1> QED
  BY <1>3, <1>4 DEF IsCommandPlan

\* A command: one service, or for an astrbot command the astrbots.
LEMMA CommandPlan ==
  ASSUME NEW m, m.handler # "none"
  PROVE  LET p == PlanFor(m, FALSE) IN
         /\ p.observer = {} /\ p.internal \in {{}, {"klee_core"}}
         /\ p.policy.mode \in {"exclusive", "silent"} /\ p.strategy \in {"single", "silent"}
         /\ p.policy.mode = "silent" => p.strategy = "silent"
         /\ \/ p.policy.allow = {} /\ Recipients(p) = {}
            \/ p.policy.allow = {"klee_core"} /\ Recipients(p) = {}
            \/ \E d \in {"yunzai", "hermes"} : p.policy.allow = {d} /\ Recipients(p) = {d}
            \/ /\ p.policy.allow = Recipients(p)
               /\ p.policy.allow = IF OwnAstrbot(m.bot) # {} THEN OwnAstrbot(m.bot)
                                   ELSE Astrbots
<1> DEFINE h == m.handler
<1> DEFINE p == PlanFor(m, FALSE)
<1>1. Route(m) = RouteCommand(h)
  BY DEF Route
<1>2. CASE h \in {"yunzai", "hermes"}
  <2>1. IsCommandPlan(RouteCommand(h), "single", {h}, {}, h, {h})
    <3> HIDE DEF h
    <3> QED
      BY <1>2 DEF IsCommandPlan, RouteCommand, EmptyPlan, Exclusive, NoPolicy
  <2>2. IsCommandPlan(p, "single", {h}, {}, h, {h})
    BY <1>1, <1>2, <2>1, ResolveKeeps
  <2> HIDE DEF h, p
  <2>3. /\ p.observer = {} /\ p.internal = {} /\ p.policy.allow = {h}
        /\ p.policy.mode \in {"exclusive", "silent"}
        /\ p.policy.mode = "silent" => p.strategy = "silent"
        /\ p.strategy = "single" /\ p.primary = {h}
    BY <2>2 DEF IsCommandPlan
  <2>4. Recipients(p) = {h}
    BY <2>3 DEF Recipients
  <2> QED
    BY <1>2, <2>3, <2>4 DEF p
<1>3. CASE h = "astrbot"
  <2> DEFINE t == IF OwnAstrbot(m.bot) # {} THEN OwnAstrbot(m.bot) ELSE Astrbots
  <2> DEFINE r == RouteCommand(h)
  <2>1. IsCommandPlan(r, "single", {}, {}, "astrbot", {})
    <3> HIDE DEF h
    <3> QED
      BY <1>3 DEF IsCommandPlan, RouteCommand, EmptyPlan, Exclusive, NoPolicy
  <2>2. r.handler = "astrbot" /\ r.primary = {}
    <3> HIDE DEF r
    <3> QED
      BY <2>1 DEF IsCommandPlan
  <2>3. ResolveHandler(r, m) = [r EXCEPT !.primary = t, !.policy.allow = t]
    BY <2>2 DEF ResolveHandler
  <2>4. IsCommandPlan(ResolveHandler(r, m), "single", t, {}, "astrbot", t)
    <3> HIDE DEF r, t
    <3>1. /\ r.policy \in [mode : {"exclusive", "silent"}, allow : {{}}, cooldown : {0}]
          /\ DOMAIN r = {"strategy", "primary", "observer", "internal", "handler", "policy",
                         "reasons"}
      BY <2>1 DEF IsCommandPlan
    <3> DEFINE allowed == [r.policy EXCEPT !.allow = t]
    <3>2. /\ allowed \in [mode : {"exclusive", "silent"}, allow : {t}, cooldown : {0}]
          /\ allowed.mode = r.policy.mode
      BY <3>1
    <3>4. r.policy.mode # "silent"
      BY <2>1 DEF IsCommandPlan
    <3>3. ResolveHandler(r, m) = [r EXCEPT !.primary = t, !.policy = allowed]
      BY <2>3, <3>1
    <3> HIDE DEF allowed
    <3> QED
      BY <2>1, <3>2, <3>3, <3>4 DEF IsCommandPlan
  <2>5. p = [ResolveHandler(r, m) EXCEPT !.observer = @ \cap Downstreams]
    BY <1>1 DEF PlanFor, ResolveObservers
  <2>6. IsCommandPlan(p, "single", t, {}, "astrbot", t)
    <3> HIDE DEF r, t, p
    <3> QED
      BY <2>4, <2>5 DEF IsCommandPlan
  <2>7. /\ p.observer = {} /\ p.internal = {} /\ p.policy.allow = t
        /\ p.policy.mode \in {"exclusive", "silent"}
        /\ p.policy.mode = "silent" => p.strategy = "silent"
        /\ p.strategy = "single" /\ p.primary = t
    <3> HIDE DEF t, p
    <3> QED
      BY <2>6 DEF IsCommandPlan
  <2>8. Recipients(p) = t
    <3> HIDE DEF t, p
    <3> QED
      BY <2>7 DEF Recipients
  <2> HIDE DEF p
  <2> QED
    BY <2>7, <2>8 DEF p
<1>4. CASE h = "klee_core"
  <2>1. IsCommandPlan(RouteCommand(h), "silent", {}, {"klee_core"}, h, {"klee_core"})
    <3> HIDE DEF h
    <3> QED
      BY <1>4 DEF IsCommandPlan, RouteCommand, EmptyPlan, Exclusive, NoPolicy
  <2>2. IsCommandPlan(p, "silent", {}, {"klee_core"}, h, {"klee_core"})
    BY <1>1, <1>4, <2>1, ResolveKeeps
  <2> HIDE DEF h, p
  <2>3. /\ p.observer = {} /\ p.internal = {"klee_core"} /\ p.policy.allow = {"klee_core"}
        /\ p.policy.mode \in {"exclusive", "silent"}
        /\ p.strategy = "silent"
    BY <2>2 DEF IsCommandPlan
  <2>4. Recipients(p) = {}
    BY <2>3 DEF Recipients
  <2> QED
    BY <2>3, <2>4 DEF p
<1>5. CASE h \notin {"yunzai", "hermes", "astrbot", "klee_core"}
  <2>1. IsCommandPlan(RouteCommand(h), "silent", {}, {}, "none", {})
    <3> HIDE DEF h
    <3> QED
      BY <1>5 DEF IsCommandPlan, RouteCommand, EmptyPlan, SilentPlan, SilentPolicy, NoPolicy
  <2>2. IsCommandPlan(p, "silent", {}, {}, "none", {})
    BY <1>1, <2>1, ResolveKeeps
  <2> HIDE DEF h, p
  <2>3. /\ p.observer = {} /\ p.internal = {} /\ p.policy.allow = {} /\ p.strategy = "silent"
        /\ p.policy.mode \in {"exclusive", "silent"}
    BY <2>2 DEF IsCommandPlan
  <2>4. Recipients(p) = {}
    BY <2>3 DEF Recipients
  <2> QED
    BY <2>3, <2>4 DEF p
<1> QED
  BY <1>2, <1>3, <1>4, <1>5

\* The override takes the plan from the observers only where hermes runs.
LEMMA HandedPlan ==
  ASSUME NEW m, m.handler = "none"
  PROVE  /\ PlanFor(m, TRUE).handler = "hermes"
         /\ PlanFor(m, TRUE).internal = PlanFor(m, FALSE).internal
         /\ IF "hermes" \in Downstreams
            THEN /\ PlanFor(m, TRUE).strategy = "single"
                 /\ PlanFor(m, TRUE).policy.mode = "exclusive"
                 /\ PlanFor(m, TRUE).policy.allow = {"hermes"}
                 /\ Recipients(PlanFor(m, TRUE)) = {"hermes"}
            ELSE /\ PlanFor(m, TRUE).strategy = PlanFor(m, FALSE).strategy
                 /\ PlanFor(m, TRUE).policy = PlanFor(m, FALSE).policy
                 /\ Recipients(PlanFor(m, TRUE)) = Recipients(PlanFor(m, FALSE))
<1> DEFINE p == PlanFor(m, FALSE)
<1> DEFINE q == PlanFor(m, TRUE)
<1> DEFINE handed == [p EXCEPT !.handler = "hermes", !.reasons = {"reply_gate"}]
<1>1. p \in RoutedPlan
  BY ChatterPlan
<1>2. q = IF "hermes" \notin Downstreams THEN handed
          ELSE [handed EXCEPT !.primary = {"hermes"}, !.strategy = "single",
                              !.policy = Exclusive({"hermes"})]
  BY DEF PlanFor, HandToHermes
<1> HIDE DEF p, q
<1>3. /\ handed \in [strategy : {"silent", "observer"}, primary : {{}}, observer : SUBSET Names,
           internal : SUBSET {"klee_core.repeat"}, handler : {"hermes"}, policy : Policy,
           reasons : {{"reply_gate"}}]
      /\ handed.strategy = p.strategy /\ handed.primary = p.primary
      /\ handed.observer = p.observer /\ handed.internal = p.internal
      /\ handed.policy = p.policy /\ handed.handler = "hermes"
  BY <1>1 DEF RoutedPlan
<1> HIDE DEF handed
<1>4. CASE "hermes" \in Downstreams
  <2>1. /\ q.strategy = "single" /\ q.primary = {"hermes"} /\ q.handler = "hermes"
        /\ q.internal = p.internal /\ q.policy = Exclusive({"hermes"})
    BY <1>2, <1>3, <1>4
  <2>2. q.policy.allow = {"hermes"} /\ q.policy.mode = "exclusive"
    BY <2>1 DEF Exclusive, NoPolicy
  <2> QED
    BY <1>4, <2>1, <2>2 DEF Recipients, p, q
<1>5. CASE "hermes" \notin Downstreams
  <2>1. Recipients(q) = Recipients(p)
    BY <1>2, <1>3, <1>5 DEF Recipients
  <2> QED
    BY <1>2, <1>3, <1>5, <2>1 DEF p, q
<1> QED
  BY <1>4, <1>5

-----------------------------------------------------------------------------
(* What the filters of a repeat see.                                        *)

LEMMA NatMin ==
  ASSUME NEW T, T \subseteq Nat, T # {}
  PROVE  Min(T) \in T /\ \A y \in T : Min(T) <= y
<1> DEFINE R == {ss \in Nat \X Nat : ss[1] < ss[2]}
<1>1. R = OpToRel(<, Nat)
  BY Zenon DEF OpToRel
<1>2. IsWellFoundedOn(R, Nat)
  BY <1>1, NatLessThanWellFounded, Zenon
<1>3. PICK x \in T : \A y \in T : ~ (<<y, x>> \in R)
  <2> HIDE DEF R
  <2> QED
    BY <1>2, WFMin, Zenon
<1>4. \A y \in T : x \in Nat /\ y \in Nat /\ ~(y < x)
  BY <1>3
<1>5. \E z \in T : \A y \in T : z <= y
  BY <1>4
<1> QED
  BY <1>5 DEF Min

\* routes.yaml: `^#' and `^/' are rules, for everybody, and rules have handlers.
PrefixIsCommand ==
    /\ DOMAIN Rules \subseteq Nat
    /\ \A i \in DOMAIN Rules : Rules[i].handler # "none"
    /\ \A t \in Prefixed :
         \/ t \in Keywords
         \/ \E i \in DOMAIN Rules : t \in Rules[i].matches /\ ~Rules[i].mention

\* A text with a prefix is a command, whatever is said around it.
LEMMA PrefixedIsCommand ==
  ASSUME PrefixIsCommand, NEW e, NormalizedText(e) \in Prefixed
  PROVE  DetectIntent(e) # "none"
<1> DEFINE t == NormalizedText(e)
<1>1. t # Blank
  BY ContentAssumption
<1>2. CASE t \in Keywords
  BY <1>1, <1>2 DEF DetectIntent
<1>3. CASE t \notin Keywords
  <2>1. PICK i \in DOMAIN Rules : t \in Rules[i].matches /\ ~Rules[i].mention
    BY <1>3 DEF PrefixIsCommand
  <2>2. i \in Matching(e)
    BY <2>1 DEF Matching
  <2>3. Matching(e) \subseteq DOMAIN Rules /\ Matching(e) \subseteq Nat
    BY DEF Matching, PrefixIsCommand
  <2>4. Min(Matching(e)) \in DOMAIN Rules
    BY <2>2, <2>3, NatMin
  <2> QED
    BY <1>1, <1>3, <2>2, <2>4 DEF DetectIntent, PrefixIsCommand
<1> QED
  BY <1>2, <1>3

\* The link observer's four intents leave no other: a video link is one of them.
LEMMA NoLinkNoIntent ==
  ASSUME NEW e, ~HasLink(e), ~HasCard(e)
  PROVE  LinkIntentsOf(e) = {} /\ CardIntentsOf(e) = {}
<1>1. /\ "url" \notin AllMarks(e) /\ "bilibili" \notin AllMarks(e)
      /\ "douyin" \notin AllMarks(e) /\ "xiaohongshu" \notin AllMarks(e)
  BY DEF HasLink, LinkIntentsOf, LinkIntents
<1>2. LinkIntentsOf(e) = {}
  BY <1>1 DEF LinkIntentsOf, LinkIntents
<1> QED
  BY <1>2 DEF HasCard

\* The router offers a message to the repeater only if it is chatter.
LEMMA OfferedIsCandidate ==
  ASSUME NEW m, "klee_core.repeat" \in Chain(m).internal
  PROVE  IsKleeRepeatCandidate(m)
<1> DEFINE p3 == OnSummary(OnCard(OnLink(EmptyPlan, m), m), m)
<1> DEFINE p4 == OnKleeRepeat(p3, m)
<1>1. ASSUME NEW p \in ObserverPlan, NEW targets, NEW reason, NEW mode, NEW wait
      PROVE  Observe(p, targets, reason, mode, wait).internal = p.internal
  BY DEF Observe, ApplyObserverPolicy, MergeObserverTargets, ObserverPlan
<1>2. /\ EmptyPlan \in ObserverPlan /\ OnLink(EmptyPlan, m) \in ObserverPlan
      /\ OnCard(OnLink(EmptyPlan, m), m) \in ObserverPlan
      /\ p3 \in ObserverPlan /\ p4 \in ObserverPlan
  <2>1. Merged(EmptyPlan, {})
    BY DEF Merged, EmptyPlan, NoPolicy, ObserverPlan, Policy, Wanted, Waits, IsLeast
  <2>2. Merged(OnLink(EmptyPlan, m), {} \cup LinkAsks(m))
    BY <2>1, LinkMerges
  <2>3. Merged(OnCard(OnLink(EmptyPlan, m), m), ({} \cup LinkAsks(m)) \cup CardAsks(m))
    BY <2>2, CardMerges
  <2>4. Merged(p3, (({} \cup LinkAsks(m)) \cup CardAsks(m)) \cup SummaryAsks(m))
    BY <2>3, SummaryMerges
  <2>5. Merged(p4, (({} \cup LinkAsks(m)) \cup CardAsks(m)) \cup SummaryAsks(m))
    BY <2>4, KleeRepeatKeeps
  <2> QED
    BY <2>1, <2>2, <2>3, <2>4, <2>5 DEF Merged
<1>3. EmptyPlan.internal = {}
  BY DEF EmptyPlan
<1>4. OnLink(EmptyPlan, m).internal = {}
  BY <1>1, <1>2, <1>3 DEF OnLink
<1>5. OnCard(OnLink(EmptyPlan, m), m).internal = {}
  BY <1>1, <1>2, <1>4 DEF OnCard
<1>6. p3.internal = {}
  BY <1>1, <1>2, <1>5 DEF OnSummary
<1>7. "klee_core.repeat" \in p4.internal
  <2>1. OnLegacyRepeat(p4, m).internal = p4.internal
    <3> HIDE DEF p4
    <3> QED
      BY <1>1, <1>2 DEF OnLegacyRepeat
  <2> QED
    BY <2>1 DEF Chain
<1> HIDE DEF p3
<1> QED
  BY <1>6, <1>7 DEF OnKleeRepeat

-----------------------------------------------------------------------------
(* Theorems                                                                 *)

LEMMA MessageIsRead ==
  ASSUME NEW m \in Messages
  PROVE  \E e \in Events : m = Read(e) /\ m.bot \in Bots
BY PipelineAssumption DEF Messages, Read

\* Who is sent a message may reply to it, and no other downstream may; only a
\* message that is sent to nobody and has no policy is open to all.
THEOREM RepliersAreRecipientsOrAllHolds ==
  ASSUME "klee_core" \notin Downstreams
  PROVE  Spec => []RepliersAreRecipientsOrAll
<1> DEFINE Agree(p) == \/ Repliers(p) = Recipients(p) \cap Downstreams
                       \/ /\ Recipients(p) = {} /\ p.policy.mode = "none"
                          /\ Repliers(p) = Downstreams
<1>1. ASSUME NEW m PROVE Agree(PlanFor(m, FALSE))
  <2> DEFINE p == PlanFor(m, FALSE)
  <2>1. CASE m.handler = "none"
    <3>1. p.policy.allow = Wanted(Observers(m))
      BY <2>1, ChatterPlan, ChainMerges DEF Merged
    <3>2. Recipients(p) = Wanted(Observers(m)) \cap Downstreams
      BY <2>1, ChatterPlan
    <3>3. p.policy.mode = IF Observers(m) = {} THEN "none"
                          ELSE IF \E o \in Observers(m) : o.mode = "first_valid"
                               THEN "first_valid" ELSE "gated"
      BY <2>1, ChatterPlan, ChainMerges DEF Merged
    <3> HIDE DEF p
    <3>4. CASE Observers(m) = {}
      <4>1. Recipients(p) = {}
        BY <3>2, <3>4 DEF Wanted
      <4> QED
        BY <3>3, <3>4, <4>1 DEF Repliers, p
    <3>5. CASE Observers(m) # {}
      <4>1. p.policy.mode \in {"first_valid", "gated"}
        BY <3>3, <3>5
      <4> QED
        BY <3>1, <3>2, <4>1 DEF Repliers, p
    <3> QED
      BY <3>4, <3>5
  <2>2. CASE m.handler # "none"
    <3>1. /\ \/ p.policy.allow = {} /\ Recipients(p) = {}
             \/ p.policy.allow = {"klee_core"} /\ Recipients(p) = {}
             \/ p.policy.allow = Recipients(p)
          /\ p.policy.mode \in {"exclusive", "silent"}
          /\ p.policy.mode = "silent" => p.strategy = "silent"
      BY <2>2, CommandPlan
    <3> HIDE DEF p
    <3>2. p.policy.mode = "silent" => Recipients(p) = {}
      BY <3>1 DEF Recipients
    <3> QED
      BY <3>1, <3>2 DEF Repliers, p
  <2> QED
    BY <2>1, <2>2
<1>2. ASSUME NEW m, m.handler = "none" PROVE Agree(PlanFor(m, TRUE))
  <2> DEFINE p == PlanFor(m, FALSE)
  <2> DEFINE q == PlanFor(m, TRUE)
  <2>1. Agree(p)
    BY <1>1
  <2>2. IF "hermes" \in Downstreams
        THEN /\ q.policy.mode = "exclusive" /\ q.policy.allow = {"hermes"}
             /\ Recipients(q) = {"hermes"}
        ELSE q.policy = p.policy /\ Recipients(q) = Recipients(p)
    BY <1>2, HandedPlan
  <2> HIDE DEF p, q
  <2> QED
    BY <2>1, <2>2 DEF Repliers, q
<1>3. PlanInv => RepliersAreRecipientsOrAll
  BY <1>1, <1>2 DEF PlanInv, PlanIsFor, RepliersAreRecipientsOrAll
<1> QED
  BY <1>3, PlanInvariant, PTL

LEMMA LeastIsMin ==
  ASSUME NEW waits \in SUBSET Nat, waits # {}, NEW c, IsLeast(c, waits)
  PROVE  c = Min(waits)
<1>1. c \in waits /\ \A w \in waits : c <= w
  BY DEF IsLeast
<1>2. Min(waits) \in waits /\ \A w \in waits : Min(waits) <= w
  BY <1>1 DEF Min
<1>3. c \in Nat /\ Min(waits) \in Nat
  BY <1>1, <1>2
<1> QED
  BY <1>1, <1>2, <1>3

\* The observers' policies join: everybody's targets, the strongest mode, the
\* shortest cooldown.
THEOREM PolicyIsJoinHolds == Spec => []PolicyIsJoin
<1>1. ASSUME PlanInv PROVE PolicyIsJoin
  <2> SUFFICES ASSUME message # NoMessage, message.handler = "none", plan.handler # "hermes"
               PROVE  PolicyIsJoin
    BY DEF PolicyIsJoin
  <2> DEFINE asked == Observers(message)
  <2> DEFINE c == Chain(message)
  <2>1. plan = PlanFor(message, FALSE)
    BY <1>1, HandedPlan DEF PlanInv, PlanIsFor
  <2>2. plan.policy = c.policy
    BY <2>1, ChatterPlan
  <2>3. Merged(c, asked)
    BY ChainMerges
  <2> HIDE DEF asked, c
  <2>4. c.policy \in Policy
    BY <2>3 DEF Merged, ObserverPlan
  <2>5. c.policy = [mode |-> c.policy.mode, allow |-> c.policy.allow,
                    cooldown |-> c.policy.cooldown]
    BY <2>4 DEF Policy
  <2>6. CASE asked = {}
    <3>1. c.policy.mode = "none" /\ c.policy.allow = {} /\ c.policy.cooldown = 0
      BY <2>3, <2>6 DEF Merged, Wanted, Waits, IsLeast
    <3>2. c.policy = NoPolicy
      BY <2>5, <3>1 DEF NoPolicy
    <3> QED
      BY <2>2, <2>6, <3>2 DEF PolicyIsJoin, asked
  <2>7. CASE asked # {}
    <3>1. c.policy.mode = IF \E o \in asked : o.mode = "first_valid"
                          THEN "first_valid" ELSE "gated"
      BY <2>3, <2>7 DEF Merged
    <3>2. c.policy.allow = UNION {o.to : o \in asked}
      BY <2>3 DEF Merged, Wanted
    <3>3. c.policy.cooldown = IF Waits(asked) = {} THEN 0 ELSE Min(Waits(asked))
      <4>1. Waits(asked) \in SUBSET Nat /\ IsLeast(c.policy.cooldown, Waits(asked))
        BY <2>3 DEF Merged, Waits, Request
      <4> QED
        BY <4>1, LeastIsMin DEF IsLeast
    <3> QED
      BY <2>2, <2>5, <2>7, <3>1, <3>2, <3>3 DEF PolicyIsJoin, asked, Waits
  <2> QED
    BY <2>6, <2>7
<1> QED
  BY <1>1, PlanInvariant, PTL

\* A command concerns one service, whatever the downstreams are.
THEOREM CommandIsExclusiveHolds == Spec => []CommandIsExclusive
<1>1. ASSUME PlanInv PROVE CommandIsExclusive
  <2> SUFFICES ASSUME message # NoMessage, message.handler # "none"
               PROVE  CommandIsExclusive
    BY DEF CommandIsExclusive
  <2> DEFINE own == OwnAstrbot(message.bot)
  <2>1. plan = PlanFor(message, FALSE)
    BY <1>1 DEF PlanInv, PlanIsFor
  <2>2. /\ plan.observer = {} /\ plan.internal \in {{}, {"klee_core"}}
        /\ \/ plan.policy.allow = {}
           \/ \E d : plan.policy.allow = {d}
           \/ plan.policy.allow = IF own # {} THEN own ELSE Astrbots
    BY <2>1, CommandPlan
  <2>3. own # {} => \E d : own = {d}
    <3>1. message.bot \in Bots
      BY <1>1, MessageIsRead DEF PlanInv
    <3> QED
      BY <3>1, ResolutionAssumption DEF OwnAstrbot
  <2>4. own # {} => plan.policy.allow = {} \/ \E d : plan.policy.allow = {d}
    <3> HIDE DEF own
    <3> QED
      BY <2>2, <2>3
  <2>5. own # {} => Cardinality(plan.policy.allow) <= 1
    <3>1. Cardinality({}) = 0
      BY FS_EmptySet, Zenon
    <3>2. \A d : Cardinality({d}) = 1
      BY FS_Singleton, Zenon
    <3>3. own # {} => Cardinality(plan.policy.allow) \in {0, 1}
      <4> HIDE DEF own
      <4> QED
        BY <2>4, <3>1, <3>2
    <3> QED
      BY <3>3
  <2> QED
    BY <2>2, <2>5 DEF CommandIsExclusive
<1> QED
  BY <1>1, PlanInvariant, PTL

\* The three repeat filters agree: with routes.yaml's rules for # and /, what
\* the router offers to the repeater is kept by the cache that counts it.
THEOREM RepeatFiltersAgreeHolds ==
  ASSUME PrefixIsCommand
  PROVE  Spec => []RepeatFiltersAgree
<1>1. ASSUME PlanInv PROVE RepeatFiltersAgree
  <2> SUFFICES ASSUME message # NoMessage, "klee_core.repeat" \in plan.internal
               PROVE  RepeatFiltersAgree
    BY DEF RepeatFiltersAgree
  <2>1. PICK e \in Events : message = Read(e)
    BY <1>1, MessageIsRead DEF PlanInv
  <2>2. message.handler = "none"
    <3> SUFFICES ASSUME message.handler # "none" PROVE FALSE
      OBVIOUS
    <3>1. plan = PlanFor(message, FALSE)
      BY <1>1 DEF PlanInv, PlanIsFor
    <3>2. plan.internal \in {{}, {"klee_core"}}
      BY <3>1, CommandPlan
    <3> QED
      BY <3>2
  <2>3. "klee_core.repeat" \in Chain(message).internal
    BY <1>1, <2>2, ChatterPlan, HandedPlan DEF PlanInv, PlanIsFor
  <2>4. message.body = "text" /\ ~message.link /\ ~message.card
    BY <2>3, OfferedIsCandidate DEF IsKleeRepeatCandidate
  <2>5. /\ message.event = e /\ DetectIntent(e) = "none"
        /\ Body(e) = "text" /\ ~HasLink(e) /\ ~HasCard(e)
    BY <2>1, <2>2, <2>4 DEF Read
  <2>6. /\ ~IsMediaOnly(e) /\ FirstWord(e) # 0 /\ ~RawIsPrefixed(e)
        /\ \A s \in SegmentsOf(e) : ~s.long
    BY <2>5 DEF Body
  <2>7. LinkIntentsOf(e) = {} /\ CardIntentsOf(e) = {}
    BY <2>5, NoLinkNoIntent
  <2>8. IsRepeatCandidate(e)
    BY <2>6, <2>7 DEF IsRepeatCandidate
  <2>9. KeptByCache(e, FALSE)
    BY <2>6, <2>7 DEF KeptByCache
  <2>10. NormalizedText(e) \notin Prefixed
    BY <2>5, PrefixedIsCommand
  <2> QED
    BY <2>2, <2>5, <2>8, <2>9, <2>10 DEF RepeatFiltersAgree, KeptByCache
<1> QED
  BY <1>1, PlanInvariant, PTL

-----------------------------------------------------------------------------
(* Types, and the gate's cooldown.                                          *)

LEMMA DropOldType ==
  ASSUME NEW S, NEW s \in Seq(S), NEW stamps, DOMAIN stamps = DOMAIN s, NEW age
  PROVE  DropOld(s, stamps, age) \in Seq(S)
<1> DEFINE young == Young(stamps, age)
<1>1. young \subseteq 1..Len(s)
  BY DEF Young
<1>2. CASE young = {}
  BY <1>2 DEF DropOld
<1>3. CASE young # {}
  <2>1. Min(young) \in 1..Len(s)
    BY <1>1, <1>3, NatMin
  <2>2. DropOld(s, stamps, age) = SubSeq(s, Min(young), Len(s))
    BY <1>3 DEF DropOld, Min
  <2> HIDE DEF young
  <2>3. \A i \in Min(young)..Len(s) : s[i] \in S
    BY <2>1
  <2> QED
    BY <2>1, <2>2, <2>3, SubSeqProperties
<1> QED
  BY <1>2, <1>3

LEMMA LastNType ==
  ASSUME NEW S, NEW s \in Seq(S), NEW n \in Nat
  PROVE  LastN(s, n) \in Seq(S)
<1>1. CASE Len(s) <= n
  BY <1>1 DEF LastN
<1>2. CASE Len(s) > n
  <2>1. \A i \in Len(s) - n + 1 .. Len(s) : s[i] \in S
    BY <1>2
  <2> QED
    BY <1>2, <2>1, SubSeqProperties DEF LastN
<1> QED
  BY <1>1, <1>2

LEMMA RecordReplyType ==
  ASSUME ActivityTypeOK, NEW c \in Chats, RecordReply(c)
  PROVE  /\ replyTimes' \in [Chats -> Seq(1..MaxTime)]
         /\ lastReply' \in [Chats -> 0..MaxTime]
<1> DEFINE appended == Append(replyTimes[c], now)
<1>1. appended \in Seq(1..MaxTime)
  BY DEF ActivityTypeOK
<1>2. DropOld(appended, appended, Hour) \in Seq(1..MaxTime)
  <2> HIDE DEF appended
  <2> QED
    BY <1>1, DropOldType
<1>3. now \in 0..MaxTime
  BY ActivityAssumption DEF ActivityTypeOK
<1>4. /\ lastReply' = [lastReply EXCEPT ![c] = now]
      /\ replyTimes' = [replyTimes EXCEPT ![c] = DropOld(appended, appended, Hour)]
  BY DEF RecordReply
<1> HIDE DEF appended
<1> QED
  BY <1>2, <1>3, <1>4 DEF ActivityTypeOK

LEMMA RecordMessageType ==
  ASSUME ActivityTypeOK, NEW c \in Chats, NEW media \in BOOLEAN, RecordMessage(c, media)
  PROVE  recent' \in [Chats -> Seq(Record)]
<1> DEFINE appended == Append(recent[c], [at |-> now, media |-> media])
<1> DEFINE kept == DropOld(appended, Stamps(appended), Window)
<1>1. appended \in Seq(Record)
  <2>1. recent[c] \in Seq(Record) /\ [at |-> now, media |-> media] \in Record
    BY DEF ActivityTypeOK, Record
  <2> QED
    BY <2>1
<1>2. DOMAIN Stamps(appended) = DOMAIN appended
  <2> HIDE DEF appended
  <2> QED
    BY DEF Stamps
<1>3. kept \in Seq(Record)
  <2> HIDE DEF appended
  <2> QED
    BY <1>1, <1>2, DropOldType
<1>4. LastN(kept, MaxRecent) \in Seq(Record)
  <2> HIDE DEF kept
  <2> QED
    BY <1>3, LastNType, ActivityAssumption
<1> QED
  BY <1>4 DEF RecordMessage, ActivityTypeOK

LEMMA PlanType ==
  ASSUME NEW m, NEW triggered \in BOOLEAN, triggered => m.handler = "none"
  PROVE  /\ PlanFor(m, triggered).policy.mode
              \in {"none", "silent", "gated", "first_valid", "exclusive"}
         /\ PlanFor(m, triggered).strategy \in {"silent", "single", "observer", "self_id_route"}
<1>1. CASE m.handler = "none"
  <2> DEFINE p == PlanFor(m, FALSE)
  <2>1. p \in RoutedPlan
    BY <1>1, ChatterPlan
  <2>2. p.policy.mode \in {"none", "gated", "first_valid"} /\ p.strategy \in {"silent", "observer"}
    <3> HIDE DEF p
    <3> QED
      BY <2>1 DEF RoutedPlan, Policy
  <2>3. CASE ~triggered
    BY <2>2, <2>3 DEF PlanFor
  <2>4. CASE triggered
    <3>1. PlanFor(m, triggered) = PlanFor(m, TRUE)
      BY <2>4 DEF PlanFor
    <3> QED
      BY <1>1, <2>2, <3>1, HandedPlan
  <2> QED
    BY <2>3, <2>4
<1>2. CASE m.handler # "none"
  <2>1. PlanFor(m, triggered) = PlanFor(m, FALSE)
    BY <1>2 DEF PlanFor
  <2> QED
    BY <1>2, <2>1, CommandPlan
<1> QED
  BY <1>1, <1>2

LEMMA TypeNext == TypeOK /\ [Next]_vars => TypeOK'
<1>2. TypeOK /\ [Next]_vars => TypeOK'
  <2> SUFFICES ASSUME TypeOK, [Next]_vars PROVE TypeOK'
    OBVIOUS
  <2>1. ActivityTypeOK
    BY DEF TypeOK
  <2>2. ASSUME NEW m \in Messages, ProcessMessage(m) PROVE TypeOK'
    <3>1. m.group \in Chats
      BY PipelineAssumption DEF Messages, Read
    <3>2. recent' \in [Chats -> Seq(Record)]
      <4>1. (m.body = "media") \in BOOLEAN
        OBVIOUS
      <4>2. RecordMessage(m.group, m.body = "media")
        BY <2>2 DEF ProcessMessage
      <4> QED
        BY <2>1, <3>1, <4>1, <4>2, RecordMessageType
    <3>3. /\ replyTimes' \in [Chats -> Seq(1..MaxTime)]
          /\ lastReply' \in [Chats -> 0..MaxTime]
      <4>1. CASE GateTriggers(m)
        BY <2>1, <2>2, <3>1, <4>1, RecordReplyType DEF ProcessMessage
      <4>2. CASE ~GateTriggers(m)
        BY <2>1, <2>2, <4>2 DEF ProcessMessage, ActivityTypeOK
      <4> QED
        BY <4>1, <4>2
    <3>4. ActivityTypeOK'
      BY <2>1, <2>2, <3>2, <3>3 DEF ProcessMessage, ActivityTypeOK
    <3>5. /\ plan'.policy.mode \in {"none", "silent", "gated", "first_valid", "exclusive"}
          /\ plan'.strategy \in {"silent", "single", "observer", "self_id_route"}
      <4>1. CASE GateTriggers(m)
        <5>1. plan' = PlanFor(m, TRUE)
          BY <2>2, <4>1 DEF ProcessMessage, PlanFor
        <5> QED
          BY <4>1, <5>1, PlanType, GateIsForMentions
      <4>2. CASE ~GateTriggers(m)
        <5>1. plan' = PlanFor(m, FALSE)
          BY <2>2, <4>2 DEF ProcessMessage, PlanFor
        <5> QED
          BY <5>1, PlanType
      <4> QED
        BY <4>1, <4>2
    <3>6. message' \in Messages
      BY <2>2 DEF ProcessMessage
    <3>7. answers' \in [Chats -> Seq(Answer)]
      <4> DEFINE a == [at |-> now, plain |-> m.topics = {}]
      <4>1. a \in Answer
        BY <2>1 DEF Answer, ActivityTypeOK
      <4>2. answers' = answers \/ answers' = [answers EXCEPT ![m.group] = Append(@, a)]
        BY <2>2 DEF ProcessMessage, NoteAnswer
      <4> HIDE DEF a
      <4>3. Append(answers[m.group], a) \in Seq(Answer)
        BY <3>1, <4>1 DEF TypeOK
      <4> QED
        BY <4>2, <4>3 DEF TypeOK
    <3> QED
      BY <3>4, <3>5, <3>6, <3>7 DEF TypeOK
  <2>3. CASE ProcessOther
    <3>1. ActivityTypeOK'
      BY <2>1, <2>3 DEF ProcessOther, activityVars, ActivityTypeOK
    <3> QED
      BY <2>3, <3>1 DEF ProcessOther, TypeOK, SelfIdRoute, EmptyPlan, SilentPolicy, NoPolicy
  <2>4. CASE Tick
    <3>1. ActivityTypeOK'
      BY <2>1, <2>4, ActivityAssumption
         DEF Tick, ActivityTick, activityVars, ActivityTypeOK
    <3> QED
      BY <2>4, <3>1 DEF Tick, TypeOK
  <2>5. CASE UNCHANGED vars
    BY <2>5 DEF vars, TypeOK, ActivityTypeOK
  <2> QED
    BY <2>2, <2>3, <2>4, <2>5 DEF Next
<1> QED
  BY <1>2

\* The tracker, the returned plan and the record of answers keep their types.
THEOREM TypeCorrect == Spec => []TypeOK
<1>1. Init => TypeOK
  <2> SUFFICES ASSUME Init PROVE TypeOK
    OBVIOUS
  <2>1. ActivityTypeOK
    BY ActivityAssumption DEF Init, ActivityInit, ActivityTypeOK
  <2> QED
    BY <2>1 DEF Init, TypeOK, EmptyPlan, NoPolicy
<1> QED
  BY <1>1, TypeNext, PTL DEF Spec

LEMMA NoTopicsNoBonus == MapThenSumSet(LAMBDA t : Bonus[t], {}) = 0
<1> DEFINE Step(iter) ==
             [s \in SUBSET {} |->
                IF s = {} THEN 0
                ELSE Bonus[CHOOSE x \in s : TRUE] + iter[s \ {CHOOSE x \in s : TRUE}]]
<1>1. \E iter : iter = Step(iter)
  <2>1. [s \in SUBSET {} |-> 0] = Step([s \in SUBSET {} |-> 0])
    OBVIOUS
  <2> QED
    BY <2>1
<1>2. \A iter : iter = Step(iter) => iter[{}] = 0
  OBVIOUS
<1> HIDE DEF Step
<1>3. (CHOOSE iter : iter = Step(iter))[{}] = 0
  BY <1>1, <1>2
<1> QED
  BY <1>3 DEF MapThenSumSet, MapThenFoldSet, Step

\* A mention with nothing else to say is worth 100, and the cooldown takes 60.
LEMMA CooldownSilences ==
  ASSUME NEW m, m.topics = {}, IsInCooldown(m.group, GateCooldown)
  PROVE  ~ShouldReply(m)
<1>1. MapThenSumSet(LAMBDA t : Bonus[t], m.topics) = 0
  BY NoTopicsNoBonus
<1>2. \A applies, points : points \in Nat => Penalty(applies, points) \in Nat
  BY DEF Penalty
<1>3. Penalty(IsInCooldown(m.group, GateCooldown), 60) = 60
  BY DEF Penalty
<1> QED
  BY <1>1, <1>3 DEF ShouldReply, Penalties, Penalty, AtBot, ReplyThreshold

\* Without the gate's word no plan says that the gate answered.
LEMMA OnlyGateAnswers ==
  ASSUME NEW m
  PROVE  PlanFor(m, FALSE).reasons # {"reply_gate"}
<1> DEFINE p == PlanFor(m, FALSE)
<1>1. CASE m.handler = "none"
  <2>1. p \in RoutedPlan
    BY <1>1, ChatterPlan
  <2> HIDE DEF p
  <2>2. p.reasons \in SUBSET Reasons
    BY <2>1 DEF RoutedPlan
  <2> QED
    BY <2>2 DEF Reasons, p
<1>2. CASE m.handler # "none"
  <2> DEFINE h == m.handler
  <2> DEFINE r == RouteCommand(h)
  <2>1. Route(m) = r
    BY <1>2 DEF Route
  <2>2. /\ r.reasons \in {{}, {"yunzai"}, {"hermes"}, {"astrbot"}, {"klee_core"}}
        /\ DOMAIN r = {"strategy", "primary", "observer", "internal", "handler", "policy",
                       "reasons"}
    <3> HIDE DEF h
    <3>1. CASE h \in {"yunzai", "hermes"}
      BY <3>1 DEF RouteCommand, EmptyPlan
    <3>2. CASE h = "astrbot"
      BY <3>2 DEF RouteCommand, EmptyPlan
    <3>3. CASE h = "klee_core"
      BY <3>3 DEF RouteCommand, EmptyPlan
    <3>4. CASE h \notin {"yunzai", "hermes", "astrbot", "klee_core"}
      BY <3>4 DEF RouteCommand, EmptyPlan, SilentPlan
    <3> QED
      BY <3>1, <3>2, <3>3, <3>4
  <2> HIDE DEF r
  <2>3. /\ ResolveHandler(r, m).reasons = r.reasons
        /\ DOMAIN ResolveHandler(r, m) = DOMAIN r
    BY <2>2 DEF ResolveHandler
  <2>4. p = [ResolveHandler(r, m) EXCEPT !.observer = @ \cap Downstreams]
    BY <2>1 DEF PlanFor, ResolveObservers
  <2>5. p.reasons = r.reasons
    BY <2>2, <2>3, <2>4
  <2> QED
    BY <2>2, <2>5
<1> QED
  BY <1>1, <1>2

\* Every answer was recorded: none is younger than the tracker's last reply.
AnswersInv ==
    /\ answers \in [Chats -> Seq(Answer)]
    /\ \A c \in Chats : lastReply[c] <= now
    /\ \A c \in Chats : \A i \in DOMAIN answers[c] : answers[c][i].at <= lastReply[c]

LEMMA SpacingNext ==
  TypeOK /\ AnswersInv /\ GateSpacing /\ [Next]_vars => AnswersInv' /\ GateSpacing'
<1> SUFFICES ASSUME TypeOK, AnswersInv, GateSpacing, [Next]_vars
             PROVE  AnswersInv' /\ GateSpacing'
  OBVIOUS
<1> DEFINE Types == /\ now \in Nat /\ now' \in Nat
                    /\ lastReply \in [Chats -> Nat]
<1>1. Types
  <2>1. TypeOK'
    BY TypeNext
  <2> QED
    BY <2>1, ActivityAssumption DEF TypeOK, ActivityTypeOK
<1>2. CASE UNCHANGED <<answers, lastReply>> /\ now <= now'
  <2>1. \A c \in Chats : lastReply'[c] <= now'
    BY <1>1, <1>2 DEF AnswersInv
  <2> QED
    BY <1>2, <2>1 DEF AnswersInv, GateSpacing
<1>3. ASSUME NEW m \in Messages, ProcessMessage(m) PROVE AnswersInv' /\ GateSpacing'
  <2> DEFINE g == m.group
  <2> DEFINE a == [at |-> now, plain |-> m.topics = {}]
  <2>1. g \in Chats
    BY PipelineAssumption DEF Messages, Read
  <2>2. plan' = PlanFor(m, GateTriggers(m)) /\ now' = now
    BY <1>3 DEF ProcessMessage
  <2>3. CASE ~GateTriggers(m)
    <3>1. plan' = PlanFor(m, FALSE)
      BY <2>2, <2>3 DEF PlanFor
    <3>2. UNCHANGED <<answers, lastReply>>
      BY <1>3, <2>3, <3>1, OnlyGateAnswers DEF ProcessMessage, NoteAnswer
    <3> QED
      BY <1>1, <1>2, <2>2, <3>2
  <2>4. CASE GateTriggers(m)
    <3>1. lastReply' = [lastReply EXCEPT ![g] = now]
      BY <1>3, <2>4 DEF ProcessMessage, RecordReply
    <3>2. /\ \A c \in Chats : lastReply'[c] <= now'
          /\ \A c \in Chats : lastReply[c] <= lastReply'[c]
          /\ lastReply' \in [Chats -> Nat]
      BY <1>1, <2>1, <2>2, <3>1 DEF AnswersInv
    <3>3. ASSUME NEW c \in Chats, NEW i \in DOMAIN answers[c]
          PROVE  answers[c][i] \in Answer /\ answers[c][i].at \in Nat \ {0}
                 /\ answers[c][i].at <= lastReply'[c]
      <4>1. answers[c][i] \in Answer
        BY DEF AnswersInv
      <4>2. answers[c][i].at \in Nat \ {0} /\ answers[c][i].at <= lastReply[c]
        BY <4>1, ActivityAssumption DEF Answer, AnswersInv
      <4> QED
        BY <1>1, <3>2, <4>1, <4>2
    <3>4. CASE answers' = answers
      BY <3>2, <3>3, <3>4 DEF AnswersInv, GateSpacing
    <3>5. CASE answers' = [answers EXCEPT ![g] = Append(@, a)]
      <4>1. a \in Answer
        BY <2>2 DEF Answer, TypeOK, ActivityTypeOK
      <4>2. answers[g] \in Seq(Answer)
        BY <2>1 DEF AnswersInv
      <4>3. answers'[g] = Append(answers[g], a) /\ answers' \in [Chats -> Seq(Answer)]
        BY <2>1, <3>5, <4>1, <4>2 DEF AnswersInv
      <4>4. \A c \in Chats : c # g => answers'[c] = answers[c]
        BY <3>5 DEF AnswersInv
      <4>5. /\ DOMAIN answers'[g] = DOMAIN answers[g] \cup {Len(answers[g]) + 1}
            /\ \A i \in DOMAIN answers[g] : answers'[g][i] = answers[g][i]
            /\ answers'[g][Len(answers[g]) + 1] = a
            /\ DOMAIN answers[g] = 1..Len(answers[g]) /\ Len(answers[g]) \in Nat
        BY <4>1, <4>2, <4>3
      <4>6. a.at = now /\ lastReply'[g] = now
        BY <1>1, <2>1, <3>1
      <4>7. \A c \in Chats : \A i \in DOMAIN answers'[c] : answers'[c][i].at <= lastReply'[c]
        BY <1>1, <3>3, <4>4, <4>5, <4>6
      \* A plain mention is answered only when the last reply is a cooldown old.
      <4>8. ASSUME a.plain, NEW i \in DOMAIN answers[g]
            PROVE  now - answers[g][i].at >= GateCooldown
        <5>1. m.topics = {}
          BY <4>8
        <5>2. ~IsInCooldown(g, GateCooldown)
          BY <2>4, <5>1, CooldownSilences DEF GateTriggers
        <5>3. answers[g][i].at \in Nat \ {0} /\ answers[g][i].at <= lastReply[g]
          <6>1. answers[g][i] \in Answer
            BY <4>2
          <6> QED
            BY <2>1, <6>1, ActivityAssumption DEF Answer, AnswersInv
        <5>4. lastReply[g] \in Nat \ {0} /\ GateCooldown \in Nat
          BY <1>1, <2>1, <5>3, PipelineAssumption
        <5> QED
          BY <1>1, <5>2, <5>3, <5>4 DEF IsInCooldown
      <4>9. ASSUME NEW i \in DOMAIN answers'[g], NEW j \in DOMAIN answers'[g], i < j,
                   answers'[g][j].plain
            PROVE  answers'[g][j].at - answers'[g][i].at >= GateCooldown
        <5>1. CASE j \in DOMAIN answers[g]
          <6>1. i \in DOMAIN answers[g]
            BY <4>5, <4>9, <5>1
          <6> QED
            BY <2>1, <4>5, <4>9, <5>1, <6>1 DEF GateSpacing
        <5>2. CASE j = Len(answers[g]) + 1
          <6>1. i \in DOMAIN answers[g]
            BY <4>5, <4>9, <5>2
          <6> HIDE DEF a
          <6> QED
            BY <4>5, <4>6, <4>8, <4>9, <5>2, <6>1
        <5> QED
          BY <4>5, <5>1, <5>2
      <4> QED
        BY <3>2, <4>3, <4>4, <4>7, <4>9 DEF AnswersInv, GateSpacing
    <3> QED
      BY <1>3, <3>4, <3>5 DEF ProcessMessage, NoteAnswer
  <2> QED
    BY <2>3, <2>4
<1>4. CASE ProcessOther \/ UNCHANGED vars
  BY <1>1, <1>2, <1>4 DEF ProcessOther, activityVars, vars
<1>5. CASE Tick
  BY <1>1, <1>2, <1>5 DEF Tick, ActivityTick, activityVars
<1> QED
  BY <1>3, <1>4, <1>5 DEF Next

\* A mention with nothing else to say is answered once in a cooldown, through
\* every interleaving of messages, commands and other events of the chat.
THEOREM GateSpacingHolds == Spec => []GateSpacing
<1>1. Init => AnswersInv /\ GateSpacing
  BY DEF Init, ActivityInit, AnswersInv, GateSpacing
<1> QED
  BY <1>1, TypeCorrect, SpacingNext, PTL DEF Spec

=============================================================================
