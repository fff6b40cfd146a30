---------------------------- MODULE PlanResolution ----------------------------
(***************************************************************************)
(* The stateless half of MessagePipeline (app/services/message_pipeline.py)*)
(* and of the event bus's plan handling: which running downstreams the     *)
(* router's abstract handlers and target names stand for, what the reply   *)
(* gate's override does to a plan, and who is sent the event.              *)
(***************************************************************************)
EXTENDS PluginRouter

CONSTANTS
    Downstreams,         \* the downstreams of the event bus
    Kind,                \* name -> "astrbot", "yunzai", ... (its prefix)
    SelfId,              \* name -> the bot it answers for; NoBot for the 0 wildcard
    NoBot,
    Bots

ASSUME ResolutionAssumption ==
    /\ NoBot \notin Bots
    /\ SelfId \in [Downstreams -> Bots \cup {NoBot}]
    /\ \A d, e \in Downstreams : SelfId[d] = SelfId[e] => d = e \/ SelfId[d] = NoBot

OwnAstrbot(bot) == {d \in Downstreams : SelfId[d] = bot}

Astrbots == {d \in Downstreams : Kind[d] = "astrbot"}

\* An astrbot command goes to the downstream of the bot that saw it, or, when
\* that bot has none, to every astrbot.
ResolveHandler(p, m) ==
    IF p.handler # "astrbot" \/ p.primary # {} THEN p
    ELSE LET targets == IF OwnAstrbot(m.bot) # {} THEN OwnAstrbot(m.bot) ELSE Astrbots
         IN  [p EXCEPT !.primary = targets, !.policy.allow = targets]

ResolveObservers(p) == [p EXCEPT !.observer = @ \cap Downstreams]

\* Mutant: the observers' policy survives the override.
HandToHermes_KeepPolicy(p) ==
    LET handed == [p EXCEPT !.handler = "hermes", !.reasons = {"reply_gate"}] IN
    IF "hermes" \notin Downstreams THEN handed
    ELSE [handed EXCEPT !.primary = {"hermes"}, !.strategy = "single"]

HandToHermes(p) ==
    LET handed == [p EXCEPT !.handler = "hermes", !.reasons = {"reply_gate"}] IN
    IF "hermes" \notin Downstreams THEN handed
    ELSE [handed EXCEPT !.primary = {"hermes"}, !.strategy = "single",
                        !.policy = Exclusive({"hermes"})]

PlanFor(m, triggered) ==
    LET resolved == ResolveObservers(ResolveHandler(Route(m), m))
    IN  IF triggered THEN HandToHermes(resolved) ELSE resolved

\* The downstreams an event is pushed to under a plan (route_event).
Recipients(p) ==
    CASE p.strategy = "single"   -> p.primary
      [] p.strategy = "observer" -> p.primary \cup p.observer
      [] OTHER                   -> {}

\* The running downstreams the arbiter lets answer an event, cooldowns apart
\* (_arbitrate): without a policy, everybody.
Repliers(p) ==
    CASE p.policy.mode \in {"none", "allow_all"} -> Downstreams
      [] p.policy.mode = "silent"                -> {}
      [] OTHER                                   -> p.policy.allow \cap Downstreams

=============================================================================
