---------------------------- MODULE PluginRouter ----------------------------
(***************************************************************************)
(* PluginRouter and ExecutionPlan of app/services/plugin_router.py: from   *)
(* what was detected in a message to the downstreams that receive it and   *)
(* the policy that says which of them may reply.  The router keeps no      *)
(* state, so it is a function of the message and of the configuration.     *)
(*                                                                         *)
(* A message is what MessageContent finds in an event (Read there): the    *)
(* handler of the first command rule that matches ("none" if it is no      *)
(* command), whether it holds a link or a rich card, and whether its body  *)
(* is text that may be repeated, a single piece of media, or anything else *)
(* (blank, prefixed by # or /, too long).                                  *)
(* Target lists are sets: every use of them is a membership test or a loop *)
(* whose order no property depends on.                                     *)
(***************************************************************************)
EXTENDS Naturals, FiniteSets

CONSTANTS
    Features,                     \* the enabled observers, of FeatureNames
    LinkTargets, CardTargets, SummaryTargets, LegacyTargets,
    LinkCooldown, CardCooldown, LegacyCooldown,
    SummaryGroups, KleeRepeatGroups, LegacyGroups

FeatureNames == {"links", "cards", "summary", "klee_repeat", "legacy_repeat"}

\* `targets or ["astrbot_main"]' makes every target list non-empty.
ASSUME RouterAssumption ==
    /\ Features \subseteq FeatureNames
    /\ {} \notin {LinkTargets, CardTargets, SummaryTargets, LegacyTargets}
    /\ {LinkCooldown, CardCooldown, LegacyCooldown} \subseteq Nat \ {0}

Handlers == {"yunzai", "astrbot", "hermes", "klee_core", "meme"}

-----------------------------------------------------------------------------
(* Policies and plans *)

\* reply_policy = None; cooldown 0 stands for cooldown_seconds = None.
NoPolicy == [mode |-> "none", allow |-> {}, cooldown |-> 0]

SilentPolicy == [NoPolicy EXCEPT !.mode = "silent"]

Exclusive(names) == [NoPolicy EXCEPT !.mode = "exclusive", !.allow = names]

\* ExecutionPlan(): the defaults of the dataclass.
EmptyPlan ==
    [strategy |-> "silent", primary |-> {}, observer |-> {}, internal |-> {},
     handler |-> "none", policy |-> NoPolicy, reasons |-> {}]

SilentPlan == [EmptyPlan EXCEPT !.policy = SilentPolicy]

SelfIdRoute == [EmptyPlan EXCEPT !.strategy = "self_id_route",
                                 !.policy = SilentPolicy]

-----------------------------------------------------------------------------
(* Commands *)

RouteCommand(handler) ==
    LET plan == [EmptyPlan EXCEPT !.handler = handler, !.reasons = {handler},
                                  !.strategy = "single"]
    IN  CASE handler \in {"yunzai", "hermes"} ->
               [plan EXCEPT !.primary = {handler}, !.policy = Exclusive({handler})]
          [] handler = "astrbot" ->          \* targets are resolved by the pipeline
               [plan EXCEPT !.policy = Exclusive({})]
          [] handler = "klee_core" ->
               [plan EXCEPT !.strategy = "silent", !.internal = {"klee_core"},
                            !.policy = Exclusive({"klee_core"})]
          [] OTHER -> SilentPlan

-----------------------------------------------------------------------------
(* Observers *)

ModeOrder == [silent |-> 0, gated |-> 1, first_valid |-> 2, exclusive |-> 3,
              allow_all |-> 4]

Stronger(a, b) == IF ModeOrder[b] > ModeOrder[a] THEN b ELSE a

Shorter(a, b) == IF a = 0 THEN b ELSE IF b = 0 \/ a < b THEN a ELSE b

\* Mutant: the observer that comes last decides.
ApplyObserverPolicy_LastWins(plan, mode, cooldown) ==
    [plan EXCEPT !.policy = [mode |-> mode, allow |-> plan.policy.allow \cup plan.observer,
                             cooldown |-> Shorter(plan.policy.cooldown, cooldown)]]

\* _apply_observer_policy
ApplyObserverPolicy(plan, mode, cooldown) ==
    LET rp == plan.policy IN
    [plan EXCEPT !.policy =
       [mode     |-> IF rp.mode = "none" THEN mode ELSE Stronger(rp.mode, mode),
        allow    |-> rp.allow \cup plan.observer,
        cooldown |-> Shorter(rp.cooldown, cooldown)]]

MergeObserverTargets(plan, targets, reason) ==
    [plan EXCEPT !.observer = @ \cup (targets \ plan.primary),
                 !.reasons = @ \cup {reason}]

Observe(plan, targets, reason, mode, cooldown) ==
    ApplyObserverPolicy(MergeObserverTargets(plan, targets, reason), mode, cooldown)

\* _is_klee_repeat_candidate
IsKleeRepeatCandidate(m) ==
    m.handler = "none" /\ m.body = "text" /\ ~m.link /\ ~m.card

OnLink(plan, m) ==
    IF "links" \in Features /\ m.link
    THEN Observe(plan, LinkTargets, "link", "first_valid", LinkCooldown)
    ELSE plan

OnCard(plan, m) ==
    IF "cards" \in Features /\ m.card
    THEN Observe(plan, CardTargets, "card", "first_valid", CardCooldown)
    ELSE plan

OnSummary(plan, m) ==
    IF "summary" \in Features /\ m.group \in SummaryGroups
    THEN Observe(plan, SummaryTargets, "summary", "gated", 0)
    ELSE plan

OnKleeRepeat(plan, m) ==
    IF "klee_repeat" \in Features /\ m.group \in KleeRepeatGroups
         /\ IsKleeRepeatCandidate(m)
    THEN [plan EXCEPT !.internal = @ \cup {"klee_core.repeat"}]
    ELSE plan

OnLegacyRepeat(plan, m) ==
    IF "legacy_repeat" \in Features /\ m.group \in LegacyGroups
         /\ ~m.link /\ ~m.card
    THEN Observe(plan, LegacyTargets, "astrbot_repeat_observer_legacy", "gated",
                 LegacyCooldown)
    ELSE plan

\* route, for a message that is no command.
RouteObservers(m) ==
    LET plan == OnLegacyRepeat(OnKleeRepeat(OnSummary(OnCard(OnLink(
                    EmptyPlan, m), m), m), m), m)
    IN  IF plan.observer = {} THEN plan
        ELSE [plan EXCEPT !.strategy = "observer"]

\* Mutant: the early return after a command is lost.
Route_NoReturn(m) == IF m.handler # "none" THEN OnSummary(RouteCommand(m.handler), m)
                     ELSE RouteObservers(m)

Route(m) == IF m.handler # "none" THEN RouteCommand(m.handler)
            ELSE RouteObservers(m)

=============================================================================
