---------------------------- MODULE MCEventHandler ----------------------------
(* An instance of EventHandler for TLC: two bots in one group, an astrbot of   *)
(* the first bot and a yunzai of any bot.  c1 and c2 are the bots' connections *)
(* and see copies of one message.                                              *)
EXTENDS EventHandler, TLC

CONSTANTS g1, u1, b1, b2, c1, c2

Policy(mode, names) == [mode |-> mode, allow |-> names, cooldown |-> 0]

ChatPlan ==
    [strategy |-> "observer", primary |-> {}, observer |-> {"astrbot"},
     internal |-> {"klee_core.repeat"}, handler |-> "none",
     policy |-> Policy("gated", {"astrbot"}),
     reasons |-> {"summary"}]

NoticePlan ==
    [strategy |-> "self_id_route", primary |-> {}, observer |-> {}, internal |-> {},
     handler |-> "none", policy |-> Policy("silent", {}), reasons |-> {}]

Router == INSTANCE PlanResolution WITH
    Features <- {"summary", "klee_repeat"},
    LinkTargets <- {"astrbot"}, SummaryTargets <- {"astrbot"},
    CardTargets <- {"astrbot"}, LegacyTargets <- {"astrbot"},
    LinkCooldown <- 2, CardCooldown <- 2, LegacyCooldown <- 3,
    SummaryGroups <- {g1}, KleeRepeatGroups <- {g1}, LegacyGroups <- {},
    NoBot <- NoId

\* The plans, written out for TLC, are the pipeline's.
ASSUME PipelinePlans ==
    /\ NoticePlan = Router!SelfIdRoute
    /\ \A b \in Bots :
         ChatPlan = Router!PlanFor(
             [group |-> g1, bot |-> b, handler |-> "none", mentions |-> FALSE,
              link |-> FALSE, card |-> FALSE, body |-> "text"], FALSE)

MCPlans == {ChatPlan, NoticePlan}

MCKind == [d \in Downstreams |-> d]
MCSelfId == ("astrbot" :> b1 @@ "yunzai" :> NoId)
MCRank == ("astrbot" :> 1 @@ "yunzai" :> 2)
MCBot == (c1 :> b1 @@ c2 :> b2)
NoWindows == <<>>

Event(type, id, plan) ==
    [type |-> type, id |-> id, repeats |-> "klee_core.repeat" \in plan.internal,
     group |-> g1, user |-> u1, plan |-> plan]

Chat == Event("event", "m1", ChatPlan)
CopyOfChat == [Chat EXCEPT !.repeats = FALSE]
Poke == Event("event", "n1", NoticePlan)
OwnMessage == Event("own", "m2", ChatPlan)
Garbage == Event("garbage", "m2", NoticePlan)
StringMessage == Event("raising", "m2", NoticePlan)

MCScript ==
    c1 :> <<Chat>> @@ c2 :> <<OwnMessage, StringMessage, CopyOfChat, Poke, Garbage>>

MCRequests ==
    {[source |-> "astrbot", action |-> "send_group_msg", group |-> g1, user |-> NoId]}
=============================================================================
