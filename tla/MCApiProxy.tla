------------------------------ MODULE MCApiProxy ------------------------------
(* Instances of ApiProxy for TLC: two bots, one group each and a private     *)
(* chat, plans made by the pipeline's operators (MCReplyArbiter).            *)
EXTENDS ApiProxy, TLC

CONSTANTS g1, g2, u1, b1, b2

Router == INSTANCE PlanResolution WITH
    Features <- {"links"},
    LinkTargets <- {"astrbot_main"}, SummaryTargets <- {"astrbot_main"},
    CardTargets <- {"astrbot_main"}, LegacyTargets <- {"astrbot_main"},
    LinkCooldown <- 2, CardCooldown <- 2, LegacyCooldown <- 3,
    SummaryGroups <- {}, KleeRepeatGroups <- {}, LegacyGroups <- {},
    NoBot <- NoId, SelfId <- [d \in Downstreams |-> NoId]

Command == Router!PlanFor(
    [group |-> g1, bot |-> b1, handler |-> "yunzai", mentions |-> FALSE,
     link |-> FALSE, card |-> FALSE, body |-> "text"], FALSE)

CommandPlans == {Command}

MCUrls == (b1 :> "http5700" @@ b2 :> "http5701")
OneEach == (b1 :> {g1} @@ b2 :> {g2})
MCKind == [d \in Downstreams |-> d]
NoWindows == <<>>

ToGroup(s, g) == [source |-> s, action |-> "send_group_msg", group |-> g, user |-> NoId]
ToUser(s, u) == [source |-> s, action |-> "send_private_msg", group |-> NoId, user |-> u]

\* A request that leaves it to its parameters where it goes.
Somewhere(r) == [r EXCEPT !.action = "send_msg"]

Addressed == {ToGroup("yunzai", g) : g \in Groups} \cup {ToUser("yunzai", u) : u \in Users}

MCRequests == Addressed \cup {Somewhere(r) : r \in Addressed}

Call(id, kind, request, selfId) ==
    [id |-> id, kind |-> kind, request |-> request, selfId |-> selfId]

MixedCalls ==
    {Call(1, "send", ToGroup("yunzai", g1), NoId), Call(2, "send", Somewhere(ToGroup("yunzai", g2)), NoId),
     Call(3, "http", ToGroup("yunzai", g1), b2), Call(4, "repeat", ToGroup("yunzai", g2), b2)}

FewCalls == {Call(1, "repeat", ToGroup("yunzai", g2), b2),
                Call(2, "send", ToGroup("yunzai", g1), NoId)}
=============================================================================
