--------------------------- MODULE MCReplyArbiter ---------------------------
(* Instances of ReplyArbiter for TLC.  The plans are the ones the pipeline  *)
(* makes (PlanResolution) of representative messages, not invented ones.    *)
EXTENDS ReplyArbiter

CONSTANTS g1, g2, u1, b1

Router == INSTANCE PlanResolution WITH
    Features <- {"links", "summary"},
    LinkTargets <- {"astrbot_main", "astrbot_secondary"},
    SummaryTargets <- {"astrbot_main"},
    CardTargets <- {"astrbot_main"}, LegacyTargets <- {"astrbot_main"},
    LinkCooldown <- 2, CardCooldown <- 2, LegacyCooldown <- 3,
    SummaryGroups <- {g1}, KleeRepeatGroups <- {}, LegacyGroups <- {},
    NoBot <- NoId, SelfId <- [d \in Downstreams |-> NoId]

Said(group, handler, link) ==
    [group |-> group, bot |-> b1, handler |-> handler, mentions |-> FALSE,
     link |-> link, card |-> FALSE, body |-> "text"]

PlanOf(m) == Router!PlanFor(m, FALSE)

Link    == PlanOf(Said(g2, "none", TRUE))       \* first_valid
Summary == PlanOf(Said(g1, "none", FALSE))      \* gated
Command == PlanOf(Said(g1, "astrbot", FALSE))   \* exclusive
Notice  == Router!SelfIdRoute                   \* silent

ReplyPlans  == {Link, Summary, Command}
NoticePlans == {Notice}

MCKind == [d \in Downstreams |->
             IF d \in {"astrbot_main", "astrbot_secondary"} THEN "astrbot" ELSE d]

ToGroup(s, g) == [source |-> s, action |-> "send_group_msg", group |-> g, user |-> NoId]
ToUser(s, u) == [source |-> s, action |-> "send_private_msg", group |-> NoId, user |-> u]

\* The astrbot answers everywhere; yunzai, which no plan here wakes, only signs in.
MCRequests ==
    {ToGroup("yunzai", g1)}
    \cup {ToGroup("astrbot_main", g) : g \in Groups}
    \cup {ToUser("astrbot_main", u) : u \in Users}

SignIn == {ToGroup("yunzai", g1)}

\* A window that spans midnight and one right after it, on a day of 4 ticks.
MCWindows == <<[start |-> 3, end |-> 0], [start |-> 1, end |-> 1]>>

MorningOnly == <<[start |-> 0, end |-> 0]>>
NoWindows == <<>>
MCSummaryWindows == {[start |-> 2, end |-> 2]}
=============================================================================
