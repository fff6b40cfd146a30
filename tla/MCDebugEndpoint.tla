--------------------------- MODULE MCDebugEndpoint ---------------------------
(* An instance of DebugEndpoint for TLC: a mention is posted and posted      *)
(* again, another call is posted and three that are turned away, mentions     *)
(* arrive over the WebSocket, and the bridge shuts down.                      *)
EXTENDS DebugEndpoint, TLC

CONSTANTS g1, private, b1, b2, b3

MCKind == [d \in Downstreams |-> d]
MCSelfId == [d \in Downstreams |-> NoBot]
MCRules == <<>>
MCManaged == (b1 :> {g1} @@ b2 :> {})

Said(group, bot, topics) ==
    [group |-> group, bot |-> bot, topics |-> topics, meaningless |-> FALSE,
     segments |-> <<[type |-> "at", text |-> "", marks |-> {}, to |-> bot, long |-> FALSE]>>]

Mention == Said(g1, b1, {})
Call == Said(g1, b1, {"klee"})
Elsewhere == Said(g1, b2, {})
Stranger == Said(g1, b3, {})

MCEvents == {Mention, Call, Elsewhere, Stranger}

MCEventOf ==
    (1 :> Mention @@ 2 :> Mention @@ 3 :> Call
       @@ 4 :> Elsewhere @@ 5 :> Stranger @@ 6 :> Mention)
MCTypeOf == [p \in Posts |-> IF p = 6 THEN "other" ELSE "group"]
=============================================================================
