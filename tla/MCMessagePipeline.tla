-------------------------- MODULE MCMessagePipeline --------------------------
(* An instance of MessagePipeline for TLC: one group in which every observer  *)
(* is enabled and the private chats, a bot with an astrbot of its own and     *)
(* one without, and messages of every kind the detectors tell apart.          *)
EXTENDS MessagePipeline

CONSTANTS g1, private, b1, b2

MCFeatures == FeatureNames
MCKind == [d \in Downstreams |->
             IF d \in {"astrbot_main", "astrbot_secondary"} THEN "astrbot" ELSE d]
MCSelfId == [d \in Downstreams |-> IF d = "astrbot_main" THEN b1 ELSE NoBot]

Rule(matches, handler, mention) ==
    [matches |-> matches, handler |-> handler, mention |-> mention]

\* One rule of each kind in routes.yaml, and two handlers it has no rule for.
MCRules ==
    <<Rule({"#sign"}, "yunzai", FALSE), Rule({"/help"}, "astrbot", FALSE),
      Rule({"recap"}, "astrbot", TRUE), Rule({"favor", "recap"}, "klee_core", FALSE),
      Rule({"ask hermes"}, "hermes", FALSE), Rule({"meme"}, "meme", FALSE)>>

Part(type, marks) ==
    [type |-> type, text |-> Blank, marks |-> marks, to |-> "nobody", long |-> FALSE]

Text(text) == [Part("text", {}) EXCEPT !.text = text]
At(who) == [Part("at", {}) EXCEPT !.to = who]
Image == Part("image", {})
ImageWithUrl == [Part("image", {"url"}) EXCEPT !.long = TRUE]
Link == [Text("look") EXCEPT !.marks = {"url", "bilibili", "video"}]
Card(marks) == [Part("json", marks) EXCEPT !.long = TRUE]
Video == Part("video", {"douyin"})
SpacedOut == [Text("h  i") EXCEPT !.long = TRUE]
Speech == [Text("speech") EXCEPT !.long = TRUE]

Said(group, bot, segments) ==
    [group |-> group, bot |-> bot, segments |-> segments, topics |-> {},
     meaningless |-> FALSE]

Commands ==
    {Said(g1, b1, <<Text(t)>>) : t \in {"#sign", "/help", "pat", "favor", "ask hermes", "meme"}}
    \cup {Said(g1, b2, <<Text("/help")>>), Said(g1, b1, <<Text("recap")>>)}
    \cup {Said(g1, b1, <<At(b1), Text(t)>>) : t \in {"recap", "#sign"}}

Chatter ==
    {Said(g1, b1, segments) :
       segments \in {<<Text("hi")>>, <<Text(" ")>>, <<SpacedOut>>,
                     <<Speech>>, <<Image>>, <<ImageWithUrl>>, <<Image, Text("hi")>>,
                     <<Link>>, <<Card({})>>, <<Card({"bilibili"})>>, <<Video>>,
                     <<Link, Card({"douyin"})>>, <<At(b2), Text("hi")>>, <<>>}}

Mentions ==
    {[Said(g1, b1, <<At(b1), Text("hi")>>) EXCEPT !.topics = t] : t \in {{}, {"klee"}, {"sad"}}}
    \cup {Said(private, b1, <<At(b1), Text("hi")>>)}
    \cup {[Said(g1, b1, <<At("all"), Link>>) EXCEPT !.topics = {"klee"}],
          [Said(g1, b1, <<At(b1)>>) EXCEPT !.meaningless = TRUE]}

MCEvents == Commands \cup Chatter \cup Mentions
=============================================================================
