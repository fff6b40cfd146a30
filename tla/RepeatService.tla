---------------------------- MODULE RepeatService ----------------------------
(***************************************************************************)
(* KleeCoreRepeatService of app/services/repeat_service.py, driven by step *)
(* 3 of _on_upstream_event (app/main.py) on every NapCat connection.       *)
(*                                                                         *)
(* A connection handles one event at a time: add_message and should_repeat *)
(* run without an await, then send_repeat suspends the handler until       *)
(* NapCat answers or 30 seconds have passed, while the other connections   *)
(* go on.  In a group with several bots each of them delivers its own copy *)
(* of a message.  A message is one that the router made a repeat candidate *)
(* (IsKleeRepeatCandidate of PluginRouter); add_message excludes by the    *)
(* same conditions and so keeps it.  A text is a normalised text.          *)
(***************************************************************************)
EXTENDS Naturals, Sequences, FiniteSets

CONSTANTS
    Groups, Texts,
    Bots,            \* one NapCat connection each
    Members,         \* group -> the bots in it
    Threshold, Window, Cooldown,
    CacheSize,       \* maxlen of the deque
    Idle,            \* the connection awaits no send
    Never,           \* absent entry of _cooldowns
    NoDecision,
    MaxSaid,         \* bounds the messages said in each group
    MaxTime          \* bounds the clock

ASSUME RepeatAssumption ==
    /\ Members \in [Groups -> SUBSET Bots]
    /\ {Threshold, Window, Cooldown, CacheSize, MaxSaid, MaxTime} \subseteq Nat \ {0}

Send == [group : Groups, text : Texts]

ASSUME BotsAssumption == IsFiniteSet(Bots)

ASSUME RepeatAbsentAssumption == Never \notin Nat /\ Idle \notin Send

VARIABLES
    now,
    said,            \* group -> everything said in it
    handled,         \* <<bot, group>> -> how much of it that bot's connection handled
    recent,          \* _recent: group -> the texts of the last messages
    lastRepeat,      \* _cooldowns
    repeatedTexts,   \* _repeated_texts
    sending,         \* bot -> the repeat its connection is sending
    decision,        \* the RepeatDecision of this step
    posted           \* history: <<group, text>> -> how often NapCat was asked to send it

vars == <<now, said, handled, recent, lastRepeat, repeatedTexts, sending,
          decision, posted>>

Reasons == {"cooldown", "below_threshold", "already_repeated", "threshold_met"}

Init ==
    /\ now = 0
    /\ said = [g \in Groups |-> <<>>]
    /\ handled = [x \in Bots \X Groups |-> 0]
    /\ recent = [g \in Groups |-> <<>>]
    /\ lastRepeat = [g \in Groups |-> Never]
    /\ repeatedTexts = [g \in Groups |-> {}]
    /\ sending = [b \in Bots |-> Idle]
    /\ decision = NoDecision
    /\ posted = [x \in Groups \X Texts |-> 0]

-----------------------------------------------------------------------------
(* The service *)

LastN(s, n) == IF Len(s) <= n THEN s ELSE SubSeq(s, Len(s) - n + 1, Len(s))

\* Mutant: the cache is not bounded.
Cached_Unbounded(g, t) == Append(recent[g], t)

\* add_message
Cached(g, t) == LastN(Append(recent[g], t), CacheSize)

\* Mutant: one occurrence less is enough.
Enough_OneLess(g, t) ==
    LET slice == LastN(Cached(g, t), Window)
    IN  Cardinality({i \in DOMAIN slice : slice[i] = t}) + 1 >= Threshold

Enough(g, t) ==
    LET slice == LastN(Cached(g, t), Window)
    IN  Cardinality({i \in DOMAIN slice : slice[i] = t}) >= Threshold

InCooldown(g) == lastRepeat[g] # Never /\ now - lastRepeat[g] < Cooldown

\* should_repeat
Decide(g, t) ==
    CASE InCooldown(g)           -> "cooldown"
      [] ~InCooldown(g) /\ ~Enough(g, t) -> "below_threshold"
      [] ~InCooldown(g) /\ Enough(g, t) /\ t \in repeatedTexts[g] -> "already_repeated"
      [] OTHER                   -> "threshold_met"

\* Mutant: the cooldown starts when the send has ended (nowhere else).
Trigger_NoStamp(b, g, t) ==
    /\ repeatedTexts' = [repeatedTexts EXCEPT ![g] = @ \cup {t}]
    /\ sending' = [sending EXCEPT ![b] = [group |-> g, text |-> t]]
    /\ UNCHANGED lastRepeat

\* The decision is written down before the send is awaited.
Trigger(b, g, t) ==
    /\ repeatedTexts' = [repeatedTexts EXCEPT ![g] = @ \cup {t}]
    /\ lastRepeat' = [lastRepeat EXCEPT ![g] = now]
    /\ sending' = [sending EXCEPT ![b] = [group |-> g, text |-> t]]

-----------------------------------------------------------------------------
(* The connections *)

Say(g, t) ==
    /\ Len(said[g]) < MaxSaid
    /\ said' = [said EXCEPT ![g] = Append(@, t)]
    /\ decision' = NoDecision
    /\ UNCHANGED <<now, handled, recent, lastRepeat, repeatedTexts, sending, posted>>

HandleMessage(b, g) ==
    LET next == handled[<<b, g>>] + 1
        t == said[g][next]
    IN  /\ b \in Members[g]
        /\ sending[b] = Idle
        /\ next <= Len(said[g])
        /\ handled' = [handled EXCEPT ![<<b, g>>] = next]
        /\ recent' = [recent EXCEPT ![g] = Cached(g, t)]
        /\ decision' = [group |-> g, text |-> t, reason |-> Decide(g, t)]
        /\ IF Decide(g, t) = "threshold_met" THEN Trigger(b, g, t)
           ELSE UNCHANGED <<lastRepeat, repeatedTexts, sending>>
        /\ UNCHANGED <<now, said, posted>>

\* send_repeat returns: the message was sent, or call_api reports a failure,
\* which nothing undoes.
FinishRepeat(b, ok) ==
    /\ sending[b] # Idle
    /\ sending' = [sending EXCEPT ![b] = Idle]
    /\ posted' = IF ok THEN [posted EXCEPT ![<<sending[b].group, sending[b].text>>] = @ + 1]
                 ELSE posted
    /\ decision' = NoDecision
    /\ UNCHANGED <<now, said, handled, recent, lastRepeat, repeatedTexts>>

Tick ==
    /\ now < MaxTime
    /\ now' = now + 1
    /\ decision' = NoDecision
    /\ UNCHANGED <<said, handled, recent, lastRepeat, repeatedTexts, sending, posted>>

Next ==
    \/ \E g \in Groups, t \in Texts : Say(g, t)
    \/ \E b \in Bots, g \in Groups : HandleMessage(b, g)
    \/ \E b \in Bots, ok \in BOOLEAN : FinishRepeat(b, ok)
    \/ Tick

Spec == Init /\ [][Next]_vars

-----------------------------------------------------------------------------
(* Properties *)

\* The type invariant; the cache never outgrows its bound.
TypeOK ==
    /\ now \in 0..MaxTime
    /\ said \in [Groups -> Seq(Texts)]
    /\ handled \in [Bots \X Groups -> Nat]
    /\ \A b \in Bots, g \in Groups : handled[<<b, g>>] <= Len(said[g])
    /\ recent \in [Groups -> Seq(Texts)]
    /\ \A g \in Groups : Len(recent[g]) <= CacheSize
    /\ lastRepeat \in [Groups -> Nat \cup {Never}]
    /\ repeatedTexts \in [Groups -> SUBSET Texts]
    /\ sending \in [Bots -> Send \cup {Idle}]
    /\ decision \in [group : Groups, text : Texts, reason : Reasons] \cup {NoDecision}
    /\ posted \in [Groups \X Texts -> Nat]

\* A text is sent at most once in a group, for ever: the texts that were repeated
\* are never forgotten, although the comments of repeat_service.py (:11 and
\* :206) speak of a deduplication within the cooldown.
RepeatOnce ==
    \A g \in Groups, t \in Texts :
       LET under_way == {b \in Bots : sending[b] = [group |-> g, text |-> t]}
       IN  posted[<<g, t>>] + Cardinality(under_way) <= 1

\* Two repeats in one group are at least the cooldown apart, whichever
\* connections decide on them and however long the sends take.
RepeatSpacing ==
    [][\A b \in Bots : sending[b] = Idle /\ sending'[b] # Idle
         => LET g == sending'[b].group
            IN  /\ lastRepeat'[g] = now
                /\ lastRepeat[g] = Never \/ now - lastRepeat[g] >= Cooldown]_vars

\* The bot never starts a repetition by itself: a text is repeated only when
\* people said it often enough to give Threshold copies, one for each bot in
\* the group.
RepeatHasQuorum ==
    decision # NoDecision /\ decision.reason = "threshold_met"
    => LET g == decision.group
           times == Cardinality({i \in DOMAIN said[g] : said[g][i] = decision.text})
       IN  times * Cardinality(Members[g]) >= Threshold

=============================================================================
