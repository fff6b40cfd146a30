-------------------------- MODULE RepeatServiceProofs --------------------------
(***************************************************************************)
(* Theorems about RepeatService, for every number of groups, texts and     *)
(* bots, every threshold, window, cooldown and cache size.                 *)
(*                                                                         *)
(* RepeatOnce is not inductive: that no second connection sends a text     *)
(* follows from what repeatedTexts remembers of it.  OnceInv says so: a    *)
(* text that is being sent or was posted is in repeatedTexts, one          *)
(* connection at most sends it, and none does once it is posted.           *)
(***************************************************************************)
EXTENDS RepeatService, FiniteSetTheorems, TLAPS

\* What should_repeat looks at and add_message keeps is a sequence of texts,
\* no longer than asked for.
LEMMA LastNBounds ==
    ASSUME NEW S, NEW s \in Seq(S), NEW n \in Nat
    PROVE  LastN(s, n) \in Seq(S) /\ Len(LastN(s, n)) <= n
<1>1. CASE Len(s) <= n
  BY <1>1 DEF LastN
<1>2. CASE ~(Len(s) <= n)
  <2>0. Len(s) \in Nat
    OBVIOUS
  <2>1. Len(s) - n + 1 \in 1..Len(s) + 1
    BY <1>2, <2>0
  <2>2. LastN(s, n) = SubSeq(s, Len(s) - n + 1, Len(s))
    BY <1>2 DEF LastN
  <2>3. LastN(s, n) \in Seq(S)
    BY <2>1, <2>2
  <2>4. Len(LastN(s, n)) = n
    BY <2>1, <2>2
  <2> QED BY <2>3, <2>4
<1> QED BY <1>1, <1>2

LEMMA CachedBounds ==
    ASSUME TypeOK, NEW g \in Groups, NEW t \in Texts
    PROVE  Cached(g, t) \in Seq(Texts) /\ Len(Cached(g, t)) <= CacheSize
<1>1. Append(recent[g], t) \in Seq(Texts)
  BY DEF TypeOK
<1>2. CacheSize \in Nat
  BY RepeatAssumption
<1> QED BY <1>1, <1>2, LastNBounds DEF Cached

\* The message a connection is about to handle is one that was said.
LEMMA NextIsText ==
    ASSUME TypeOK, NEW b \in Bots, NEW g \in Groups,
           handled[<<b, g>>] + 1 <= Len(said[g])
    PROVE  said[g][handled[<<b, g>>] + 1] \in Texts
<1>1. said[g] \in Seq(Texts) /\ handled[<<b, g>>] \in Nat
  BY DEF TypeOK
<1>2. handled[<<b, g>>] + 1 \in 1..Len(said[g])
  BY <1>1
<1> QED BY <1>1, <1>2

-----------------------------------------------------------------------------
(* Type correctness *)

LEMMA InitType == Init => TypeOK
<1> SUFFICES ASSUME Init PROVE TypeOK
  OBVIOUS
<1>1. MaxTime \in Nat /\ CacheSize \in Nat
  BY RepeatAssumption
<1>2. <<>> \in Seq(Texts) /\ Len(<<>>) = 0
  OBVIOUS
<1> QED BY <1>1, <1>2 DEF Init, TypeOK

LEMMA SayType ==
    ASSUME TypeOK, NEW g \in Groups, NEW t \in Texts, Say(g, t)
    PROVE  TypeOK'
<1> USE DEF Say, TypeOK
<1>1. said' \in [Groups -> Seq(Texts)]
  OBVIOUS
<1>2. \A h \in Groups : Len(said[h]) <= Len(said'[h])
  OBVIOUS
<1>3. \A b \in Bots, h \in Groups : handled'[<<b, h>>] <= Len(said'[h])
  <2> SUFFICES ASSUME NEW b \in Bots, NEW h \in Groups
               PROVE  handled[<<b, h>>] <= Len(said'[h])
    OBVIOUS
  <2>1. handled[<<b, h>>] \in Nat /\ Len(said[h]) \in Nat /\ Len(said'[h]) \in Nat
    BY <1>1
  <2> QED BY <2>1, <1>2
<1> QED BY <1>1, <1>3

LEMMA HandleMessageType ==
    ASSUME TypeOK, NEW b \in Bots, NEW g \in Groups, HandleMessage(b, g)
    PROVE  TypeOK'
<1> DEFINE next == handled[<<b, g>>] + 1
           t == said[g][next]
<1>1. t \in Texts
  BY NextIsText DEF HandleMessage
<1>2. Cached(g, t) \in Seq(Texts) /\ Len(Cached(g, t)) <= CacheSize
  BY <1>1, CachedBounds
<1>3. Decide(g, t) \in Reasons
  BY DEF Decide, Reasons
<1> HIDE DEF t
<1>4. /\ handled' = [handled EXCEPT ![<<b, g>>] = next]
      /\ next <= Len(said[g])
      /\ recent' = [recent EXCEPT ![g] = Cached(g, t)]
      /\ decision' = [group |-> g, text |-> t, reason |-> Decide(g, t)]
      /\ Trigger(b, g, t) \/ UNCHANGED <<lastRepeat, repeatedTexts, sending>>
      /\ UNCHANGED <<now, said, posted>>
  BY DEF HandleMessage, t
<1>5. handled' \in [Bots \X Groups -> Nat]
  BY <1>4 DEF TypeOK
<1>6. \A c \in Bots, h \in Groups : handled'[<<c, h>>] <= Len(said'[h])
  BY <1>4 DEF TypeOK
<1>7. recent' \in [Groups -> Seq(Texts)] /\ \A h \in Groups : Len(recent'[h]) <= CacheSize
  BY <1>2, <1>4 DEF TypeOK
<1>8. decision' \in [group : Groups, text : Texts, reason : Reasons]
  BY <1>1, <1>3, <1>4
<1>9. /\ lastRepeat' \in [Groups -> Nat \cup {Never}]
      /\ repeatedTexts' \in [Groups -> SUBSET Texts]
      /\ sending' \in [Bots -> Send \cup {Idle}]
  <2>1. CASE Trigger(b, g, t)
    <3>1. now \in Nat
      BY DEF TypeOK
    <3>2. [group |-> g, text |-> t] \in Send
      BY <1>1 DEF Send
    <3> QED BY <2>1, <3>1, <3>2, <1>1 DEF Trigger, TypeOK
  <2>2. CASE UNCHANGED <<lastRepeat, repeatedTexts, sending>>
    BY <2>2 DEF TypeOK
  <2> QED BY <1>4, <2>1, <2>2
<1> QED BY <1>4, <1>5, <1>6, <1>7, <1>8, <1>9 DEF TypeOK

LEMMA FinishRepeatType ==
    ASSUME TypeOK, NEW b \in Bots, NEW ok \in BOOLEAN, FinishRepeat(b, ok)
    PROVE  TypeOK'
<1> USE DEF TypeOK, FinishRepeat
<1>1. sending[b] \in Send
  OBVIOUS
<1>2. sending[b].group \in Groups /\ sending[b].text \in Texts
  BY <1>1 DEF Send
<1>3. posted' \in [Groups \X Texts -> Nat]
  BY <1>2
<1> QED BY <1>3

LEMMA TypeStep == TypeOK /\ [Next]_vars => TypeOK'
<1> SUFFICES ASSUME TypeOK, [Next]_vars PROVE TypeOK'
  OBVIOUS
<1>1. ASSUME NEW g \in Groups, NEW t \in Texts, Say(g, t) PROVE TypeOK'
  BY <1>1, SayType
<1>2. ASSUME NEW b \in Bots, NEW g \in Groups, HandleMessage(b, g) PROVE TypeOK'
  BY <1>2, HandleMessageType
<1>3. ASSUME NEW b \in Bots, NEW ok \in BOOLEAN, FinishRepeat(b, ok) PROVE TypeOK'
  BY <1>3, FinishRepeatType
<1>4. CASE Tick
  BY <1>4, RepeatAssumption DEF Tick, TypeOK
<1>5. CASE UNCHANGED vars
  BY <1>5 DEF vars, TypeOK
<1> QED BY <1>1, <1>2, <1>3, <1>4, <1>5 DEF Next

\* The service's dictionaries keep their types, and the cache of a group never
\* outgrows maxlen of the deque (add_message).
THEOREM TypeCorrect == Spec => []TypeOK
<1> QED BY InitType, TypeStep, PTL DEF Spec

-----------------------------------------------------------------------------
(* At most once *)

IsSending(b, g, t) == sending[b] = [group |-> g, text |-> t]

OnceInv ==
    \A g \in Groups, t \in Texts :
       /\ posted[<<g, t>>] <= 1
       /\ t \notin repeatedTexts[g]
          => posted[<<g, t>>] = 0 /\ \A b \in Bots : ~IsSending(b, g, t)
       /\ \A b \in Bots : IsSending(b, g, t) => posted[<<g, t>>] = 0
       /\ \A b, c \in Bots : IsSending(b, g, t) /\ IsSending(c, g, t) => b = c

LEMMA SameOnce ==
    ASSUME OnceInv, UNCHANGED <<repeatedTexts, sending, posted>> PROVE OnceInv'
<1> SUFFICES ASSUME NEW g \in Groups, NEW t \in Texts
             PROVE  /\ posted'[<<g, t>>] <= 1
                    /\ t \notin repeatedTexts'[g]
                       => posted'[<<g, t>>] = 0 /\ \A b \in Bots : ~IsSending(b, g, t)'
                    /\ \A b \in Bots : IsSending(b, g, t)' => posted'[<<g, t>>] = 0
                    /\ \A b, c \in Bots : IsSending(b, g, t)' /\ IsSending(c, g, t)' => b = c
  BY DEF OnceInv
<1>1. \A b \in Bots : IsSending(b, g, t)' <=> IsSending(b, g, t)
  BY DEF IsSending
<1> QED BY <1>1 DEF OnceInv

LEMMA InitOnce == Init => OnceInv
BY RepeatAbsentAssumption DEF Init, OnceInv, IsSending, Send

\* A send begins only for a text that is not in repeatedTexts.
LEMMA HandleMessageOnce ==
    ASSUME TypeOK, OnceInv, NEW b \in Bots, NEW g \in Groups, HandleMessage(b, g)
    PROVE  OnceInv'
<1> DEFINE t == said[g][handled[<<b, g>>] + 1]
<1>1. t \in Texts
  BY NextIsText DEF HandleMessage
<1>2. CASE Decide(g, t) # "threshold_met"
  BY <1>2, SameOnce DEF HandleMessage
<1>3. CASE Decide(g, t) = "threshold_met"
  <2>1. t \notin repeatedTexts[g]
    BY <1>3 DEF Decide
  <2>2. Trigger(b, g, t) /\ posted' = posted /\ sending[b] = Idle
    BY <1>3 DEF HandleMessage
  <2> HIDE DEF t
  <2>3. \A c \in Bots : sending'[c] = IF c = b THEN [group |-> g, text |-> t] ELSE sending[c]
    BY <2>2 DEF Trigger, TypeOK
  <2>4. \A h \in Groups : repeatedTexts'[h]
                          = IF h = g THEN repeatedTexts[h] \cup {t} ELSE repeatedTexts[h]
    BY <2>2 DEF Trigger, TypeOK
  <2> SUFFICES ASSUME NEW h \in Groups, NEW u \in Texts
               PROVE  /\ posted'[<<h, u>>] <= 1
                      /\ u \notin repeatedTexts'[h]
                         => posted'[<<h, u>>] = 0 /\ \A c \in Bots : ~IsSending(c, h, u)'
                      /\ \A c \in Bots : IsSending(c, h, u)' => posted'[<<h, u>>] = 0
                      /\ \A c, d \in Bots : IsSending(c, h, u)' /\ IsSending(d, h, u)' => c = d
    BY DEF OnceInv
  <2>5. CASE h = g /\ u = t
    <3>1. \A c \in Bots : IsSending(c, h, u)' <=> c = b
      <4>1. IsSending(b, h, u)'
        BY <2>3, <2>5 DEF IsSending
      <4>2. \A c \in Bots : c # b => ~IsSending(c, h, u)
        BY <2>1, <2>5 DEF OnceInv
      <4>3. \A c \in Bots : c # b => (IsSending(c, h, u)' <=> IsSending(c, h, u))
        BY <2>3 DEF IsSending
      <4> QED BY <4>1, <4>2, <4>3
    <3>2. posted'[<<h, u>>] = 0 /\ u \in repeatedTexts'[h]
      BY <2>1, <2>2, <2>4, <2>5 DEF OnceInv
    <3> QED BY <3>1, <3>2
  <2>6. CASE ~(h = g /\ u = t)
    <3>1. \A c \in Bots : IsSending(c, h, u)' => IsSending(c, h, u)
      BY <2>3, <2>6 DEF IsSending
    <3>2. u \notin repeatedTexts'[h] => u \notin repeatedTexts[h]
      BY <2>4
    <3> QED BY <2>2, <3>1, <3>2 DEF OnceInv
  <2> QED BY <2>5, <2>6
<1> QED BY <1>2, <1>3

LEMMA FinishRepeatOnce ==
    ASSUME TypeOK, OnceInv, NEW b \in Bots, NEW ok \in BOOLEAN, FinishRepeat(b, ok)
    PROVE  OnceInv'
<1>1. PICK g \in Groups, t \in Texts : IsSending(b, g, t)
  BY DEF FinishRepeat, TypeOK, Send, IsSending
<1>2. \A c \in Bots : sending'[c] = IF c = b THEN Idle ELSE sending[c]
  BY DEF FinishRepeat, TypeOK
<1>3. repeatedTexts' = repeatedTexts
  BY DEF FinishRepeat
<1>4. \A h \in Groups, u \in Texts :
         posted'[<<h, u>>] = IF ok /\ h = g /\ u = t THEN posted[<<h, u>>] + 1
                             ELSE posted[<<h, u>>]
  <2>1. sending[b].group = g /\ sending[b].text = t
    BY <1>1 DEF IsSending
  <2> QED BY <2>1 DEF FinishRepeat, TypeOK
<1> SUFFICES ASSUME NEW h \in Groups, NEW u \in Texts
             PROVE  /\ posted'[<<h, u>>] <= 1
                    /\ u \notin repeatedTexts'[h]
                       => posted'[<<h, u>>] = 0 /\ \A c \in Bots : ~IsSending(c, h, u)'
                    /\ \A c \in Bots : IsSending(c, h, u)' => posted'[<<h, u>>] = 0
                    /\ \A c, d \in Bots : IsSending(c, h, u)' /\ IsSending(d, h, u)' => c = d
  BY DEF OnceInv
<1>5. \A c \in Bots : IsSending(c, h, u)' => c # b /\ IsSending(c, h, u)
  BY <1>2, RepeatAbsentAssumption DEF IsSending, Send
<1>6. CASE h = g /\ u = t
  <2>1. posted[<<h, u>>] = 0 /\ u \in repeatedTexts[h]
    BY <1>1, <1>6 DEF OnceInv
  <2>2. \A c \in Bots : ~IsSending(c, h, u)'
    BY <1>1, <1>5, <1>6 DEF OnceInv
  <2> QED BY <1>3, <1>4, <1>6, <2>1, <2>2
<1>7. CASE ~(h = g /\ u = t)
  BY <1>3, <1>4, <1>5, <1>7 DEF OnceInv
<1> QED BY <1>6, <1>7

LEMMA OnceStep == TypeOK /\ OnceInv /\ [Next]_vars => OnceInv'
<1> SUFFICES ASSUME TypeOK, OnceInv, [Next]_vars PROVE OnceInv'
  OBVIOUS
<1>1. ASSUME NEW g \in Groups, NEW t \in Texts, Say(g, t) PROVE OnceInv'
  BY <1>1, SameOnce DEF Say
<1>2. ASSUME NEW b \in Bots, NEW g \in Groups, HandleMessage(b, g) PROVE OnceInv'
  BY <1>2, HandleMessageOnce
<1>3. ASSUME NEW b \in Bots, NEW ok \in BOOLEAN, FinishRepeat(b, ok) PROVE OnceInv'
  BY <1>3, FinishRepeatOnce
<1>4. CASE Tick
  BY <1>4, SameOnce DEF Tick
<1>5. CASE UNCHANGED vars
  BY <1>5, SameOnce DEF vars
<1> QED BY <1>1, <1>2, <1>3, <1>4, <1>5 DEF Next

LEMMA OnceInvSuffices == TypeOK /\ OnceInv => RepeatOnce
<1> SUFFICES ASSUME TypeOK, OnceInv, NEW g \in Groups, NEW t \in Texts
             PROVE  posted[<<g, t>>]
                    + Cardinality({b \in Bots : sending[b] = [group |-> g, text |-> t]}) <= 1
  BY DEF RepeatOnce
<1> DEFINE under_way == {b \in Bots : sending[b] = [group |-> g, text |-> t]}
<1>1. CASE under_way = {}
  <2>1. Cardinality(under_way) = 0
    BY <1>1, FS_EmptySet
  <2>2. posted[<<g, t>>] \in Nat /\ posted[<<g, t>>] <= 1
    BY DEF OnceInv, TypeOK
  <2> QED BY <2>1, <2>2
<1>2. CASE under_way # {}
  <2>1. PICK b \in Bots : IsSending(b, g, t)
    BY <1>2 DEF IsSending
  <2>2. under_way = {b}
    BY <2>1 DEF OnceInv, IsSending
  <2>3. Cardinality(under_way) = 1
    BY <2>2, FS_Singleton
  <2>4. posted[<<g, t>>] = 0
    BY <2>1 DEF OnceInv
  <2> QED BY <2>3, <2>4
<1> QED BY <1>1, <1>2

\* However the connections interleave, NapCat is asked at most once to send a
\* text in a group: should_repeat marks it before send_repeat is awaited.
THEOREM OnceCorrect == Spec => []RepeatOnce
<1>1. Init => TypeOK /\ OnceInv
  BY InitType, InitOnce
<1>2. TypeOK /\ OnceInv /\ [Next]_vars => TypeOK' /\ OnceInv'
  BY TypeStep, OnceStep
<1> QED BY <1>1, <1>2, OnceInvSuffices, PTL DEF Spec

-----------------------------------------------------------------------------
(* Spacing *)

Spaced(b) ==
    sending[b] = Idle /\ sending'[b] # Idle
    => LET g == sending'[b].group
       IN  /\ lastRepeat'[g] = now
           /\ lastRepeat[g] = Never \/ now - lastRepeat[g] >= Cooldown

\* Only the connection that handles a message begins to send, in its group,
\* and only after the cooldown.
LEMMA HandleMessageSpaced ==
    ASSUME TypeOK, NEW b \in Bots, NEW g \in Groups, HandleMessage(b, g), NEW c \in Bots
    PROVE  Spaced(c)
<1> DEFINE t == said[g][handled[<<b, g>>] + 1]
<1> SUFFICES ASSUME sending[c] = Idle, sending'[c] # Idle
             PROVE  /\ lastRepeat'[sending'[c].group] = now
                    /\ \/ lastRepeat[sending'[c].group] = Never
                       \/ now - lastRepeat[sending'[c].group] >= Cooldown
  BY DEF Spaced
<1>1. Decide(g, t) = "threshold_met"
  BY DEF HandleMessage
<1>2. Trigger(b, g, t)
  BY <1>1 DEF HandleMessage
<1>3. ~InCooldown(g)
  BY <1>1 DEF Decide
<1> HIDE DEF t
<1>4. sending'[c] = [group |-> g, text |-> t]
  BY <1>2 DEF Trigger, TypeOK
<1>5. sending'[c].group = g
  BY <1>4
<1>6. lastRepeat'[g] = now
  BY <1>2 DEF Trigger, TypeOK
<1>7. lastRepeat[g] = Never \/ now - lastRepeat[g] >= Cooldown
  BY <1>3, RepeatAssumption DEF InCooldown, TypeOK
<1> QED BY <1>5, <1>6, <1>7

\* Repeats in a group are at least a cooldown apart, measured between the
\* decisions, whichever connections take them.
THEOREM SpacingCorrect == Spec => RepeatSpacing
<1>1. TypeOK /\ [Next]_vars => [\A b \in Bots : Spaced(b)]_vars
  <2> SUFFICES ASSUME TypeOK, Next, NEW c \in Bots PROVE Spaced(c)
    OBVIOUS
  <2>1. ASSUME NEW g \in Groups, NEW t \in Texts, Say(g, t) PROVE Spaced(c)
    BY <2>1 DEF Say, Spaced
  <2>2. ASSUME NEW b \in Bots, NEW g \in Groups, HandleMessage(b, g) PROVE Spaced(c)
    BY <2>2, HandleMessageSpaced
  <2>3. ASSUME NEW b \in Bots, NEW ok \in BOOLEAN, FinishRepeat(b, ok) PROVE Spaced(c)
    BY <2>3 DEF FinishRepeat, Spaced, TypeOK
  <2>4. CASE Tick
    BY <2>4 DEF Tick, Spaced
  <2> QED BY <2>1, <2>2, <2>3, <2>4 DEF Next
<1>2. [][\A b \in Bots : Spaced(b)]_vars => RepeatSpacing
  BY DEF RepeatSpacing, Spaced
<1> QED BY <1>1, <1>2, TypeCorrect, PTL DEF Spec

-----------------------------------------------------------------------------
(* The quorum *)

\* LastN drops a number of first elements.
LEMMA LastNSuffix ==
    ASSUME NEW S, NEW s \in Seq(S), NEW n \in Nat
    PROVE  \E off \in Nat :
              /\ off + Len(LastN(s, n)) = Len(s)
              /\ \A i \in 1..Len(LastN(s, n)) : LastN(s, n)[i] = s[i + off]
<1>0. Len(s) \in Nat
  OBVIOUS
<1>1. CASE Len(s) <= n
  BY <1>0, <1>1 DEF LastN
<1>2. CASE ~(Len(s) <= n)
  <2> DEFINE off == Len(s) - n
  <2>1. off \in Nat /\ off + 1 \in 1..Len(s) + 1
    BY <1>0, <1>2
  <2>2. LastN(s, n) = SubSeq(s, off + 1, Len(s))
    BY <1>2 DEF LastN
  <2>3. Len(LastN(s, n)) = n
    BY <1>0, <2>1, <2>2
  <2>4. \A i \in 1..n : LastN(s, n)[i] = s[i + off]
    BY <1>0, <2>1, <2>2
  <2> QED BY <1>0, <2>1, <2>3, <2>4
<1> QED BY <1>1, <1>2

Copies(g) == Members[g] \X Nat

\* Each entry of a sequence of texts is a message of the group's that one bot
\* handled, and two entries are not the same message handled by the same bot.
\* done and spoken are handled and said, before a step or after it.
Sources(g, texts, src, done, spoken) ==
    /\ src \in [1..Len(texts) -> Copies(g)]
    /\ \A i, j \in 1..Len(texts) : src[i] = src[j] => i = j
    /\ \A i \in 1..Len(texts) : /\ src[i][2] \in 1..done[<<src[i][1], g>>]
                                /\ spoken[g][src[i][2]] = texts[i]

\* Every entry of the caches is a copy of its own of something said.
QuorumInv ==
    \A g \in Groups : \E src \in [1..Len(recent[g]) -> Copies(g)] :
                         Sources(g, recent[g], src, handled, said)

LEMMA InitQuorum == Init => QuorumInv
<1> SUFFICES ASSUME Init, NEW g \in Groups
             PROVE  \E src \in [1..Len(recent[g]) -> Copies(g)] :
                       Sources(g, recent[g], src, handled, said)
  BY DEF QuorumInv
<1>1. Len(recent[g]) = 0
  BY DEF Init
<1> DEFINE src == [i \in 1..0 |-> CHOOSE x \in Copies(g) : TRUE]
<1>2. Sources(g, recent[g], src, handled, said)
  BY <1>1 DEF Sources
<1> QED BY <1>2 DEF Sources

\* What LastN keeps has sources when its argument has.
LEMMA SourcesOfLastN ==
    ASSUME NEW g, NEW texts \in Seq(Texts), NEW n \in Nat,
           NEW src, NEW done, NEW spoken, Sources(g, texts, src, done, spoken)
    PROVE  \E suffix \in [1..Len(LastN(texts, n)) -> Copies(g)] :
              Sources(g, LastN(texts, n), suffix, done, spoken)
<1> DEFINE kept == LastN(texts, n)
<1>1. PICK off \in Nat : /\ off + Len(kept) = Len(texts)
                         /\ \A i \in 1..Len(kept) : kept[i] = texts[i + off]
  BY LastNSuffix
<1>2. Len(kept) \in Nat /\ Len(texts) \in Nat
  BY LastNBounds
<1> DEFINE suffix == [i \in 1..Len(kept) |-> src[i + off]]
<1> HIDE DEF kept
<1>3. \A i \in 1..Len(kept) : i + off \in 1..Len(texts)
  BY <1>1, <1>2
<1>4. suffix \in [1..Len(kept) -> Copies(g)]
  BY <1>3 DEF Sources
<1>5. \A i, j \in 1..Len(kept) : suffix[i] = suffix[j] => i = j
  <2> SUFFICES ASSUME NEW i \in 1..Len(kept), NEW j \in 1..Len(kept), suffix[i] = suffix[j]
               PROVE  i = j
    OBVIOUS
  <2>1. i + off = j + off
    BY <1>3 DEF Sources
  <2> QED BY <2>1, <1>1, <1>2
<1>6. \A i \in 1..Len(kept) : /\ suffix[i][2] \in 1..done[<<suffix[i][1], g>>]
                              /\ spoken[g][suffix[i][2]] = kept[i]
  BY <1>1, <1>3 DEF Sources
<1>7. Sources(g, kept, suffix, done, spoken)
  BY <1>4, <1>5, <1>6 DEF Sources
<1> QED BY <1>4, <1>7 DEF kept

\* As many copies of a text as the cache has: no more than were said, one for
\* each bot of the group.
LEMMA CopiesAreSaid ==
    ASSUME NEW done \in [Bots \X Groups -> Nat], NEW spoken \in [Groups -> Seq(Texts)],
           \A b \in Bots, h \in Groups : done[<<b, h>>] <= Len(spoken[h]),
           NEW g \in Groups, NEW t \in Texts, NEW texts \in Seq(Texts),
           NEW src, Sources(g, texts, src, done, spoken)
    PROVE  LET copies == {i \in DOMAIN texts : texts[i] = t}
               times == {i \in DOMAIN spoken[g] : spoken[g][i] = t}
           IN  /\ Cardinality(copies) \in Nat
               /\ Cardinality(times) * Cardinality(Members[g]) \in Nat
               /\ Cardinality(copies) <= Cardinality(times) * Cardinality(Members[g])
<1> DEFINE copies == {i \in DOMAIN texts : texts[i] = t}
           times == {i \in DOMAIN spoken[g] : spoken[g][i] = t}
           from == [i \in copies |-> <<src[i][2], src[i][1]>>]
<1>1. /\ Len(texts) \in Nat /\ DOMAIN texts = 1..Len(texts)
      /\ Len(spoken[g]) \in Nat /\ DOMAIN spoken[g] = 1..Len(spoken[g])
  OBVIOUS
<1>2. IsFiniteSet(copies) /\ Cardinality(copies) \in Nat
  <2>1. IsFiniteSet(1..Len(texts)) /\ copies \in SUBSET (1..Len(texts))
    BY <1>1, FS_Interval
  <2> QED BY <2>1, FS_Subset, FS_CardinalityType
<1>3. IsFiniteSet(times) /\ Cardinality(times) \in Nat
  <2>1. IsFiniteSet(1..Len(spoken[g])) /\ times \in SUBSET (1..Len(spoken[g]))
    BY <1>1, FS_Interval
  <2> QED BY <2>1, FS_Subset, FS_CardinalityType
<1>4. IsFiniteSet(Members[g]) /\ Cardinality(Members[g]) \in Nat
  BY RepeatAssumption, BotsAssumption, FS_Subset, FS_CardinalityType
<1>5. /\ IsFiniteSet(times \X Members[g])
      /\ Cardinality(times \X Members[g]) = Cardinality(times) * Cardinality(Members[g])
  BY <1>3, <1>4, FS_Product
<1>6. from \in [copies -> times \X Members[g]]
  <2> SUFFICES ASSUME NEW i \in copies
               PROVE  src[i][2] \in times /\ src[i][1] \in Members[g]
    OBVIOUS
  <2>1. i \in 1..Len(texts) /\ texts[i] = t
    BY <1>1
  <2>2. src[i] \in Copies(g)
    BY <2>1 DEF Sources
  <2>3. src[i][1] \in Members[g] /\ Members[g] \subseteq Bots
    BY <2>2, RepeatAssumption DEF Copies
  <2>4. src[i][2] \in 1..done[<<src[i][1], g>>] /\ spoken[g][src[i][2]] = t
    BY <2>1 DEF Sources
  <2>5. done[<<src[i][1], g>>] \in Nat /\ done[<<src[i][1], g>>] <= Len(spoken[g])
    BY <2>3
  <2> QED BY <1>1, <2>3, <2>4, <2>5
<1>7. \A i, j \in copies : from[i] = from[j] => i = j
  <2> SUFFICES ASSUME NEW i \in copies, NEW j \in copies, from[i] = from[j]
               PROVE  i = j
    OBVIOUS
  <2>1. i \in 1..Len(texts) /\ j \in 1..Len(texts)
    BY <1>1
  <2>2. src[i][1] = src[j][1] /\ src[i][2] = src[j][2]
    OBVIOUS
  <2>3. src[i] \in Copies(g) /\ src[j] \in Copies(g)
    BY <2>1 DEF Sources
  <2>4. src[i] = <<src[i][1], src[i][2]>> /\ src[j] = <<src[j][1], src[j][2]>>
    BY <2>3 DEF Copies
  <2>5. src[i] = src[j]
    BY <2>2, <2>4
  <2> QED BY <2>1, <2>5 DEF Sources
<1> HIDE DEF copies, times, from
<1>8. ~(Cardinality(times \X Members[g]) < Cardinality(copies))
  BY <1>2, <1>5, <1>6, <1>7, FS_PigeonHole
<1>9. Cardinality(times \X Members[g]) \in Nat
  BY <1>5, FS_CardinalityType
<1>10. /\ Cardinality(copies) \in Nat
       /\ Cardinality(times) * Cardinality(Members[g]) \in Nat
       /\ Cardinality(copies) <= Cardinality(times) * Cardinality(Members[g])
  BY <1>2, <1>5, <1>8, <1>9
<1> QED BY <1>10 DEF copies, times

\* A connection that handles a message adds a copy that no entry comes from.
LEMMA HandleMessageQuorum ==
    ASSUME TypeOK, QuorumInv, NEW b \in Bots, NEW g \in Groups, HandleMessage(b, g)
    PROVE  QuorumInv' /\ RepeatHasQuorum'
<1> DEFINE next == handled[<<b, g>>] + 1
           t == said[g][next]
           longer == Append(recent[g], t)
<1>1. t \in Texts
  BY NextIsText DEF HandleMessage
<1>2. /\ b \in Members[g] /\ next <= Len(said[g])
      /\ handled' = [handled EXCEPT ![<<b, g>>] = next]
      /\ recent' = [recent EXCEPT ![g] = Cached(g, t)]
      /\ decision' = [group |-> g, text |-> t, reason |-> Decide(g, t)]
      /\ UNCHANGED said
  BY DEF HandleMessage
<1>3. next \in Nat /\ handled[<<b, g>>] \in Nat /\ handled'[<<b, g>>] = next
  BY <1>2 DEF TypeOK
<1>4. ASSUME NEW c \in Bots, NEW h \in Groups
      PROVE  /\ handled[<<c, h>>] \in Nat /\ handled'[<<c, h>>] \in Nat
             /\ handled[<<c, h>>] <= handled'[<<c, h>>]
  <2>1. handled \in [Bots \X Groups -> Nat] /\ <<c, h>> \in Bots \X Groups
    BY DEF TypeOK
  <2>2. CASE <<c, h>> = <<b, g>>
    BY <2>1, <2>2, <1>3
  <2>3. CASE <<c, h>> # <<b, g>>
    <3>1. handled'[<<c, h>>] = handled[<<c, h>>]
      BY <2>1, <2>3, <1>2
    <3> QED BY <2>1, <3>1
  <2> QED BY <2>2, <2>3
<1>5. TypeOK'
  BY HandleMessageType
<1> HIDE DEF next, t
<1>6. PICK src \in [1..Len(recent[g]) -> Copies(g)] :
         Sources(g, recent[g], src, handled, said)
  BY DEF QuorumInv
<1> DEFINE n == Len(recent[g])
           more == [i \in 1..n + 1 |-> IF i <= n THEN src[i] ELSE <<b, next>>]
<1>7. /\ n \in Nat /\ longer \in Seq(Texts) /\ Len(longer) = n + 1
      /\ \A i \in 1..n : longer[i] = recent[g][i]
      /\ longer[n + 1] = t
  BY <1>1 DEF TypeOK
<1> HIDE DEF n, longer
<1>8. <<b, next>> \in Copies(g)
  BY <1>2, <1>3 DEF Copies
<1>9. more \in [1..n + 1 -> Copies(g)]
  BY <1>7, <1>8, <1>6 DEF n
<1>10. \A i \in 1..n : /\ src[i][1] \in Members[g] /\ src[i][1] \in Bots
                       /\ src[i][2] \in 1..handled[<<src[i][1], g>>]
                       /\ said[g][src[i][2]] = recent[g][i]
  BY <1>6, RepeatAssumption DEF Sources, Copies, n
<1>11. \A i \in 1..n : src[i] # <<b, next>>
  BY <1>10, <1>3 DEF next
<1>12. \A i, j \in 1..n + 1 : more[i] = more[j] => i = j
  <2> SUFFICES ASSUME NEW i \in 1..n + 1, NEW j \in 1..n + 1, more[i] = more[j]
               PROVE  i = j
    OBVIOUS
  <2>1. CASE i <= n /\ j <= n
    BY <2>1, <1>6, <1>7 DEF Sources, n
  <2>2. CASE ~(i <= n /\ j <= n)
    BY <2>2, <1>7, <1>11
  <2> QED BY <2>1, <2>2
<1>13. \A i \in 1..n + 1 : /\ more[i][2] \in 1..handled'[<<more[i][1], g>>]
                           /\ said[g][more[i][2]] = longer[i]
  <2> SUFFICES ASSUME NEW i \in 1..n + 1
               PROVE  /\ more[i][2] \in 1..handled'[<<more[i][1], g>>]
                      /\ said[g][more[i][2]] = longer[i]
    OBVIOUS
  <2>1. CASE i <= n
    <3>1. i \in 1..n /\ more[i] = src[i]
      BY <2>1, <1>7
    <3>2. /\ src[i][1] \in Bots /\ src[i][2] \in 1..handled[<<src[i][1], g>>]
          /\ said[g][src[i][2]] = longer[i]
      BY <3>1, <1>7, <1>10
    <3>3. src[i][2] \in 1..handled'[<<src[i][1], g>>]
      BY <3>2, <1>4
    <3> QED BY <3>1, <3>2, <3>3
  <2>2. CASE ~(i <= n)
    <3>1. i = n + 1 /\ more[i][1] = b /\ more[i][2] = next
      BY <2>2, <1>7
    <3>2. next \in 1..handled'[<<b, g>>]
      BY <1>3 DEF next
    <3>3. said[g][next] = longer[n + 1]
      BY <1>7 DEF t
    <3> HIDE DEF more
    <3> QED BY <3>1, <3>2, <3>3
  <2> QED BY <2>1, <2>2
<1> HIDE DEF more
<1>14. Sources(g, longer, more, handled', said)
  BY <1>7, <1>9, <1>12, <1>13 DEF Sources
<1>15. Window \in Nat /\ CacheSize \in Nat
  BY RepeatAssumption
<1>16. PICK kept : Sources(g, Cached(g, t), kept, handled', said)
  BY <1>7, <1>14, <1>15, SourcesOfLastN DEF Cached, longer
<1>17. QuorumInv'
  <2> SUFFICES ASSUME NEW h \in Groups
               PROVE  \E s \in [1..Len(recent'[h]) -> Copies(h)] :
                         Sources(h, recent'[h], s, handled', said')
    BY DEF QuorumInv
  <2>1. CASE h = g
    <3>1. recent'[g] = Cached(g, t)
      BY <1>2 DEF TypeOK
    <3>2. kept \in [1..Len(Cached(g, t)) -> Copies(g)]
      BY <1>16 DEF Sources
    <3> QED BY <2>1, <3>1, <3>2, <1>2, <1>16
  <2>2. CASE h # g
    <3>1. recent'[h] = recent[h]
      BY <2>2, <1>2 DEF TypeOK
    <3>2. PICK s \in [1..Len(recent[h]) -> Copies(h)] :
             Sources(h, recent[h], s, handled, said)
      BY DEF QuorumInv
    <3>3. \A i \in 1..Len(recent[h]) : s[i][1] \in Bots
      BY <3>2, RepeatAssumption DEF Sources, Copies
    <3>4. \A i \in 1..Len(recent[h]) : s[i][2] \in 1..handled'[<<s[i][1], h>>]
      BY <3>2, <3>3, <1>4 DEF Sources
    <3>5. Sources(h, recent[h], s, handled', said)
      BY <3>2, <3>4 DEF Sources
    <3> QED BY <3>1, <3>2, <3>5, <1>2
  <2> QED BY <2>1, <2>2
<1>18. RepeatHasQuorum'
  <2> SUFFICES ASSUME Decide(g, t) = "threshold_met"
               PROVE  Cardinality({i \in DOMAIN said[g] : said[g][i] = t})
                        * Cardinality(Members[g]) >= Threshold
    BY <1>2 DEF RepeatHasQuorum
  <2> DEFINE slice == LastN(Cached(g, t), Window)
             copies == {i \in DOMAIN slice : slice[i] = t}
             times == {i \in DOMAIN said[g] : said[g][i] = t}
  <2>1. Cardinality(copies) >= Threshold
    BY DEF Decide, Enough
  <2>2. Cached(g, t) \in Seq(Texts)
    BY <1>1, CachedBounds
  <2>3. slice \in Seq(Texts)
    BY <2>2, <1>15, LastNBounds
  <2>4. PICK s : Sources(g, slice, s, handled', said)
    BY <2>2, <1>15, <1>16, SourcesOfLastN
  <2>5. /\ handled' \in [Bots \X Groups -> Nat] /\ said \in [Groups -> Seq(Texts)]
        /\ \A c \in Bots, h \in Groups : handled'[<<c, h>>] <= Len(said[h])
    BY <1>2, <1>5 DEF TypeOK
  <2> HIDE DEF slice
  <2>6. /\ Cardinality(copies) \in Nat
        /\ Cardinality(times) * Cardinality(Members[g]) \in Nat
        /\ Cardinality(copies) <= Cardinality(times) * Cardinality(Members[g])
    BY <2>3, <2>4, <2>5, <1>1, CopiesAreSaid
  <2>7. Threshold \in Nat
    BY RepeatAssumption
  <2> HIDE DEF copies, times
  <2>8. Cardinality(times) * Cardinality(Members[g]) >= Threshold
    BY <2>1, <2>6, <2>7
  <2> QED BY <2>8 DEF times
<1> QED BY <1>17, <1>18

\* What is said stays where it is, and where the entries came from.
LEMMA SayQuorum ==
    ASSUME TypeOK, QuorumInv, NEW g \in Groups, NEW t \in Texts, Say(g, t)
    PROVE  QuorumInv'
<1> SUFFICES ASSUME NEW h \in Groups
             PROVE  \E s \in [1..Len(recent'[h]) -> Copies(h)] :
                       Sources(h, recent'[h], s, handled', said')
  BY DEF QuorumInv
<1>1. PICK s \in [1..Len(recent[h]) -> Copies(h)] : Sources(h, recent[h], s, handled, said)
  BY DEF QuorumInv
<1>2. UNCHANGED <<recent, handled>>
  BY DEF Say
<1>3. \A k \in 1..Len(said[h]) : said'[h][k] = said[h][k]
  BY DEF Say, TypeOK
<1>4. \A i \in 1..Len(recent[h]) : s[i][2] \in 1..Len(said[h])
  <2> SUFFICES ASSUME NEW i \in 1..Len(recent[h]) PROVE s[i][2] \in 1..Len(said[h])
    OBVIOUS
  <2>1. s[i][1] \in Bots /\ s[i][2] \in 1..handled[<<s[i][1], h>>]
    BY <1>1, RepeatAssumption DEF Sources, Copies
  <2>2. handled[<<s[i][1], h>>] \in Nat /\ handled[<<s[i][1], h>>] <= Len(said[h])
        /\ Len(said[h]) \in Nat
    BY <2>1 DEF TypeOK
  <2> QED BY <2>1, <2>2
<1>5. Sources(h, recent[h], s, handled, said')
  BY <1>1, <1>3, <1>4 DEF Sources
<1> QED BY <1>1, <1>2, <1>5

LEMMA QuorumStep ==
    TypeOK /\ QuorumInv /\ RepeatHasQuorum /\ [Next]_vars => QuorumInv' /\ RepeatHasQuorum'
<1> SUFFICES ASSUME TypeOK, QuorumInv, RepeatHasQuorum, [Next]_vars
             PROVE  QuorumInv' /\ RepeatHasQuorum'
  OBVIOUS
<1>1. ASSUME decision' = NoDecision PROVE RepeatHasQuorum'
  BY <1>1 DEF RepeatHasQuorum
<1>2. ASSUME UNCHANGED <<recent, handled, said>> PROVE QuorumInv'
  BY <1>2 DEF QuorumInv
<1>3. ASSUME NEW g \in Groups, NEW t \in Texts, Say(g, t)
      PROVE  QuorumInv' /\ RepeatHasQuorum'
  BY <1>3, <1>1, SayQuorum DEF Say
<1>4. ASSUME NEW b \in Bots, NEW g \in Groups, HandleMessage(b, g)
      PROVE  QuorumInv' /\ RepeatHasQuorum'
  BY <1>4, HandleMessageQuorum
<1>5. ASSUME NEW b \in Bots, NEW ok \in BOOLEAN, FinishRepeat(b, ok)
      PROVE  QuorumInv' /\ RepeatHasQuorum'
  BY <1>5, <1>1, <1>2 DEF FinishRepeat
<1>6. CASE Tick
  BY <1>6, <1>1, <1>2 DEF Tick
<1>7. CASE UNCHANGED vars
  BY <1>7, <1>2 DEF vars, RepeatHasQuorum
<1> QED BY <1>3, <1>4, <1>5, <1>6, <1>7 DEF Next

\* However many bots deliver copies of a message to the one cache, and whatever
\* of them the cache has dropped, a text is repeated only when people said it
\* often enough to give Threshold copies, one for each bot of the group.
THEOREM QuorumCorrect == Spec => []RepeatHasQuorum
<1>1. Init => RepeatHasQuorum
  BY DEF Init, RepeatHasQuorum
<1> QED BY <1>1, InitType, TypeStep, InitQuorum, QuorumStep, PTL DEF Spec

=============================================================================
