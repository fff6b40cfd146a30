----------------------------- MODULE ApiProxyProofs -----------------------------
(***************************************************************************)
(* What the API proxy promises for every set of bots, calls and URLs: the  *)
(* arbiter works in it as it does alone, and the shared URL that every     *)
(* task writes sends no request to a bot that cannot execute it.           *)
(***************************************************************************)
EXTENDS ApiProxy, ReplyArbiterProofs

-----------------------------------------------------------------------------
(* The arbiter in the middle of the proxy. *)

LEMMA CallFields ==
  ASSUME NEW c \in Calls
  PROVE  /\ c.kind \in KindNames
         /\ c.request \in Requests
         /\ c.request.group \in Groups \cup {NoId}
         /\ c.selfId \in Bots \cup {NoId}
         /\ Resolved(c.request) \in Requests
<1>1. c \in CallType
  BY ProxyAssumption
<1>2. c.request \in Requests /\ c.kind \in Kinds /\ c.selfId \in Bots \cup {NoId}
  BY <1>1 DEF CallType
<1>3. c.request \in Request
  BY <1>2, RequestsAssumption
<1> QED
  BY <1>2, <1>3, ProxyAssumption DEF Request

\* To the arbiter, every step of the proxy is an event, an arbitration, a tick,
\* or nothing.
LEMMA ArbiterStep == [ProxyNext]_allVars => [Next]_vars
<1> SUFFICES ASSUME [ProxyNext]_allVars PROVE [Next]_vars
  OBVIOUS
<1>1. ASSUME NEW bot \in Bots, NEW g \in Groups \cup {NoId},
             NEW u \in Users \cup {NoId}, NEW p \in Plans, Record(bot, g, u, p)
      PROVE  Next
  BY <1>1 DEF Record, Next
<1>2. ASSUME NEW c \in Calls, HandleSend(c)
      PROVE  Next
  BY <1>2, CallFields DEF HandleSend, Next
<1>3. ASSUME NEW c \in Calls, HandleOther(c) \/ PostRepeat(c)
      PROVE  Next
  BY <1>3 DEF HandleOther, PostRepeat, Next
<1>4. ASSUME NEW c \in Calls, NapcatAnswers(c) \/ TimesOut(c) \/ ReturnResponse(c)
      PROVE  Next
  BY <1>4 DEF NapcatAnswers, TimesOut, ReturnResponse, Settle, Next
<1>5. CASE TickAll
  BY <1>5 DEF TickAll, Next
<1>6. CASE UNCHANGED allVars
  BY <1>6 DEF allVars
<1> QED
  BY <1>1, <1>2, <1>3, <1>4, <1>5, <1>6 DEF ProxyNext

\* The proxy implements the arbiter: however the requests of the downstreams,
\* of the HTTP fallback and of the repeat service interleave with events and
\* with NapCat's answers, its dictionaries see one call at a time.
THEOREM ProxyImplementsArbiter == ProxySpec => Spec
<1>1. ProxyInit => Init
  BY DEF ProxyInit
<1> QED
  BY <1>1, ArbiterStep, PTL DEF ProxySpec, Spec

\* So the guarantees of the arbiter are guarantees of the proxy, to every client
\* of it (handle_api arbitrates in the same step in which it posts).
THEOREM ProxyArbitrates ==
  ProxySpec => /\ []ScheduledCap
               /\ []NoObserverRescue
               /\ []GrantHasFreshContext
               /\ []ThrottleSpacing
               /\ RefusalIsFree
  BY ProxyImplementsArbiter, CapCorrect, RescueCorrect, GrantCorrect, ThrottleCorrect, RefusalCorrect

-----------------------------------------------------------------------------
(* The proxy's own variables. *)

LEMMA RoutedUrl ==
  ASSUME url \in Urls, NEW c \in Calls, RouteNapcat(c)
  PROVE  url' \in Urls
  BY DEF RouteNapcat, Urls

\* A call that leaves the state "new" with a post or a refusal.
LEMMA PostType ==
  ASSUME ProxyTypeOK, NEW c \in Calls, url' \in Urls, Post(c)
  PROVE  ProxyTypeOK'
  BY ProxyAssumption DEF ProxyTypeOK, Post, Statuses

LEMMA BlockType ==
  ASSUME ProxyTypeOK, NEW c \in Calls, status[c] = "new", url' \in Urls, Block(c)
  PROVE  ProxyTypeOK'
  BY DEF ProxyTypeOK, Block, Statuses

LEMMA SettleType ==
  ASSUME ProxyTypeOK, NEW c \in Calls, status[c] \in {"posted", "responded"},
         NEW outcome \in {"responded", "returned", "lost"}, Settle(c, outcome)
  PROVE  ProxyTypeOK'
  BY DEF ProxyTypeOK, Settle, Statuses

LEMMA ProxyTypeInit == ProxyInit => ProxyTypeOK
  BY DEF ProxyInit, ProxyTypeOK, Statuses, Urls

LEMMA ProxyTypeNext == ProxyTypeOK /\ [ProxyNext]_allVars => ProxyTypeOK'
<1> SUFFICES ASSUME ProxyTypeOK, [ProxyNext]_allVars PROVE ProxyTypeOK'
  OBVIOUS
<1>1. ASSUME UNCHANGED proxyVars
      PROVE  ProxyTypeOK'
  BY <1>1 DEF proxyVars, ProxyTypeOK
<1>2. ASSUME NEW bot \in Bots, NEW g \in Groups \cup {NoId},
             NEW u \in Users \cup {NoId}, NEW p \in Plans, Record(bot, g, u, p)
      PROVE  ProxyTypeOK'
  BY <1>1, <1>2 DEF Record, proxyVars
<1>3. ASSUME NEW c \in Calls, HandleSend(c)
      PROVE  ProxyTypeOK'
  <2>1. url' \in Urls /\ status[c] = "new"
    BY <1>3, RoutedUrl DEF HandleSend, ProxyTypeOK
  <2>2. Post(c) \/ Block(c)
    BY <1>3 DEF HandleSend
  <2> QED
    BY <2>1, <2>2, PostType, BlockType
<1>4. ASSUME NEW c \in Calls, HandleOther(c)
      PROVE  ProxyTypeOK'
  <2>1. url' \in Urls
    BY <1>4, RoutedUrl DEF HandleOther, ProxyTypeOK
  <2> QED
    BY <1>4, <2>1, PostType DEF HandleOther
<1>5. ASSUME NEW c \in Calls, PostRepeat(c)
      PROVE  ProxyTypeOK'
  BY <1>5, PostType DEF PostRepeat, ProxyTypeOK
<1>6. ASSUME NEW c \in Calls, NapcatAnswers(c) \/ TimesOut(c) \/ ReturnResponse(c)
      PROVE  ProxyTypeOK'
  BY <1>6, SettleType DEF NapcatAnswers, TimesOut, ReturnResponse
<1>7. CASE TickAll \/ UNCHANGED allVars
  BY <1>1, <1>7 DEF TickAll, allVars
<1> QED
  BY <1>2, <1>3, <1>4, <1>5, <1>6, <1>7 DEF ProxyNext

\* The shared URL is always one of the configured ones, and a request is posted
\* once at most: a refused one never (handle_api returns).
THEOREM ProxyTypes == ProxySpec => []ProxyTypeOK
  BY ProxyTypeInit, ProxyTypeNext, PTL DEF ProxySpec

-----------------------------------------------------------------------------
(* Routing. *)

\* A group's bot is one whose events of the group were seen.
BotsAreMembers == \A g \in Groups : groupBot[g] # NoId => g \in MemberOf[groupBot[g]]

LEMMA MembersInit == ProxyInit => BotsAreMembers
  BY DEF ProxyInit, Init, BotsAreMembers

LEMMA MembersNext ==
  TypeOK /\ BotsAreMembers /\ [ProxyNext]_allVars => BotsAreMembers'
<1> SUFFICES ASSUME TypeOK, BotsAreMembers, [ProxyNext]_allVars PROVE BotsAreMembers'
  OBVIOUS
<1>1. ASSUME UNCHANGED groupBot
      PROVE  BotsAreMembers'
  BY <1>1 DEF BotsAreMembers
<1>2. ASSUME NEW bot \in Bots, NEW g \in Groups \cup {NoId},
             NEW u \in Users \cup {NoId}, NEW p \in Plans, Record(bot, g, u, p)
      PROVE  BotsAreMembers'
  BY <1>2 DEF Record, RecordEvent, BotsAreMembers, TypeOK
<1>3. ASSUME NEW c \in Calls, HandleSend(c)
      PROVE  BotsAreMembers'
  BY <1>1, <1>3 DEF HandleSend, Arbitrate, ArbitrateByMode, ArbitrateThrottled,
                    ArbitrateUnsolicited
<1>4. ASSUME NEW c \in Calls, \/ HandleOther(c) \/ PostRepeat(c) \/ NapcatAnswers(c)
                              \/ TimesOut(c) \/ ReturnResponse(c)
      PROVE  BotsAreMembers'
  BY <1>1, <1>4 DEF HandleOther, PostRepeat, NapcatAnswers, TimesOut, ReturnResponse,
                    Settle, ArbiterIdle
<1>5. CASE TickAll
  BY <1>1, <1>5 DEF TickAll, Tick
<1>6. CASE UNCHANGED allVars
  BY <1>1, <1>6 DEF allVars, vars
<1> QED
  BY <1>2, <1>3, <1>4, <1>5, <1>6 DEF ProxyNext

\* A call that is posted and is not a repeat was routed in the same step, so
\* what other tasks wrote to the shared URL before does not matter to it.
LEMMA PostingRoutes ==
  ASSUME ProxyTypeOK, [ProxyNext]_allVars, NEW c \in Calls, Posting(c), c.kind # "repeat",
         BotOf(c) \in Mapped
  PROVE  postedTo'[c] = HttpUrl[BotOf(c)]
<1>1. status[c] = "new" /\ status'[c] = "posted"
  BY DEF Posting
<1>2. RouteNapcat(c) /\ Post(c)
  <2>1. ASSUME NEW bot \in Bots, NEW g \in Groups \cup {NoId},
               NEW u \in Users \cup {NoId}, NEW p \in Plans, Record(bot, g, u, p)
        PROVE  FALSE
    BY <1>1, <2>1 DEF Record
  <2>2. ASSUME NEW d \in Calls, HandleSend(d)
        PROVE  RouteNapcat(c) /\ Post(c)
    <3>1. Post(d) \/ Block(d)
      BY <2>2 DEF HandleSend
    <3>2. d = c /\ ~Block(d)
      BY <1>1, <3>1 DEF Post, Block, ProxyTypeOK
    <3> QED
      BY <2>2, <3>1, <3>2 DEF HandleSend
  <2>3. ASSUME NEW d \in Calls, HandleOther(d)
        PROVE  RouteNapcat(c) /\ Post(c)
    BY <1>1, <2>3 DEF HandleOther, Post, ProxyTypeOK
  <2>4. ASSUME NEW d \in Calls, PostRepeat(d)
        PROVE  FALSE
    BY <1>1, <2>4 DEF PostRepeat, Post, ProxyTypeOK
  <2>5. ASSUME NEW d \in Calls, NapcatAnswers(d) \/ TimesOut(d) \/ ReturnResponse(d)
        PROVE  FALSE
    BY <1>1, <2>5 DEF NapcatAnswers, TimesOut, ReturnResponse, Settle, ProxyTypeOK
  <2>6. CASE TickAll \/ UNCHANGED allVars
    BY <1>1, <2>6 DEF TickAll, allVars, proxyVars
  <2> QED
    BY <2>1, <2>2, <2>3, <2>4, <2>5, <2>6 DEF ProxyNext
<1>3. url' = HttpUrl[BotOf(c)]
  BY <1>2 DEF RouteNapcat
<1>4. postedTo'[c] = url'
  BY <1>2 DEF Post, ProxyTypeOK
<1> QED
  BY <1>3, <1>4

\* A request that names its bot is executed by that bot, whatever URL other
\* tasks have left behind.
THEOREM NamedCorrect == ProxySpec => NamedBotExecutes
<1>1. ProxyTypeOK /\ [ProxyNext]_allVars
      => [\A c \in Calls : Posting(c) /\ c.kind # "repeat" /\ c.selfId \in Mapped
            => postedTo'[c] = HttpUrl[c.selfId]]_allVars
  <2> SUFFICES ASSUME ProxyTypeOK, [ProxyNext]_allVars, NEW c \in Calls,
                      Posting(c), c.kind # "repeat", c.selfId \in Mapped
               PROVE  postedTo'[c] = HttpUrl[c.selfId]
    OBVIOUS
  <2>1. BotOf(c) = c.selfId
    BY ProxyAssumption DEF BotOf
  <2> QED
    BY <2>1, PostingRoutes
<1> QED
  BY <1>1, ProxyTypes, PTL DEF ProxySpec, NamedBotExecutes

\* A request for a group that names no bot is executed by a bot that was seen
\* to be in the group, however the tasks interleave on the shared URL.
THEOREM GroupCorrect == ProxySpec => GroupGoesToMember
<1>1. TypeOK /\ ProxyTypeOK /\ BotsAreMembers /\ [ProxyNext]_allVars
      => [\A c \in Calls :
            Posting(c) /\ c.kind # "repeat" /\ c.selfId = NoId
              /\ c.request.group # NoId /\ groupBot[c.request.group] \in Mapped
            => \E b \in Mapped : /\ HttpUrl[b] = postedTo'[c]
                                 /\ c.request.group \in MemberOf[b]]_allVars
  <2> SUFFICES ASSUME TypeOK, ProxyTypeOK, BotsAreMembers, [ProxyNext]_allVars,
                      NEW c \in Calls, Posting(c), c.kind # "repeat", c.selfId = NoId,
                      c.request.group # NoId, groupBot[c.request.group] \in Mapped
               PROVE  \E b \in Mapped : /\ HttpUrl[b] = postedTo'[c]
                                        /\ c.request.group \in MemberOf[b]
    OBVIOUS
  <2>1. BotOf(c) = groupBot[c.request.group]
    BY DEF BotOf
  <2>2. postedTo'[c] = HttpUrl[groupBot[c.request.group]]
    BY <2>1, PostingRoutes
  <2>3. c.request.group \in MemberOf[groupBot[c.request.group]]
    BY CallFields, ProxyAssumption DEF BotsAreMembers
  <2> QED
    BY <2>2, <2>3
<1>2. ProxySpec => []TypeOK
  BY ProxyImplementsArbiter, TypeCorrect
<1> QED
  BY <1>1, <1>2, ProxyTypes, MembersInit, MembersNext, PTL DEF ProxySpec, GroupGoesToMember

=============================================================================
