------------------------------- MODULE ApiProxy -------------------------------
(***************************************************************************)
(* OneBotAPIProxy.handle_api of app/services/onebot_bridge/api_proxy.py,   *)
(* UpstreamNapCatClient.call_api (upstream.py), the HTTP fallback and the  *)
(* repeat service's sends (main.py): from an API request to the NapCat     *)
(* instance that executes it and back.                                     *)
(*                                                                         *)
(* Every request is a task of its own.  handle_api routes, arbitrates and  *)
(* hands the request to the HTTP client without an await in between, then  *)
(* waits for NapCat.  All tasks share one napcat_http_url.                 *)
(***************************************************************************)
EXTENDS ReplyArbiter

CONSTANTS
    Calls,               \* the API calls that are made, see CallType
    Kinds,               \* kinds of the calls, of KindNames
    HttpUrl,             \* _bot_http_map: bot -> the URL of its NapCat
    DefaultUrl,          \* napcat_http_url at startup
    MemberOf,            \* bot -> the groups it is in
    NoUrl                \* not posted

\* "send": a WebSocket request for one of SEND_ACTIONS; "query": another
\* action; "http": a request over the HTTP fallback; "repeat": send_repeat.
KindNames == {"send", "query", "http", "repeat"}

\* A call's id, kind, arbitrated request and self_id parameter (NoId: none).
CallType == [id : Nat, kind : Kinds, request : Requests, selfId : Bots \cup {NoId}]

Mapped == DOMAIN HttpUrl

Urls == {HttpUrl[b] : b \in Mapped} \cup {DefaultUrl}

\* "send_msg" becomes an action of its own by the parameters it has.
Resolved(r) ==
    CASE r.action = "send_msg" /\ r.group # NoId -> [r EXCEPT !.action = "send_group_msg"]
      [] r.action = "send_msg" /\ r.group = NoId /\ r.user # NoId
                                                 -> [r EXCEPT !.action = "send_private_msg"]
      [] OTHER                                   -> r

ASSUME ProxyAssumption ==
    /\ Kinds \subseteq KindNames
    /\ Calls \subseteq CallType
    /\ \A c \in Calls : Resolved(c.request) \in Requests
    /\ Mapped \subseteq Bots /\ NoId \notin Bots
    /\ NoUrl \notin Urls
    /\ MemberOf \in [Bots -> SUBSET Groups]

VARIABLES
    url,                 \* napcat_http_url
    status,              \* call -> what became of it
    postedTo             \* call -> the URL its HTTP request went to

proxyVars == <<url, status, postedTo>>
allVars == <<vars, proxyVars>>

Statuses == {"new", "posted", "responded", "returned", "lost", "blocked"}

ProxyInit ==
    /\ Init
    /\ url = DefaultUrl
    /\ status = [c \in Calls |-> "new"]
    /\ postedTo = [c \in Calls |-> NoUrl]

-----------------------------------------------------------------------------

\* record_event: a bot sees the events of its groups and private chats.
Record(bot, g, u, p) ==
    /\ g = NoId \/ g \in MemberOf[bot]
    /\ RecordEvent(bot, g, u, p)
    /\ UNCHANGED <<url, status, postedTo>>

\* Mutant: a request that names no bot is not looked up by its group.
BotOf_NoGroup(c) == c.selfId

\* Mutant: the group's bot is preferred to the one that is named.
BotOf_GroupFirst(c) ==
    IF c.request.group = NoId \/ groupBot[c.request.group] = NoId THEN c.selfId
    ELSE groupBot[c.request.group]

\* _resolve_self_id and the first half of _route_napcat.
BotOf(c) == IF c.selfId # NoId \/ c.request.group = NoId THEN c.selfId
            ELSE groupBot[c.request.group]

\* _route_napcat writes the shared URL, or leaves the one of the last request.
RouteNapcat(c) ==
    url' = IF BotOf(c) \in Mapped THEN HttpUrl[BotOf(c)] ELSE url

\* call_api, up to the HTTP request.
Post(c) ==
    /\ status' = [status EXCEPT ![c] = "posted"]
    /\ postedTo' = [postedTo EXCEPT ![c] = url']

\* Mutant: the return after the refusal is lost.
Block_FallsThrough(c) ==
    /\ status' = [status EXCEPT ![c] = "blocked"]
    /\ postedTo' = [postedTo EXCEPT ![c] = url']

\* A refused request: _fake_success raises when it builds the response
\* (OneBotAPIResponse has no field `message'), the task ends in the log.
Block(c) ==
    /\ status' = [status EXCEPT ![c] = "blocked"]
    /\ UNCHANGED postedTo

\* A service of the name "klee_core" may always send.
Arbitrated(c) == c.kind = "send" /\ c.request.source # "klee_core"

HandleSend(c) ==
    /\ Arbitrated(c) /\ status[c] = "new"
    /\ RouteNapcat(c)
    /\ Arbitrate(Resolved(c.request))
    /\ IF verdict'.allowed THEN Post(c) ELSE Block(c)

\* Requests that send nothing and HTTP requests are not arbitrated.
HandleOther(c) ==
    /\ c.kind # "repeat" /\ ~Arbitrated(c) /\ status[c] = "new"
    /\ RouteNapcat(c)
    /\ Post(c)
    /\ ArbiterIdle

\* send_repeat calls call_api directly: no routing, no arbitration.
PostRepeat(c) ==
    /\ c.kind = "repeat" /\ status[c] = "new"
    /\ UNCHANGED url
    /\ Post(c)
    /\ ArbiterIdle

Settle(c, outcome) ==
    /\ status' = [status EXCEPT ![c] = outcome]
    /\ ArbiterIdle
    /\ UNCHANGED <<url, postedTo>>

NapcatAnswers(c) == status[c] = "posted" /\ Settle(c, "responded")

\* Mutant: the HTTP client waits for ever.
TimesOut_Never(c) == FALSE

\* httpx.Timeout(30): call_api turns it into a failed response.
TimesOut(c) == status[c] = "posted" /\ Settle(c, "responded")

\* The response goes back: over the WebSocket, which may be down by now, as the
\* HTTP response, or to send_repeat.
ReturnResponse(c) ==
    /\ status[c] = "responded"
    /\ \/ Settle(c, "returned")
       \/ c.kind \in {"send", "query"} /\ Settle(c, "lost")

TickAll == Tick /\ UNCHANGED proxyVars

ProxyNext ==
    \/ \E bot \in Bots, g \in Groups \cup {NoId}, u \in Users \cup {NoId},
          p \in Plans : Record(bot, g, u, p)
    \/ \E c \in Calls :
          HandleSend(c) \/ HandleOther(c) \/ PostRepeat(c)
            \/ NapcatAnswers(c) \/ TimesOut(c) \/ ReturnResponse(c)
    \/ TickAll

ProxySpec == ProxyInit /\ [][ProxyNext]_allVars

\* The event loop runs every task that is not waiting, and a wait for NapCat
\* ends after the timeout.  NapCat need not answer, no event need happen.
ProxyFairness ==
    \A c \in Calls :
       /\ WF_allVars(HandleSend(c) \/ HandleOther(c) \/ PostRepeat(c))
       /\ WF_allVars(TimesOut(c))
       /\ WF_allVars(ReturnResponse(c))

FairProxySpec == ProxySpec /\ ProxyFairness

-----------------------------------------------------------------------------
(* Properties *)

\* The type invariant of the proxy's part.
ProxyTypeOK ==
    /\ url \in Urls
    /\ status \in [Calls -> Statuses]
    /\ postedTo \in [Calls -> Urls \cup {NoUrl}]
    /\ \A c \in Calls : postedTo[c] = NoUrl <=> status[c] \in {"new", "blocked"}

Posting(c) == status[c] = "new" /\ status'[c] = "posted"

\* However the requests of several downstreams and of the HTTP fallback
\* interleave on the shared URL, a request for a group that names no bot is
\* executed by a bot that is in the group, once an event of the group was seen
\* by a bot that has a URL.
GroupGoesToMember ==
    [][\A c \in Calls :
         Posting(c) /\ c.kind # "repeat" /\ c.selfId = NoId
           /\ c.request.group # NoId /\ groupBot[c.request.group] \in Mapped
         => \E b \in Mapped : /\ HttpUrl[b] = postedTo'[c]
                              /\ c.request.group \in MemberOf[b]]_allVars

\* A request that names its bot is executed by that bot, whatever URL other
\* tasks have left behind.
NamedBotExecutes ==
    [][\A c \in Calls :
         Posting(c) /\ c.kind # "repeat" /\ c.selfId \in Mapped
         => postedTo'[c] = HttpUrl[c.selfId]]_allVars

\* Every request is settled: executed, blocked or timed out, and its answer
\* handed back or lost with the connection; no task waits for ever.
EveryCallSettles ==
    \A c \in Calls : status[c] = "new" ~> status[c] \in {"returned", "lost", "blocked"}

\* What api_proxy.py says of blocked requests: they get a fake success response.
BlockedGetsFakeSuccess ==
    \A c \in Calls : status[c] = "blocked" ~> status[c] = "returned"

\* What send_repeat says: the original event's self_id decides who sends.
RepeatUsesOwnBot ==
    [][\A c \in Calls :
         Posting(c) /\ c.kind = "repeat" => postedTo'[c] = HttpUrl[c.selfId]]_allVars

=============================================================================
