---------------------------- MODULE EventHandler ----------------------------
(***************************************************************************)
(* From a NapCat connection to the downstreams: the connection loop of     *)
(* upstream.py, _on_upstream_event and the shutdown of main.py, and the    *)
(* routing loops of event_bus.py, with the reply arbiter they feed.        *)
(*                                                                         *)
(* Each connection is a task that handles its frames one at a time.  It    *)
(* suspends where the code awaits: in the send of a repeat, in every push  *)
(* and in the database insert; between two awaits nothing interleaves, so  *)
(* recording an event and starting its first push are one step.  Plans     *)
(* come with the frames (MessagePipeline says which there are), and what a *)
(* downstream's connection does is cut down to the outcome of a push       *)
(* (DownstreamClient).  The clock runs on while the handlers wait.         *)
(***************************************************************************)
EXTENDS ReplyArbiter, ForwardedIds

CONSTANTS
    Conns,               \* NapCat connections, in all of the run
    Bot,                 \* connection -> the self_id of its frames
    Script,              \* connection -> the frames NapCat sends over it
    EventIds,
    SelfId,              \* downstream -> the bot it answers for, or NoId (any)
    Rank,                \* downstream -> its place in the order they were added
    NoClient, NoEvent

\* A frame is not JSON, or an event one of the bots sent itself, or an event on
\* which process() or record_event raises (a message given as a string is one),
\* or an event; repeats: the repeat service decides to repeat it.
Frame == [type : {"garbage", "own", "raising", "event"}, id : EventIds, repeats : BOOLEAN,
          group : Groups \cup {NoId}, user : Users \cup {NoId}, plan : Plans]

ASSUME HandlerAssumption ==
    /\ Bot \in [Conns -> Bots] /\ NoId \notin Bots
    /\ Script \in [Conns -> Seq(Frame)]
    /\ SelfId \in [Downstreams -> Bots \cup {NoId}]
    /\ NoClient \notin Downstreams /\ Rank \in [Downstreams -> Nat]
    /\ \A p \in Plans : p.policy.mode = "silent" => p.policy.allow = {}

VARIABLES
    link,                \* connection -> "open", "gone", "ended"
    arrived,             \* connection -> frames NapCat has sent
    taken,               \* connection -> frames its loop has taken
    step,                \* connection -> where its handler is
    target,              \* connection -> the client it pushes to
    push,                \* connection -> "no", "marked" (waiting), "over" (written)
    todo,                \* connection -> clients still to be pushed to
    table,               \* connection -> _clients when its iteration began
    clients,             \* _clients
    stopping,            \* the client remove_downstream is stopping
    seen,                \* downstream -> _forwarded_ids
    forgotten,           \* history: downstream -> ids that trimming dropped
    copy,                \* history: connection -> its push is a "first" copy, or "anew"
    inbox,               \* downstream -> what it received: <<connection, frame>>s
    phase,               \* of the lifespan
    settled, cut,        \* history: handled to the end; ended by an exception
    latest               \* history: group or user -> the event that was routed
                         \* under its number last, and when

pushVars == <<target, push, todo, seen, forgotten, copy>>
busVars == <<clients, stopping, phase>>
histories == <<settled, cut, latest>>
handlerVars == <<link, arrived, taken, step, table, inbox, pushVars, busVars, histories>>
allVars == <<vars, handlerVars>>

HandlerInit ==
    /\ Init
    /\ link = [c \in Conns |-> "open"]
    /\ arrived = [c \in Conns |-> 0]
    /\ taken = [c \in Conns |-> 0]
    /\ step = [c \in Conns |-> "idle"]
    /\ target = [c \in Conns |-> NoClient]
    /\ push = [c \in Conns |-> "no"]
    /\ todo = [c \in Conns |-> {}]
    /\ table = [c \in Conns |-> {}]
    /\ clients = Downstreams
    /\ stopping = {}
    /\ seen = [d \in Downstreams |-> {}] /\ forgotten = [d \in Downstreams |-> {}]
    /\ copy = [c \in Conns |-> "first"]
    /\ inbox = [d \in Downstreams |-> <<>>]
    /\ phase = "serving"
    /\ settled = {} /\ cut = {}
    /\ latest = [t \in Targets |-> NoEvent]

-----------------------------------------------------------------------------
(* The connections *)

\* A frame is buffered, whatever the handler is doing.  NapCat connects before
\* the first one: a connection with none is open or still to come.
Arrive(c) ==
    /\ link[c] = "open" /\ arrived[c] < Len(Script[c])
    /\ arrived' = [arrived EXCEPT ![c] = @ + 1]
    /\ ArbiterIdle
    /\ UNCHANGED <<link, taken, step, table, inbox, pushVars, busVars, histories>>

\* NapCat is gone after what it had to send; the rest of it is still buffered.
Disconnect(c) ==
    /\ link[c] = "open" /\ arrived[c] = Len(Script[c])
    /\ link' = [link EXCEPT ![c] = "gone"]
    /\ ArbiterIdle
    /\ UNCHANGED <<arrived, taken, step, table, inbox, pushVars, busVars, histories>>

\* Mutant: the loop ends as soon as the peer is gone.
LoopEnds_Early(c) ==
    /\ link[c] = "gone" /\ step[c] = "idle"
    /\ link' = [link EXCEPT ![c] = "ended"]
    /\ ArbiterIdle
    /\ UNCHANGED <<arrived, taken, step, table, inbox, pushVars, busVars, histories>>

\* `async for' ends after the buffered frames, or at the first of them once
\* _running is false.
LoopEnds(c) ==
    /\ link[c] = "gone" /\ step[c] = "idle"
    /\ taken[c] = arrived[c] \/ phase = "closing"
    /\ link' = [link EXCEPT ![c] = "ended"]
    /\ ArbiterIdle
    /\ UNCHANGED <<arrived, taken, step, table, inbox, pushVars, busVars, histories>>

-----------------------------------------------------------------------------
(* Routing: route_event, _route_by_self_id and _route_to_targets.  c is the  *)
(* connection, i the number of its event, rest the clients that are still to *)
(* be pushed to.                                                             *)

IdOf(c, i) == Script[c][i].id

\* The id is marked in the client's memory, which may be trimmed.
Mark(c, i, d) ==
    LET ids == seen[d] \cup {IdOf(c, i)} IN
    \E kept \in Trimmed(ids) :
       /\ seen' = [seen EXCEPT ![d] = kept]
       /\ forgotten' = [forgotten EXCEPT ![d] = (@ \cup ids) \ kept]
       /\ copy' = [copy EXCEPT ![c] = IF IdOf(c, i) \in forgotten[d] THEN "anew"
                                                                   ELSE "first"]

\* Mutant: the event id is not looked up.
PushNext_NoDedup(c, i, mode, rest) ==
    \E d \in rest : \E refused \in SUBSET (rest \ {d}) :
       /\ Mark(c, i, d)
       /\ target' = [target EXCEPT ![c] = d]
       /\ push' = [push EXCEPT ![c] = "marked"]
       /\ todo' = [todo EXCEPT ![c] = rest \ (refused \cup {d})]
       /\ step' = [step EXCEPT ![c] = mode]
       /\ table' = [table EXCEPT ![c] = clients]

\* On to the push that reaches its await.  push_event returns at once when the
\* client is not connected (any client, at any time) or has the id already.
PushNext(c, i, mode, rest) ==
    \E d \in rest : \E refused \in SUBSET (rest \ {d}) :
       /\ IdOf(c, i) \notin seen[d]
       /\ Mark(c, i, d)
       /\ target' = [target EXCEPT ![c] = d]
       /\ push' = [push EXCEPT ![c] = "marked"]
       /\ todo' = [todo EXCEPT ![c] = rest \ (refused \cup {d})]
       /\ step' = [step EXCEPT ![c] = mode]
       /\ table' = [table EXCEPT ![c] = clients]

\* Mutant: the target of the last push is kept.
PushesDone_KeepTarget(c, next) ==
    /\ step' = [step EXCEPT ![c] = next]
    /\ push' = [push EXCEPT ![c] = "no"]
    /\ todo' = [todo EXCEPT ![c] = {}]
    /\ table' = [table EXCEPT ![c] = {}]
    /\ copy' = [copy EXCEPT ![c] = "first"]
    /\ UNCHANGED <<seen, forgotten, target>>

\* The handler goes on behind the routing, or gives the event up.
PushesDone(c, next) ==
    /\ step' = [step EXCEPT ![c] = next]
    /\ push' = [push EXCEPT ![c] = "no"]
    /\ todo' = [todo EXCEPT ![c] = {}]
    /\ target' = [target EXCEPT ![c] = NoClient]
    /\ table' = [table EXCEPT ![c] = {}]
    /\ copy' = [copy EXCEPT ![c] = "first"]
    /\ UNCHANGED <<seen, forgotten>>

\* The clients of the bot that saw the event, and those of any bot.
Own(c) == {d \in clients : SelfId[d] = Bot[c]}
Matching(c) == Own(c) \cup {d \in clients : SelfId[d] = NoId}

\* Those that get it when no client is the bot's own.
Fallback(c, mode) ==
    IF mode = "matching" /\ Own(c) = {} THEN clients \ Matching(c) ELSE {}

\* The rest of the iterations, up to the next await.
Route(c, i, mode, rest) ==
    \/ PushNext(c, i, mode, rest)
    \/ PushNext(c, i, "fallback", Fallback(c, mode))
    \/ PushesDone(c, "storing")

RouteEvent(c, i) ==
    LET plan == Script[c][i].plan IN
    \/ plan.strategy = "silent" /\ PushesDone(c, "storing")
    \/ plan.strategy = "self_id_route" /\ Route(c, i, "matching", Matching(c))
    \/ plan.strategy = "single" /\ Route(c, i, "listed", plan.primary \cap clients)
    \/ plan.strategy = "observer" /\ Route(c, i, "listed", Routed(plan) \cap clients)

-----------------------------------------------------------------------------
(* The handler: _on_upstream_event *)

Routing(c, i) ==
    LET key == ContextKey(Script[c][i].group, Script[c][i].user) IN
    latest' = IF key = NoId THEN latest
              ELSE [latest EXCEPT ![key] = [event |-> <<c, i>>, at |-> now]]

\* The context is recorded before the event is pushed, without an await.
RecordAndRoute(c, i) ==
    LET e == Script[c][i] IN
    /\ RecordEvent(Bot[c], e.group, e.user, e.plan)
    /\ RouteEvent(c, i)
    /\ Routing(c, i)

Takes(c, type) ==
    /\ link[c] \in {"open", "gone"} /\ step[c] = "idle" /\ phase # "closing"
    /\ taken[c] < arrived[c]
    /\ Script[c][taken[c] + 1].type = type
    /\ taken' = [taken EXCEPT ![c] = @ + 1]

\* json.loads raises outside the inner try: the loop is left and the connection
\* closed, with the frames that are buffered behind it.
TakeGarbage(c) ==
    /\ Takes(c, "garbage")
    /\ link' = [link EXCEPT ![c] = "ended"]
    /\ ArbiterIdle
    /\ UNCHANGED <<arrived, step, table, inbox, pushVars, busVars, histories>>

\* An event of one of the bots: filtered before anything else.
TakeOwn(c) ==
    /\ Takes(c, "own")
    /\ ArbiterIdle
    /\ UNCHANGED <<link, arrived, step, table, inbox, pushVars, busVars, histories>>

\* The outer `except': the event is given up, neither recorded nor routed nor
\* stored; the connection goes on.
TakeRaising(c) ==
    /\ Takes(c, "raising")
    /\ cut' = cut \cup {<<c, taken[c] + 1>>}
    /\ ArbiterIdle
    /\ UNCHANGED <<link, arrived, step, table, inbox, pushVars, busVars, settled, latest>>

\* The repeat service decides to repeat, and its send is awaited.
BeginRepeat(c) ==
    /\ Takes(c, "event")
    /\ Script[c][taken[c] + 1].repeats
    /\ step' = [step EXCEPT ![c] = "repeating"]
    /\ ArbiterIdle
    /\ UNCHANGED <<link, arrived, table, inbox, pushVars, busVars, histories>>

\* Any other event is recorded and routed at once.
TakeEvent(c) ==
    /\ Takes(c, "event")
    /\ RecordAndRoute(c, taken[c] + 1)
    /\ UNCHANGED <<link, arrived, inbox, busVars, settled, cut>>

\* Mutant: only the branch that does not repeat records the event.
FinishRepeat_NoRecord(c) ==
    /\ step[c] = "repeating"
    /\ RouteEvent(c, taken[c]) /\ Routing(c, taken[c])
    /\ ArbiterIdle
    /\ UNCHANGED <<link, arrived, taken, inbox, busVars, settled, cut>>

\* The repeat is sent, has failed or has timed out: send_repeat catches all, and
\* record_event cannot raise any more, for the repeat service has put the ids it
\* files the context under through int() before.
FinishRepeat(c) ==
    /\ step[c] = "repeating"
    /\ RecordAndRoute(c, taken[c])
    /\ UNCHANGED <<link, arrived, taken, inbox, busVars, settled, cut>>

\* The event goes out over the target's connection.
Write(c) ==
    /\ push[c] = "marked" /\ target[c] \in clients \cup stopping
    /\ inbox' = [inbox EXCEPT ![target[c]] = Append(@, [event |-> <<c, taken[c]>>,
                                                           copy |-> copy[c]])]
    /\ push' = [push EXCEPT ![c] = "over"]
    /\ ArbiterIdle
    /\ UNCHANGED <<link, arrived, taken, step, table, target, todo, seen,
                   forgotten, copy, busVars, histories>>

\* Mutant: a failed push is an exception for the whole event.
PushReturns_Raises(c) ==
    /\ push[c] # "no"
    /\ IF push[c] = "marked"
       THEN PushesDone(c, "idle") /\ cut' = cut \cup {<<c, taken[c]>>}
       ELSE Route(c, taken[c], step[c], todo[c] \cap clients) /\ UNCHANGED cut
    /\ ArbiterIdle
    /\ UNCHANGED <<link, arrived, taken, inbox, busVars, settled, latest>>

\* A push has returned, True or False.  A list of targets is looked up name by
\* name; an iteration of _clients raises when a client was removed meanwhile.
PushReturns(c) ==
    /\ push[c] # "no"
    /\ \/ /\ step[c] = "listed" \/ table[c] = clients
          /\ Route(c, taken[c], step[c], todo[c] \cap clients)
          /\ UNCHANGED cut
       \/ /\ step[c] # "listed" /\ table[c] # clients
          /\ PushesDone(c, "idle")
          /\ cut' = cut \cup {<<c, taken[c]>>}
    /\ ArbiterIdle
    /\ UNCHANGED <<link, arrived, taken, inbox, busVars, settled, latest>>

\* The insert is committed, or has failed: not fatal.
StoreEnds(c) ==
    /\ step[c] = "storing"
    /\ step' = [step EXCEPT ![c] = "idle"]
    /\ settled' = settled \cup {<<c, taken[c]>>}
    /\ ArbiterIdle
    /\ UNCHANGED <<link, arrived, taken, table, inbox, pushVars, busVars, cut, latest>>

-----------------------------------------------------------------------------
(* The downstreams answer, and the shutdown *)

Answer(r) ==
    /\ r.source \in clients
    /\ Arbitrate(r)
    /\ UNCHANGED handlerVars

\* Mutant: the server only stops listening.
CloseServer_KeepLinks ==
    /\ clients = {}
    /\ stopping' = {} /\ phase' = "closing"
    /\ UNCHANGED <<clients, link>>

\* UpstreamNapCatClient.stop: _running is cleared and the connections closed;
\* wait_closed waits for their handlers.
CloseServer ==
    /\ clients = {}
    /\ stopping' = {} /\ phase' = "closing"
    /\ link' = [c \in Conns |-> IF link[c] = "open" THEN "gone" ELSE link[c]]
    /\ UNCHANGED clients

\* remove_downstream pops a client and then awaits its stop.
StopClient ==
    /\ \E d \in clients : /\ \A other \in clients : Rank[d] <= Rank[other]
                          /\ clients' = clients \ {d} /\ stopping' = {d}
    /\ phase' = "unplugging"
    /\ UNCHANGED link

\* The lifespan is left and stop_all begins, or a client has stopped: on to the
\* next one, or to the server, without an await in between.
BeginShutdown ==
    /\ phase = "serving"
    /\ StopClient \/ CloseServer
    /\ ArbiterIdle
    /\ UNCHANGED <<arrived, taken, step, table, inbox, pushVars, histories>>

ClientStopped ==
    /\ phase = "unplugging"
    /\ StopClient \/ CloseServer
    /\ ArbiterIdle
    /\ UNCHANGED <<arrived, taken, step, table, inbox, pushVars, histories>>

ShutdownDone ==
    /\ phase = "closing"
    /\ \A c \in Conns : link[c] = "ended"
    /\ phase' = "closed"
    /\ ArbiterIdle
    /\ UNCHANGED <<link, arrived, taken, step, table, inbox, pushVars, clients, stopping,
                   histories>>

-----------------------------------------------------------------------------

TakeFrame(c) ==
    TakeGarbage(c) \/ TakeOwn(c) \/ TakeRaising(c) \/ BeginRepeat(c) \/ TakeEvent(c)

\* A connection's task, and the lifespan's once the shutdown has begun.
Handle(c) ==
    TakeFrame(c) \/ FinishRepeat(c) \/ PushReturns(c) \/ StoreEnds(c) \/ LoopEnds(c)

Stop == ClientStopped \/ ShutdownDone

\* Repeats, pushes and inserts take their time.
TimePasses ==
    /\ Tick
    /\ UNCHANGED handlerVars

HandlerNext ==
    \/ \E c \in Conns : Arrive(c) \/ Disconnect(c) \/ Handle(c) \/ Write(c)
    \/ \E r \in Requests : Answer(r)
    \/ BeginShutdown \/ Stop
    \/ TimePasses

HandlerSpec == HandlerInit /\ [][HandlerNext]_allVars

\* The event loop runs every task that can go on, and every await of a handler
\* ends: HTTP requests time out, the keepalive of a downstream's connection
\* ends a push, the insert returns or raises.  NapCat need not send, connect or
\* disconnect, downstreams need not answer, the shutdown need not begin.
HandlerFairness == (\A c \in Conns : WF_allVars(Handle(c))) /\ WF_allVars(Stop)

FairHandlerSpec == HandlerSpec /\ HandlerFairness

-----------------------------------------------------------------------------
(* Properties *)

Copies == {"first", "anew"}

Received == [event : Conns \X Nat, copy : Copies]

\* The type invariant of the handler's part.
HandlerTypeOK ==
    /\ link \in [Conns -> {"open", "gone", "ended"}]
    /\ arrived \in [Conns -> Nat] /\ taken \in [Conns -> Nat]
    /\ \A c \in Conns : taken[c] <= arrived[c] /\ arrived[c] <= Len(Script[c])
    /\ step \in [Conns -> {"idle", "repeating", "listed", "matching", "fallback",
                           "storing"}]
    /\ target \in [Conns -> Downstreams \cup {NoClient}]
    /\ push \in [Conns -> {"no", "marked", "over"}]
    /\ \A c \in Conns : push[c] # "no" <=> step[c] \in {"listed", "matching", "fallback"}
    /\ \A c \in Conns : target[c] = NoClient <=> push[c] = "no"
    /\ \A c \in Conns : taken[c] = 0 => step[c] = "idle"
    /\ todo \in [Conns -> SUBSET Downstreams] /\ table \in [Conns -> SUBSET Downstreams]
    /\ clients \subseteq Downstreams /\ stopping \subseteq Downstreams
    /\ seen \in [Downstreams -> SUBSET EventIds]
    /\ forgotten \in [Downstreams -> SUBSET EventIds] /\ copy \in [Conns -> Copies]
    /\ inbox \in [Downstreams -> Seq(Received)]
    /\ phase \in {"serving", "unplugging", "closing", "closed"}
    /\ settled \subseteq Conns \X Nat /\ cut \subseteq Conns \X Nat

FrameOf(event) == Script[event[1]][event[2]]

\* The iteration of _clients across awaits loses no event while the bridge is
\* serving, however pushes fail and other handlers interleave: until a client is
\* removed, at shutdown, the only events that are given up are those that raise
\* before they are recorded.
PushesCutNothing ==
    phase = "serving" => \A event \in cut : FrameOf(event).type = "raising"

Has(d, event) == \E n \in DOMAIN inbox[d] : inbox[d][n].event = event

\* A downstream that holds the event that was last routed under a chat's number,
\* and that its plan allows to reply, is refused only because the event is older
\* than ContextTtl, or because of a reply it has been granted in that chat less
\* than a cooldown ago: the context is there before the event is, although
\* another connection's handler may be waiting for a repeat or a push.
ReceivedCanAnswer ==
    verdict # NoVerdict /\ Target(verdict.request) # NoId /\ ~verdict.allowed
    => LET r == verdict.request
           last == latest[Target(r)]
       IN  last # NoEvent /\ Has(r.source, last.event) =>
             LET policy == FrameOf(last.event).plan.policy IN
             r.source \in policy.allow =>
               \/ now - last.at > ContextTtl
               \/ \E n \in DOMAIN replied[CooldownKey(r)] :
                     now - replied[CooldownKey(r)][n].at < EffectiveCooldown(policy)

Feed == INSTANCE OrderedFeed WITH
    Feeds <- Conns, Clients <- Downstreams, Frames <- Script, current <- taken

\* Every downstream receives the events of one connection in their order and no
\* event id twice, whatever the handlers of the connections wait for, but for
\* copies of which the id had been trimmed away and was marked anew.
InOrder == Feed!Spec

Readable(c, i) == \A j \in 1..i : Script[c][j].type # "garbage"

\* Nothing is left to do for the frames that have arrived.
AllHandled ==
    \A c \in Conns : \A i \in 1..arrived[c] :
       /\ Script[c][i].type = "event" /\ Readable(c, i) => <<c, i>> \in settled
       /\ Script[c][i].type = "raising" /\ Readable(c, i) => <<c, i>> \in cut

\* Always eventually, whatever has arrived is handled to the end, or given up if it
\* is an event that raises, although its connection may be gone, unless the bridge
\* is shut down; a frame that is no JSON costs the frames behind it only.  (In a run
\* of finitely many frames: a stream that never pauses always leaves one to handle.)
EveryEventSettles == []<>(AllHandled \/ phase # "serving")

\* A shutdown that has begun ends: no handler keeps wait_closed waiting, and the
\* bridge never stays between serving and closed for ever.
ShutdownEnds == []<>(phase \in {"serving", "closed"})

=============================================================================
