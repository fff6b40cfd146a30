# A TLA+ verification of klee-bot

klee-bot sits between NapCat instances (QQ bots that speak OneBot) and several
downstream bot frameworks (AstrBot, Yunzai, optionally Hermes).  Events come in
from NapCat over WebSocket, a rule engine decides which downstreams see each
event and which of them may answer, and API requests that come back from the
downstreams are arbitrated, routed to the right NapCat instance and executed.

This directory models that core in TLA+.  TLC checks the models on small
instances; TLAPS proves the main invariants for all values of the constants.
The modules follow the code under `src/app/`; `PROJECT.json` maps definitions to
source lines and lists runs, mutants, hazards and theorems.

All paths below are relative to `src/app/services/` unless they say otherwise;
`bridge/` stands for `onebot_bridge/`.

## 1. Inventory

| Component | Source | State | Operations |
|---|---|---|---|
| Upstream server | `bridge/upstream.py` | connections by bot, `napcat_http_url`, HTTP client | accept, one handler loop per connection, `call_api`, `stop` |
| Event handler | `../main.py` `_on_upstream_event` | none of its own | pipeline, repeat, `record_event`, `route_event`, database insert |
| Message pipeline | `message_pipeline.py` | its router, gate and tracker | `process` |
| Intent router, passive intent | `intent_router.py`, `passive_intent.py` | patterns | classify a message |
| Plugin router | `plugin_router.py` | configuration | `route`, `_route_command`, observer policies |
| Reply gate | `reply_gate.py` | none | `score` |
| Group activity tracker | `group_activity.py` | per chat: recent messages, reply times, last reply | `record_message`, `record_reply`, queries |
| Repeat service | `repeat_service.py` | per group: recent texts, last repeat, repeated texts | `add_message`, `should_repeat`, `send_repeat` |
| Reply arbiter | `bridge/api_proxy.py` | event contexts, group-to-bot map, reply cooldowns, scheduled-task counts and window | `record_event`, `_arbitrate`, two whitelists |
| API proxy | `bridge/api_proxy.py`, `upstream.py`, `../main.py` | the shared URL | `handle_api`, `_route_napcat`, `call_api`, HTTP fallback |
| Downstream client | `bridge/downstream.py`, `types.py` | session, flags, backoff, forwarded ids, handler tasks | connection loop, `push_event`, `send_response`, `stop` |
| Event bus | `bridge/event_bus.py` | clients by name | `route_event`, add and remove clients, `stop_all` |
| HTTP debug endpoint | `../routers/onebot.py` | none of its own | `POST /onebot/event`: validate, `process`, schedule a forward |
| Forwarding to Hermes | `forward_service.py` | the shared HTTP client | `schedule_forward`, `forward_event`, `close_client` |
| Lifespan | `../main.py` | globals | start and stop everything, in order |
| Message storage | `message_service.py`, `../database.py` | database | insert, query |
| Configuration, schemas, other routers, adapters | `../config.py`, `../models`, `../schemas`, `../routers`, `../adapters` | settings | parsing, conversion, queries |

### How they interact

Everything runs on one asyncio loop.  Code between two `await`s is atomic, and
that is where the steps of the models end.

* Each NapCat connection has one task that handles its events **one after the
  other**.  Different connections interleave wherever a handler awaits: the
  HTTP call of a repeat, the WebSocket sends, the database.
* A handler calls, in this order: the pipeline (no await), `add_message` and
  `should_repeat` (no await), `send_repeat` (HTTP, up to 30 s), `record_event`
  (no await), `route_event` (sends), the database insert.
* Each downstream client has a connection loop and one task **per API request**
  it receives.  `handle_api` resolves the bot, writes the shared URL, arbitrates
  and starts the HTTP request without an await in between.
* The debug endpoint calls the pipeline of the WebSocket path, and so shares the
  reply gate's record with it; its forwards are tasks that nobody waits for.
* The shutdown removes the downstream clients one by one, closes the server and
  waits for its handlers, and closes the forwards' HTTP client, each with awaits
  in which everything else goes on.
* The HTTP fallback (`POST /{action}`) takes the same path without arbitration;
  `send_repeat` calls `call_api` without routing and without arbitration.

### What is hard, and what makes it correct

* **Several observers, one policy.** Links, cards, summaries and repeats each
  merge targets, a mode and a cooldown into one plan, and the reply gate may
  override it afterwards.  Correct: who is sent a message is who may answer it.
  The exception is the commonest message, one that wakes no plugin: it is sent to
  nobody and has no policy, and for a minute every downstream may speak.
* **Contexts outlive and replace each other.** The answer to one event is judged
  by the context of the latest event of the group.  Correct: no policy lets a
  downstream through that was not sent a fresh event of that chat.  Groups and
  users are numbers in one dictionary, so a user who has the number of a group
  shares its context.
* **Lazy bookkeeping.** Activity, cooldowns and the scheduled quota are updated
  only when something happens to look.  Correct: the answers are those of an
  eager implementation.
* **Three filters for one question.** Router, passive detector and repeat cache
  each decide what may be repeated.  Correct: they agree.
* **Handlers wait.** A repeat, a push or an insert holds one connection up while
  others go on.  Correct: each downstream gets the events of a connection in
  their order, an answer never arrives before its context, every event is
  handled to the end or, if it raises, given up alone.
* **Copies.** With several bots in a group every message arrives several times,
  on connections that interleave.  Correct: a text is repeated because enough
  people said it, and repeats keep their distance.
* **Sessions break at any moment.** Flags are stale, ids are marked before they
  are sent, and the memory of them is bounded.  Correct: the only duplicates are of
  ids that were forgotten, few events are marked and never written,
  reconnection, a clean stop.
* **One URL for all.** Correct: a request goes to the bot it names, or to one
  that is in the group.

`PROJECT.json` lists the hazards one by one, each at its line.

## 2. Plan

| Step | Modules | Status |
|---|---|---|
| 1 | `PluginRouter`, `PlanResolution`, `GroupActivity`, `MessagePipeline` | done |
| 2 | `ReplyArbiter`, `ReplyArbiterProofs` | done |
| 3 | `RepeatService`, `RepeatServiceProofs` | done |
| 4 | `AtMostOnceDelivery`, `DownstreamClient`, `DownstreamClientProofs`, with back-pressure | done |
| 5 | `ApiProxy`, `ApiProxyProofs` (on top of `ReplyArbiter`) | done |
| 6 | `OrderedFeed`, `EventHandler`, `EventHandlerProofs`: the connections' handlers, the event bus and the shutdown, with the arbiter | done |
| 7 | `MessageContent`: what is detected in a message; `MessagePipelineProofs` | done |
| 8 | `DebugEndpoint`, `DebugEndpointProofs`: the HTTP side entry and the forwards | done |
| 9 | `ActivityRecord`, `GroupActivityProofs`: the tracker's deques against a complete record | done |
| 10 | `ForwardedIds`: the memory of forwarded ids, shared by the two modules that have clients | done |
| 11 | An abstract specification of one push that `DownstreamClient` and the cut-down client in `EventHandler` both implement | not done |

How the modules build on each other (`<-` is EXTENDS):

    PluginRouter <- PlanResolution ----+
    GroupActivity ---------------------+-- MessagePipeline <- DebugEndpoint
                  <- ActivityRecord    |
    MessageContent --------------------+
    ReplyArbiter <- ApiProxy
                 <- EventHandler        (implements OrderedFeed)
    ForwardedIds <- EventHandler
                 <- DownstreamClient    (implements AtMostOnceDelivery)
    RepeatService

`MCReplyArbiter`, `MCApiProxy` and `MCEventHandler` take their plans from
`PlanResolution`, by INSTANCE: they are plans that the pipeline returns.

## 3. Modules and code

**MessageContent** (no variables) is what the code reads off a message: the
normalized text and the mention of the bot (`message_pipeline.py`), the command
(`DetectIntent`: keywords, then the rules in their order), the link and card
intents (`LinkIntentsOf`, `CardIntentsOf`) and the three filters for repeats
(`Body` for the router's, `IsRepeatCandidate` for the passive detector's,
`KeptByCache` for the one of `add_message`).  An event is a sequence of segments;
of a segment the model keeps its type, its text, whom it mentions, which URL
patterns match it and whether it is longer than a repeat may be.  Regular
expressions are abstracted to which texts they match.  `raw_message` is the
segments' CQ codes in order, as NapCat writes them; a message has at most one
text segment with words; `min_length` is 1.  `Read` gathers the result for the
router, with `enable_passive_intents` on, as shipped.

**PluginRouter** (no variables) is `PluginRouter.route` as operators on that
result.  `ApplyObserverPolicy`, `MergeObserverTargets` and `Stronger`/`Shorter`
are the merging functions; `RouteObservers` applies the five plugins in the order
of the code.

**PlanResolution** adds what the pipeline does with the plan (abstract handlers
to downstream names, the override by the reply gate) whom `route_event`
then pushes to (`Recipients`), and whom the arbiter will let answer (`Repliers`).

**GroupActivity** is the tracker with its trimmed deques.  Division is avoided:
`get_density > t` is a comparison of a count with `t * Window`.  **ActivityRecord**
puts it next to a complete record of messages and replies, which the code does
not keep and with which its answers are compared.

**MessagePipeline** is `process()`: one action for a message and one for all
other events.  The gate's score is the sum of the code with the same weights.
It is evaluated only for mentions that are no commands, because the pipeline
asks only then, with a neutral user and awake, because the pipeline never
passes anything else.  `answers` is a history variable: what the gate decided to
answer, and when, so that `GateSpacing` is about answers and not about the stamps
that are kept of them.

**ReplyArbiter** is `record_event` and `_arbitrate`: `ArbitrateByMode` (nothing
is written), `ArbitrateThrottled` (reply cooldowns), `ArbitrateUnsolicited`
(scheduled-task whitelist and its limiter, summary whitelist, recent-observer
rule).  The result is in `verdict`.  Two variables are histories: `granted`, what
the whitelist let through since the current window opened, and `replied`, the
throttled replies let through, each with its time and the cooldown it was granted
under.  `ThrottleSpacing` is about these, whatever the stamps say.  Contexts of
groups and of private chats share one function, as they share one dictionary;
groups and users may be the same numbers, and in the run one is.

**RepeatService** is the service together with the connections that drive it:
people `Say` messages, each bot's connection handles its own copy
(`HandleMessage`) and is then blocked by `send_repeat` until `FinishRepeat`.
A failed send undoes nothing, as in the code.

**DownstreamClient** is one client: the connection loop with its five places
(`start`, `dial`, `receive`, `sleep`, ended), callers of `push_event`, request
handlers, and `stop()` cut at its awaits.  The connection, the messages on the
wire and the peer are the environment: a session may be lost in any state, a
frame may be undecodable, what is on the wire is then gone.  A send awaits
twice, for the connection's lock before it writes and for room in the buffer
after it, so a push is `marked`, `written` or `doomed`, and the last once its
session has ended under it: `ws.send` will raise when its task runs again.  A
new session is dialled only after those tasks have run (`NothingDoomed`): they
are ready before the dial begins.  The memory of forwarded ids is **ForwardedIds**:
above its capacity any half of it may be what is kept (`Trimmed`), the newest id
included or not.  Two histories tell a duplicate's reason: `forgotten` has the ids
that trimming dropped, `anew` the events marked again after that.
**AtMostOnceDelivery** is the abstract specification: a log of copies, in which
an id has at most one `first` copy, and any others are there `anew`.

**EventHandler** extends `ReplyArbiter` with what surrounds it: a task per NapCat
connection takes frames one after the other (`TakeGarbage`, `TakeOwn`, `TakeRaising`,
`BeginRepeat`, `TakeEvent`), records and routes an event in one step, as nothing
is awaited between `record_event` and the first push, waits in each push
(`PushNext`, `Write`, `PushReturns`) and in the insert (`StoreEnds`).  `step`
says in which of the bus's loops it is: over a list of names (`listed`), over
`_clients` (`matching`), or over `_clients` again for an event that no client of
its own bot took (`fallback`).  The two iterations of the dictionary remember
the keys they began with (`table`): a client that is removed meanwhile makes the
next step of the iteration raise.  An event on which `process` or `record_event`
raises, as one with a message given as a string, ends at the outer `except`
(`TakeRaising`): whatever can raise there does so before the first await, except in
`record_event` after a repeat, where it cannot any more: `add_message` and
`should_repeat` have put both numbers through `int` already.  `TimePasses` lets the
clock run on while handlers wait.  The clients are stopped in the order in which
they were added (`Rank`).  Each client's memory of ids is trimmed as in
DownstreamClient (`Mark`), and `copy` says whether the push under way is of an id
that had been forgotten.  `BeginShutdown`, `ClientStopped` and
`ShutdownDone` are the lifespan's.  Plans come with the frames, and MCEventHandler
checks (`PipelinePlans`) that `PlanResolution` makes exactly these.  What a client
does is cut down to the outcome of a push: refused at once, written, or failed.
**OrderedFeed** is the abstract specification: per connection a position, per
downstream an inbox in which an id has at most one `first` copy.

**DebugEndpoint** extends `MessagePipeline` with the posts of the debug endpoint
(`TurnAway` for another post type, an unknown bot or a group that the bot does not
manage, else `Receive`; `Accepts` is the test), the forwards they schedule (`BeginForward`,
`EndForward`, `CancelForward`) and the shared HTTP client that the shutdown
closes in two steps (`CloseClient`, `ForgetClient`).  A post is one step, since
nothing is awaited after the validation.  Its caller names the one target
`hermes`, so parallel and ordered forwarding are the same.

**ApiProxy** extends `ReplyArbiter` with the shared URL and the life of each
call: `HandleSend` (route, arbitrate, post or block), `HandleOther` (queries and
HTTP), `PostRepeat`, the answer or the timeout, and the way back.  `Resolved` makes
`send_msg` the action its parameters ask for; `Arbitrated` leaves out a source named
`klee_core`, which may always send.

A step of `ApiProxy` or `EventHandler` in which the arbiter is not called is
`ArbiterIdle`: its dictionaries stay, and `verdict` is cleared.  It is a disjunct
of the arbiter's own `Next`, so both compositions are behaviours of the arbiter.

Operators named `Name_Something` next to `Name`, introduced by `Mutant:`, are
plausible bugs.  For every property of every passing run there is one that
violates it (`mutants` in `PROJECT.json`).

## 4. Runs

| Run | Expect | Shows | States | Time |
|---|---|---|---|---|
| `pipeline_hermes` | pass | all kinds of messages, all observers on, group and private, Hermes configured: recipients and repliers agree or the message is sent to nobody, the policy is the join of the observers, commands are exclusive, the three repeat filters agree, the gate's answers are a cooldown apart | 287 k | 2 min |
| `activity_record` | pass | the trimmed deques answer like a complete record | 1.3 M | 15 s |
| `arbiter` | pass | two groups, one with a user's number, two downstreams, an overnight and an adjacent window: whom a policy lets through was sent a fresh event of that chat, replies are a cooldown apart across contexts, refusals are free, the quota holds | 767 k | 2 min |
| `arbiter_quota` | violation | a count of yesterday refuses a send of today | | 1 s |
| `repeat_shared` | pass | two bots in one group: a quorum of people behind each repeat, repeats a cooldown apart | 193 k | 10 s |
| `downstream_once` | pass | sessions lost at any moment, pushes and answers that wait, a memory smaller than the ids in use, stop at any moment: duplicates only of forgotten ids, few events marked and never written, an open session is used, backoff, reconnection, clean stop | 237 k | 25 s |
| `handler_burst` | pass | two connections with a message, its copy, a bot's own message, one that raises, a notice and a frame that is no JSON, every await in every order while the clock runs, trimmed memories, answers and the shutdown at any time: order, uniqueness but for forgotten ids, answers are let through, every event is handled or given up, an orderly end | 530 k | 3 min |
| `proxy_routing` | pass | requests over WebSocket and HTTP and a repeat on one URL: routed requests reach the right bot, every request settles | 14 k | 10 s |
| `proxy_blocked` | violation | a refused request is never answered | | 1 s |
| `proxy_repeat` | violation | a repeat goes out through the first bot | | 1 s |
| `debug_forward` | pass | posts, retries and the WebSocket share the gate, forwards share a client that the shutdown closes: Hermes hears once per cooldown, and no client is left open but one that a forward makes during the close (`forward_service.py:36`) | 337 k | 40 s |
| `debug_response` | violation | a post that is accepted is answered with a server error | | 1 s |

### Bounds, and why they are enough

* **Pipeline**: one group with every observer enabled has every combination of
  link and card; summary and legacy repeat are decided by group membership, so
  a private chat gives the opposite case.  One command of each kind of rule,
  with and without the mention it asks for; blank, long, spaced-out and media
  messages, cards with and without a known URL, a picture whose CQ code has a
  URL.  Two bots: one has an astrbot of its own, one has not.  Window 1, hour 2,
  gate cooldown 2, four ticks: each horizon is left during the run.  At most
  three replies per chat, over the hourly cap of two.
* **Activity**: five messages against a deque of three, six ticks against
  horizons of two and three.
* **Arbiter**: contexts live one tick, cooldowns last two and three, the clock runs
  to three, so a cooldown spans several contexts, and of commands, which have none.  One user has the number of the
  second group: their events replace each other's context.  The plans are computed
  by `PlanResolution` from messages, not invented.  A day has four ticks, and its
  overnight window (3 to 0) is open at both ends of the run, with an adjacent one
  after its first opening; quota 1, so the second send is over it.  The violation
  run goes on into a second day.  The map of groups to bots is left empty here:
  arbitration does not read it, and `proxy_routing` has it.
* **Repeat**: five messages of two texts, two bots: ten copies in all
  interleavings, against a threshold of three, a window of four and a cache of
  five; cooldown two of five ticks, so a second cycle begins.
* **Downstream**: two copies of a message with one id and a notice with an id of
  its own, against a memory of one id: a second id trims it, to either of them, so
  that the other may be marked anew.  A duplicate comes before, during and after
  each session.  Two pushers, so that one waits behind the other; one request;
  delays 1 and 2, the cap.  The number of sessions is not bounded.
* **Handler**: the first connection has a message that is repeated, the second a
  bot's own message, one that raises, a copy of the message, a notice and garbage:
  two handlers compete for one id while one has other events before and behind it.
  One client belongs to the first bot, one to any bot, so all three loops of the bus
  run.  Each client remembers one id, so it has forgotten one of two.  The clock
  makes one tick, at any moment; a context lives for the tick it was made in, and a
  cooldown of two outlasts it, so that a context and a cooldown may end or not
  between an event and its answer.  The scripts end, which bounds the run.
* **Proxy**: four calls of three kinds against two bots with one group each.
* **Debug**: a mention, its retry, another call, and three posts that are turned
  away: for a group the bot does not manage, for an unknown bot, and of another post
  type; gate cooldown 2 of 3 ticks.

`MaxTime`, `MaxSaid`, `MaxReplies` and `MaxMessages` are the only bounds that
the code does not have; each appears in one guard.  The other numbers are the
code's own parameters scaled down (`DayLength` stands for its 24 hours).  `repeat_shared` uses
symmetry over texts, in a run without liveness.

### Deadlock

`CHECK_DEADLOCK FALSE` is set where a run ends because the clock has reached
`MaxTime` and everything was said or handled, and where the bridge or a client
is stopped and meant to stay so (`DownstreamClient`, `EventHandler`,
`DebugEndpoint`).  The pipeline run checks it.

### Fairness

* `DownstreamClient`: weak fairness of the loop's own steps (a task that is not
  waiting is run, a sleep ends, a dial ends) and strong fairness of a successful
  dial: a peer that is dialled again and again accepts at last.  Sessions may
  be lost again and again; requests and pushes need not happen.
* `EventHandler`: weak fairness of each connection's handler and of the
  shutdown's steps.  Tasks that can go on are run; the waits end by themselves:
  the repeat's HTTP request by its timeout, a push by the keepalive of the
  downstream's connection, the insert by success or exception.  Nothing need
  arrive, nobody need answer, and the shutdown need not begin.  `EveryEventSettles`
  and `ShutdownEnds` have the form `[]<>P`: the scripts are finite, so a state in
  which nothing is left to do comes again and again.
* `ApiProxy`: weak fairness of handling a request, of the timeout and of handing
  back the response.  NapCat need not answer: `httpx.Timeout(30)` is what ends
  the wait.  The mutant without the timeout violates `EveryCallSettles`.

## 5. What the code does, and does not say

Six disagreements between the code and what it says of itself are `findings`.  Four
are shown by a violation run:

* the quota of a scheduled window may be yesterday's (`bridge/api_proxy.py:404`);
* refused requests get no response (`bridge/api_proxy.py:612`);
* repeats use whichever URL was used last (`repeat_service.py:250`);
* the debug endpoint's response asks the plan for `reason`, which `ExecutionPlan`
  does not have (`../routers/onebot.py:107`): every accepted post ends in a server
  error, after its forward was scheduled, although the repository's README promises
  a 200 and `../tests/test_onebot.py:156` expects one.

Two are shown by a theorem, for every value of the constants, and need no run:

* **The recent-observer rule** for unsolicited requests never applies to a group
  message (`RescueCorrect`): a context young enough for it would have been found
  before.  `bridge/api_proxy.py:19`, `:121` and `:493` promise that it does.
* **Repeat deduplication** is for ever (`OnceCorrect`), where `repeat_service.py:11`
  and `:206` speak of a cooldown cycle: no text is repeated in a group a second time
  until the bridge is restarted.

Observations, where the models take the code as it is:

* **Shutdown of forwards.** A forward that begins while `close_client` awaits
  makes a client that nobody closes (`forward_service.py:36`).
  `ClientIsClosed` excludes this case by name.
* **A repeat that NapCat refuses** still starts the cooldown and bars the text
  (`repeat_service.py:262`).
* **Event ids** of notices have the resolution of a second (`bridge/types.py:19`):
  two of one second count as one.  `AtMostOnce` is per id.
* **Commands with `*`.** The pattern `^*` in `src/config/routes.yaml` is no
  regular expression and is skipped with a warning; such commands never reach
  Yunzai.
* **Messages given as a string** raise in `_extract_normalized_text`, although
  `passive_intent.py:127` handles them: the event is neither recorded nor routed
  nor stored.  MessageContent has segments only; EventHandler has `TakeRaising`.
* **Video segments** are rich cards whose text is looked for in a field they do
  not have (`passive_intent.py:266`): they never have a `*_card` intent.  This is
  `CardMarks`.  A CQ code with a URL, as a picture has, makes its message a link.
* **Replies for nobody.** `record_reply` is called also when no Hermes is there
  (`message_pipeline.py:269`).
* **The density penalty** cannot apply with the shipped numbers: 30 messages
  remembered, 10 seconds, more than 5 per second needed (`group_activity.py:41`).
* **`first_valid`** has a cooldown per downstream, so each of several downstreams
  may answer the same link once (`bridge/api_proxy.py:316`).
* **Contexts without a policy.** An event that wakes no plugin leaves one, and it
  lets every downstream through (`bridge/api_proxy.py:290`).
* **A private reply that names no bot** goes to the URL the last routed request
  left behind (`bridge/api_proxy.py:643`).
* **Marked before sent.** A push that failed counts as sent from then on
  (`bridge/downstream.py:229`).  `UnwrittenIsBounded` bounds what a session leaves
  marked and unwritten.  What it has written and the peer has not read is lost as
  well, and nothing bounds that.
* **Trimming the forwarded ids** keeps an arbitrary half, since a set has no order
  (`bridge/downstream.py:232`); the newest id may be among those dropped, and is
  then forwarded again.
* **Clients removed while they are iterated.** At shutdown an iteration of
  `_clients` may raise (`bridge/event_bus.py:158`); the event is then not stored.
  `PushesCutNothing` says that while the bridge serves, no push does this.
* **A frame that is no JSON** ends the connection's loop, with the frames
  buffered behind it (`bridge/upstream.py:100`); NapCat has to reconnect.
* **Stored events.** The insert is called non-blocking and fire-and-forget
  (`../main.py:150`) but is awaited: a slow database holds the connection up.
  Events of the bots themselves are filtered before it and not stored.
* **Order** holds per connection.  With several bots in a group, the copy that is
  recorded last decides the context (`InOrder`, `ReceivedCanAnswer`).

## 6. Proofs

`tlapm` checks eight modules from first principles, with Z3, Zenon and the PTL
decision procedure.  Every invariant and every action property that a passing run
checks is proved here.

**ReplyArbiterProofs**, from the assumptions of `ReplyArbiter` on its constants
(types, and that absent values differ from present ones):

| Theorem | Property | Argument |
|---|---|---|
| `TypeCorrect` | `TypeOK` | inductive by itself |
| `LimiterCorrect`, `CapCorrect` | `LimiterKeepsUp`, `ScheduledCap` | `ScheduledCap` is not inductive: it says nothing of the counts.  `LimiterKeepsUp` relates them to what was granted, and distinguishes a limiter that has seen the current window from one that has not |
| `RescueCorrect` | `NoObserverRescue` (in no run) | from `FiledUnderOwnKey` (a context lies under its own group, or under a user if it is of a private chat) and `Lookback <= ContextTtl` |
| `GrantCorrect` | `GrantHasFreshContext` | from `FiledUnderOwnKey`; where a group has a user's number the context may be the other one's |
| `ThrottleCorrect` | `ThrottleSpacing` | from `StampsInv`: the stamp of a downstream in a target is no older than any of its replies there |
| `RefusalCorrect` | `RefusalIsFree` | an action property, from `TypeOK` |

**RepeatServiceProofs**: `OnceCorrect` (no text is ever repeated twice: a finding, so
no run has it as a property) needs `OnceInv`: a text that is being sent
or was posted is in `repeatedTexts`, one connection at most is sending it, and
none does once it is posted.  `SpacingCorrect` and `TypeCorrect` follow from the
step itself and from lemmas on `LastN`.  `QuorumCorrect` counts: `QuorumInv` gives
every text of the cache a source of its own, the copy of a message that one of the
group's bots has handled.  So as many equal texts as the threshold need as many
copies, and one message has at most as many copies as the group has bots.  It
assumes that there are finitely many bots.

**DownstreamClientProofs**: `UnwrittenCorrect` from `LossInv` (the events that were
marked in this session and are not written are at most as many as the pushers,
and all under way as long as the flag is up), `UseCorrect` from `UseInv` (a send is doomed only
when its session is over), `StopCorrect` from `StopInv` (what `stop()` has done at
each of its awaits), `BackoffCorrect` from `DelayInv`.  `DeliveryCorrect` is the
refinement `Spec => AtMostOnce`, with `WireInv` and `QueueInv`: what was read, is
on the wire or waits to be written is remembered or forgotten by trimming, and of the
copies of one id one at most was marked while it was not forgotten.  It holds for
every capacity of the memory.  `ReadOnceHolds` says what the refinement means: of two
events with one id that the downstream read, one was marked anew.

**EventHandlerProofs**, on top of ReplyArbiterProofs: `InOrderCorrect` is the
refinement of `OrderedFeed`, for every script, any number of connections and
downstreams and every capacity of their memories.  Its invariant `MarkedOnce` says
that an id of which a first copy waits to be written is in no inbox as a first copy
and waits so in one handler only, and that what is in an inbox is remembered or was
forgotten by trimming.  `OnceInOrderHolds` says what that means: of two events in an
inbox with one id, one was sent anew, and if two are of one connection, the first was
sent no later than the second.  It follows from the steps of the abstract feed and
from the fact that nothing is in an inbox before its handler has come to it.
`HandlersImplementArbiter` shows that every step of a handler, an answer, the shutdown
or the clock is a step of the arbiter or leaves it alone, so that its theorems hold
here (`HandlersThrottle`).  `CutCorrect` needs `TablesAreCurrent`: while the bridge
serves, every iteration has the keys that the dictionary has.  `AnswerCorrect` shows
that the context of a number is the one of the event that was last routed under it,
whatever the other handlers wait for, and that a refusal then has its reason in the
age of the event or in a reply that was let through (`StampedReplies`: no stamp without
a reply).

**MessagePipelineProofs**: `PlanInv`, that the plan is the one computed for the
message, makes the invariants facts about `PlanFor`.  `PolicyIsJoinHolds` follows
the policy through the five plugins, for all sets of observers, targets and
cooldowns.  `RepliersAreRecipientsOrAllHolds` assumes that no downstream is called
`klee_core`, a name the code keeps for itself.  `RepeatFiltersAgreeHolds` assumes
`PrefixIsCommand`, that every text with `#` or `/` in front is matched by a rule
that asks for no mention: `routes.yaml` has `^#` and `^/`.  Without that rule the
router would offer a message that the cache drops.  `GateSpacingHolds` needs the
score of a plain mention within the cooldown to be below the threshold, and that
`lastReply` is the time of the latest answer.

**DebugEndpointProofs**: `EndpointIsPipeline` shows that the endpoint and the
WebSocket path together are a behaviour of the pipeline, so that its theorems
hold of both (`EndpointPlans`).  `RetriesAreDamped` needs `GateInv`: whoever was handed to Hermes
was recorded as a reply of its chat, and `lastReply` only grows.
`ClientsAreClosed` needs `ClientsInv`: of the clients made while the bridge
serves, only `_client` is open.

**ApiProxyProofs**, on top of ReplyArbiterProofs: `ProxyImplementsArbiter` is the
same refinement for the proxy, and `ProxyArbitrates` names what follows from it.
`NamedCorrect` and `GroupCorrect` are about the URL that all tasks share: a call that
is posted was routed in the same step (`PostingRoutes`), so what others wrote before
does not matter.  `GroupCorrect` needs `BotsAreMembers`: the bot of a group is one
that was seen in it.  It says nothing of a bot without a configured URL: routing then
fails with a warning (`bridge/api_proxy.py:646`), and the URL stays as it is.

**GroupActivityProofs**: both properties compare a trimmed deque with the record, of
which it is the end (`Suffix`).  `RecentCorrect` needs `RecentInv`: the record is in the
order of the clock (`InOrder`), and what the deque misses is too old unless it is full.
`record_message` stops dropping at the first young entry; only because the stamps are
in order is everything before a dropped entry as old.  `RepliesCorrect` needs
`RepliesInv`: what the deque of replies misses is too old, and `last_reply_at` is the
latest of all replies.  The counts agree because one set of positions is the other one
shifted (`ShiftedSetSize`).  Both hold for every window, length, hour and cooldown.

Only model-checked: liveness (`Reconnects`, `EveryEventSettles`, `ShutdownEnds`,
`EveryCallSettles`), which needs `ENABLED`.  The four violation runs
show behaviours of small instances, and there is nothing to prove about them.

## 7. Not modelled

* Regular expressions, keyword files and URL patterns: pure text functions,
  abstracted to which texts they match.
* Configuration, schemas, models, the queries over stored messages, the health
  check and the diagnostics: no control worth a model.
* Code without a caller in the application: `ImageRewriter`, `onebot_adapter.py`,
  `create_message_from_event`, `MockDownstreamClient`, `respond_error`, and the
  bus's strategy `broadcast`, which no plan has.
* The switch `enable_passive_intents` off, and messages given as a string in
  MessageContent (`EventHandler` has what becomes of their events).
* A downstream named `klee_core`, which bypasses the arbiter: ApiProxy has the branch,
  no run has such a downstream, and no configuration of the repository either.
* The loss of what is on the wire when a session ends is modelled
  (`DownstreamClient`) but not bounded by any property, as nothing in the code does.
* The startup.  From the server's start to the end of the lifespan's setup
  nothing suspends, so no event finds the bus or the pipeline missing: the models
  begin after it.
* Restarts.  Nothing but the message log is persisted: a restart is `Init`, with
  all cooldowns and counts forgotten.
* A NapCat that reconnects is another connection of `EventHandler`; the dictionary
  of connections by bot is written and never read for a decision.
* The close of the upstream's HTTP client at the end of `stop`.
