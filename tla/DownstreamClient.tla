--------------------------- MODULE DownstreamClient ---------------------------
(***************************************************************************)
(* DownstreamOneBotWSClient of app/services/onebot_bridge/downstream.py:   *)
(* one WebSocket connection to AstrBot or Yunzai, kept up by a reconnect   *)
(* loop, over which events are pushed and API requests arrive.             *)
(*                                                                         *)
(* The loop, the callers of push_event and the tasks that handle requests  *)
(* share _ws, _connected and _forwarded_ids.  Every step ends where its    *)
(* task awaits.  A send awaits twice: for the connection's lock before it  *)
(* writes, and for room in the buffer after it.  A message that is written *)
(* is in the wire until the peer reads it; when the session ends, the wire *)
(* is gone and every send that waits is doomed: it raises ConnectionClosed *)
(* when its task runs again.                                               *)
(***************************************************************************)
EXTENDS ForwardedIds, Sequences

CONSTANTS
    Events,              \* the events pushed to this downstream
    NoMessageId,         \* of an event that is no message
    Requests,            \* the API requests the downstream makes
    Pushers,             \* how many events the event bus can be pushing at once
    InitialDelay, MaxDelay

ASSUME DownstreamAssumption ==
    /\ {InitialDelay, MaxDelay, Pushers} \subseteq Nat \ {0}
    /\ InitialDelay <= MaxDelay

\* An event: its message_id, its time in seconds, the bot that saw it, and
\* what happened.  _make_event_id keeps the first, or the next two.
EventId(e) == IF e.message # NoMessageId THEN <<e.message>> ELSE <<e.time, e.bot>>

Ids == {EventId(e) : e \in Events}

VARIABLES
    running,             \* _running
    loop,                \* where _connection_loop is
    ws,                  \* _ws: "none", or an "open" or "closed" connection
    connected,           \* _connected
    delay,               \* _reconnect_delay
    forwarded,           \* _forwarded_ids
    forgotten,           \* history: ids that were marked and that trimming dropped
    anew,                \* history: events marked although their id had been before
    handler,             \* request -> how far its task in _handler_tasks is
    push,                \* event -> how far push_event is, or what it returned
    wire,                \* events written to the open session, not read yet
    received,            \* events the downstream has read
    burnt                \* history: events marked in this session and never written

loopVars == <<running, loop>>
sessionVars == <<ws, connected, delay>>
memoryVars == <<forwarded, forgotten, anew>>
sendVars == <<handler, push, wire, burnt>>
vars == <<running, loop, ws, connected, delay, memoryVars, handler, push, wire,
          received, burnt>>

\* "off": no task; "start": about to connect; "dial": awaits the connection;
\* "receive": in the message loop; "sleep": waits to reconnect; "cancelled":
\* stop() awaits its end; "ended": it has ended; "stopped": stop() is done.
LoopStates == {"off", "start", "dial", "receive", "sleep", "cancelled", "ended", "stopped"}

Init ==
    /\ running = FALSE /\ loop = "off"
    /\ ws = "none" /\ connected = FALSE /\ delay = InitialDelay
    /\ forwarded = {} /\ forgotten = {} /\ anew = {}
    /\ handler = [q \in Requests |-> "new"]
    /\ push = [e \in Events |-> "new"]
    /\ wire = <<>> /\ received = <<>> /\ burnt = {}

-----------------------------------------------------------------------------
(* What a send is doing.  A push: "queued" has marked the id and waits for  *)
(* the lock, "draining" has written the event.  A handler's task: "handling"*)
(* the request, "sending" the response.  Both: "doomed".                    *)

Waiting == {"queued", "draining", "doomed"}

Pending == {e \in Events : push[e] \in Waiting}

Active == {"handling", "sending", "doomed"}

\* _handler_tasks
Handlers == {q \in Requests : handler[q] \in Active}

NothingDoomed ==
    /\ \A e \in Events : push[e] # "doomed"
    /\ \A q \in Requests : handler[q] # "doomed"

\* The connection is gone.
EndSession ==
    /\ wire' = <<>>
    /\ push' = [e \in Events |-> IF push[e] \in {"queued", "draining"} THEN "doomed"
                                                                        ELSE push[e]]
    /\ handler' = [q \in Requests |-> IF handler[q] = "sending" THEN "doomed"
                                                                ELSE handler[q]]
    /\ burnt' = burnt \cup {e \in Events : push[e] = "queued"}

-----------------------------------------------------------------------------
(* The connection loop *)

Start ==
    /\ ~running /\ loop = "off"
    /\ running' = TRUE /\ loop' = "start"
    /\ UNCHANGED <<sessionVars, memoryVars, received, sendVars>>

\* _connect drops the old connection before it opens a new one.
Dial ==
    /\ loop = "start"
    /\ loop' = "dial"
    /\ connected' = FALSE /\ ws' = "none"
    /\ EndSession
    /\ UNCHANGED <<running, delay, memoryVars, received>>

\* Mutant: a new session starts with nothing forwarded.
DialSucceeds_Forgets ==
    /\ loop = "dial" /\ NothingDoomed
    /\ loop' = "receive"
    /\ ws' = "open" /\ connected' = TRUE /\ delay' = InitialDelay /\ burnt' = {}
    /\ forwarded' = {}
    /\ UNCHANGED <<running, forgotten, anew, handler, push, wire, received>>

\* Mutant: the delay keeps growing.
DialSucceeds_NoReset ==
    /\ loop = "dial" /\ NothingDoomed
    /\ loop' = "receive"
    /\ ws' = "open" /\ connected' = TRUE /\ burnt' = {}
    /\ UNCHANGED <<running, delay, memoryVars, handler, push, wire, received>>

\* The loss of a connection wakes every send that waits on it, and they run
\* before a new handshake can end: nothing is doomed any more.
DialSucceeds ==
    /\ loop = "dial" /\ NothingDoomed
    /\ loop' = "receive"
    /\ ws' = "open" /\ connected' = TRUE /\ delay' = InitialDelay /\ burnt' = {}
    /\ UNCHANGED <<running, memoryVars, handler, push, wire, received>>

DialFails ==
    /\ loop = "dial"
    /\ loop' = "sleep"
    /\ UNCHANGED <<running, sessionVars, memoryVars, received, sendVars>>

\* The peer closes the connection, or it breaks.
SessionLost ==
    /\ ws = "open"
    /\ ws' = "closed"
    /\ EndSession
    /\ UNCHANGED <<loopVars, connected, delay, memoryVars, received>>

\* Mutant: a clean close ends the loop.
MessageLoopEnds_Returns ==
    /\ loop = "receive" /\ ws = "closed"
    /\ loop' = "ended"
    /\ UNCHANGED <<running, sessionVars, memoryVars, received, sendVars>>

\* The message loop ends, by an exception or, after a clean close, silently;
\* _connected stays as it is.
MessageLoopEnds ==
    /\ loop = "receive" /\ ws = "closed"
    /\ loop' = "sleep"
    /\ UNCHANGED <<running, sessionVars, memoryVars, received, sendVars>>

\* A frame that is not UTF-8 ends the message loop, and leaves the connection
\* open until the next dial.
FrameUndecodable ==
    /\ loop = "receive" /\ ws = "open"
    /\ loop' = "sleep"
    /\ UNCHANGED <<running, sessionVars, memoryVars, received, sendVars>>

\* Mutant: the delay doubles without a limit.
Wake_NoCap ==
    /\ loop = "sleep"
    /\ loop' = "start"
    /\ delay' = 2 * delay
    /\ UNCHANGED <<running, ws, connected, memoryVars, received, sendVars>>

Wake ==
    /\ loop = "sleep"
    /\ loop' = "start"
    /\ delay' = IF 2 * delay < MaxDelay THEN 2 * delay ELSE MaxDelay
    /\ UNCHANGED <<running, ws, connected, memoryVars, received, sendVars>>

\* stop(): cancel the loop and await it, ...
StopBegins ==
    /\ running
    /\ running' = FALSE /\ loop' = "cancelled"
    /\ UNCHANGED <<sessionVars, memoryVars, received, sendVars>>

\* Mutant: the handlers are left to themselves.
HandlersCancelled_Kept ==
    /\ loop = "cancelled"
    /\ loop' = "ended"
    /\ UNCHANGED <<running, sessionVars, memoryVars, received, sendVars>>

\* ... then cancel the handlers, ...
HandlersCancelled ==
    /\ loop = "cancelled"
    /\ loop' = "ended"
    /\ handler' = [q \in Requests |-> IF q \in Handlers THEN "done" ELSE handler[q]]
    /\ UNCHANGED <<running, sessionVars, memoryVars, push, wire, received, burnt>>

\* ... then close the connection; the peer may still read what is on the wire.
StopEnds ==
    /\ loop = "ended"
    /\ loop' = "stopped"
    /\ connected' = FALSE /\ ws' = "none"
    /\ EndSession
    /\ UNCHANGED <<running, delay, memoryVars, received>>

-----------------------------------------------------------------------------
(* Events *)

Becomes(e, status) == push' = [push EXCEPT ![e] = status]

IsDuplicate(e) == EventId(e) \in forwarded

\* A marked id is remembered, or trimmed in the same step or later.
Mark(e) ==
    LET ids == forwarded \cup {EventId(e)} IN
    /\ forwarded' \in Trimmed(ids)
    /\ forgotten' = (forgotten \cup ids) \ forwarded'
    /\ anew' = IF EventId(e) \in forgotten THEN anew \cup {e} ELSE anew

PushRefused(e) ==
    /\ ~connected \/ ws = "none"
    /\ Becomes(e, "refused")
    /\ UNCHANGED <<memoryVars, burnt>>

PushSkipped(e) ==
    /\ connected /\ ws # "none" /\ IsDuplicate(e)
    /\ Becomes(e, "skipped")
    /\ UNCHANGED <<memoryVars, burnt>>

\* The id is marked before the event is sent.
PushQueued(e) ==
    /\ connected /\ ws = "open" /\ ~IsDuplicate(e)
    /\ Mark(e)
    /\ Becomes(e, "queued")
    /\ UNCHANGED burnt

\* The flag is stale: the id is marked, the event will not be sent.
PushDoomed(e) ==
    /\ connected /\ ws = "closed" /\ ~IsDuplicate(e)
    /\ Mark(e)
    /\ Becomes(e, "doomed")
    /\ burnt' = burnt \cup {e}

\* push_event is called; the bus has removed the client before it stops it,
\* and each of its callers pushes one event at a time.
PushEvent(e) ==
    /\ running /\ push[e] = "new" /\ Cardinality(Pending) < Pushers
    /\ PushRefused(e) \/ PushSkipped(e) \/ PushQueued(e) \/ PushDoomed(e)
    /\ UNCHANGED <<loopVars, sessionVars, handler, wire, received>>

PushWritten(e) ==
    /\ push[e] = "queued"
    /\ wire' = Append(wire, e)
    /\ Becomes(e, "draining")
    /\ UNCHANGED <<loopVars, sessionVars, memoryVars, handler, received, burnt>>

PushReturns(e) ==
    /\ push[e] = "draining"
    /\ Becomes(e, "sent")
    /\ UNCHANGED <<loopVars, sessionVars, memoryVars, handler, wire, received, burnt>>

\* Mutant: a failed push leaves the flag up.
PushFails_FlagUp(e) ==
    /\ push[e] = "doomed"
    /\ Becomes(e, "failed")
    /\ UNCHANGED <<loopVars, sessionVars, memoryVars, handler, wire, received, burnt>>

\* The send raises ConnectionClosed.
PushFails(e) ==
    /\ push[e] = "doomed"
    /\ Becomes(e, "failed")
    /\ connected' = FALSE
    /\ UNCHANGED <<loopVars, ws, delay, memoryVars, handler, wire, received, burnt>>

PeerReads ==
    /\ ws = "open" /\ wire # <<>>
    /\ received' = Append(received, Head(wire))
    /\ wire' = Tail(wire)
    /\ UNCHANGED <<loopVars, sessionVars, memoryVars, handler, push, burnt>>

-----------------------------------------------------------------------------
(* Requests *)

HandlerBecomes(q, status) == handler' = [handler EXCEPT ![q] = status]

\* A request starts a task of its own.
RequestArrives(q) ==
    /\ loop = "receive" /\ ws = "open"
    /\ handler[q] = "new"
    /\ HandlerBecomes(q, "handling")
    /\ UNCHANGED <<loopVars, sessionVars, memoryVars, push, wire, received, burnt>>

\* The task calls send_response, on whatever session there is by then.
AnswerStarts(q) ==
    /\ handler[q] = "handling"
    /\ HandlerBecomes(q, IF ~connected \/ ws = "none" THEN "done"
                         ELSE IF ws = "open" THEN "sending" ELSE "doomed")
    /\ UNCHANGED <<loopVars, sessionVars, memoryVars, push, wire, received, burnt>>

\* Mutant: a peer that reads slowly counts as disconnected.
AnswerReturns_SlowIsLost(q) ==
    /\ handler[q] = "sending"
    /\ HandlerBecomes(q, "done")
    /\ connected' = FALSE
    /\ UNCHANGED <<loopVars, ws, delay, memoryVars, push, wire, received, burnt>>

AnswerReturns(q) ==
    /\ handler[q] = "sending"
    /\ HandlerBecomes(q, "done")
    /\ UNCHANGED <<loopVars, sessionVars, memoryVars, push, wire, received, burnt>>

AnswerFails(q) ==
    /\ handler[q] = "doomed"
    /\ HandlerBecomes(q, "done")
    /\ connected' = FALSE
    /\ UNCHANGED <<loopVars, ws, delay, memoryVars, push, wire, received, burnt>>

-----------------------------------------------------------------------------

LoopStep ==
    Dial \/ DialSucceeds \/ DialFails \/ MessageLoopEnds \/ FrameUndecodable \/ Wake

StopStep == StopBegins \/ HandlersCancelled \/ StopEnds

PushStep(e) == PushEvent(e) \/ PushWritten(e) \/ PushReturns(e) \/ PushFails(e)

AnswerStep(q) ==
    RequestArrives(q) \/ AnswerStarts(q) \/ AnswerReturns(q) \/ AnswerFails(q)

Next ==
    \/ Start
    \/ LoopStep
    \/ StopStep
    \/ SessionLost
    \/ \E e \in Events : PushStep(e)
    \/ PeerReads
    \/ \E q \in Requests : AnswerStep(q)

Spec == Init /\ [][Next]_vars

\* The event loop runs every task that is not waiting, among them the doomed
\* sends; sleeps end, and a peer that is dialled again and again accepts at last.
Fairness ==
    /\ WF_vars(Dial) /\ WF_vars(DialSucceeds \/ DialFails) /\ SF_vars(DialSucceeds)
    /\ WF_vars(MessageLoopEnds) /\ WF_vars(Wake)
    /\ WF_vars(HandlersCancelled) /\ WF_vars(StopEnds)
    /\ \A e \in Events : WF_vars(PushFails(e))
    /\ \A q \in Requests : WF_vars(AnswerFails(q))

FairSpec == Spec /\ Fairness

-----------------------------------------------------------------------------
(* Properties *)

Statuses == Waiting \cup {"new", "sent", "skipped", "refused", "failed"}

\* The type invariant of the client.
TypeOK ==
    /\ running \in BOOLEAN /\ loop \in LoopStates
    /\ ws \in {"none", "open", "closed"} /\ connected \in BOOLEAN
    /\ delay \in InitialDelay..MaxDelay
    /\ forwarded \subseteq Ids /\ forgotten \subseteq Ids /\ anew \subseteq Events
    /\ burnt \subseteq Events
    /\ Cardinality(forwarded) <= MaxForwarded
    /\ handler \in [Requests -> Active \cup {"new", "done"}]
    /\ push \in [Events -> Statuses]
    /\ wire \in Seq(Events) /\ received \in Seq(Events)

\* An event as the downstream sees it.
Copy(e) == [id |-> EventId(e), copy |-> IF e \in anew THEN "anew" ELSE "first"]

\* A downstream reads an event id once, across sessions that are lost and
\* reopened (_forwarded_ids outlives the connection).  Another copy comes only of
\* an event for which the id was marked anew, after the bounded memory had
\* dropped it: each further copy takes a trimming of its own.
Channel == INSTANCE AtMostOnceDelivery WITH
    log <- [i \in DOMAIN received |-> Copy(received[i])]
AtMostOnce == Channel!Spec

\* Of the events that are marked as forwarded, and so never sent again, a
\* session leaves as many unwritten as can be under way at once, and no more:
\* the first send that fails lowers the flag, and later pushes are refused
\* without being marked.  (What was written and not read when the session ends
\* is lost as well; no code bounds that.)
UnwrittenIsBounded == Cardinality(burnt) <= Pushers

\* A session that is open is used: no answer or push that failed on an old
\* one, and none that is merely slow, lowers the flag of a new one, which
\* nothing would raise again until that session ends.
OpenSessionIsUsed == ws = "open" => connected

\* Each session starts the backoff afresh, so the first retry after it waits
\* InitialDelay, however long the retries before it had become.
BackoffRestarts == [][loop = "receive" /\ loop' = "sleep" => delay' = InitialDelay]_vars

\* After stop() the client is quiet: no handler is left that could answer, and
\* no connection is open.
StopIsFinal == loop = "stopped" => Handlers = {} /\ ws = "none" /\ ~connected

\* The loop never gives up: while it is not stopped, a client without a
\* session gets one (_connection_loop).
Reconnects == running ~> (ws = "open" /\ connected) \/ ~running

=============================================================================
