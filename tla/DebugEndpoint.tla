---------------------------- MODULE DebugEndpoint ----------------------------
(***************************************************************************)
(* The HTTP side entry: receive_onebot_event of app/routers/onebot.py,     *)
(* which runs posted events through the pipeline that the WebSocket path   *)
(* uses, and app/services/forward_service.py, which forwards those that    *)
(* wake Hermes to its webhook in background tasks, over an HTTP client     *)
(* that is created on demand and closed by the lifespan.                   *)
(*                                                                         *)
(* The only caller names one target, so parallel and ordered forwarding    *)
(* are the same.  A post is one step: it awaits nothing after validation.  *)
(***************************************************************************)
EXTENDS MessagePipeline

CONSTANTS
    Posts,               \* HTTP requests; a retry is a request of its own
    EventOf,             \* post -> the event in its body
    TypeOf,              \* post -> "group", "private", or "other": another
                         \* message_type, or no message at all
    Managed,             \* enabled bot -> the groups it manages
    Private,             \* the chat of private messages
    Webhook,             \* hermes is enabled and has a URL
    NotPosted            \* of a post that has not been handled

ASSUME EndpointAssumption ==
    /\ EventOf \in [Posts -> Events]
    /\ TypeOf \in [Posts -> {"group", "private", "other"}]
    /\ DOMAIN Managed \subseteq Bots
    /\ NotPosted \notin Nat
    /\ Webhook \in BOOLEAN

VARIABLES
    reply,               \* post -> its HTTP response, "none" before it is handled
    task,                \* post -> the forward it scheduled
    uses,                \* post -> the HTTP client its forward uses, 0 for none
    client,              \* _client: the number of an HTTP client, 0 for None
    open,                \* the HTTP clients that are open
    made,                \* the phase in which each HTTP client was made
    phase,               \* of the lifespan: "serving", "closing", "closed"
    handedAt             \* history: post -> when it was handed to Hermes

Phases == {"serving", "closing", "closed"}

forwardVars == <<task, uses, client, open, made>>
endpointVars == <<reply, forwardVars, phase, handedAt>>
allVars == <<vars, endpointVars>>

EndpointInit ==
    /\ Init
    /\ reply = [p \in Posts |-> "none"]
    /\ task = [p \in Posts |-> "none"]
    /\ uses = [p \in Posts |-> 0]
    /\ client = 0 /\ open = {} /\ made = <<>>
    /\ phase = "serving"
    /\ handedAt = [p \in Posts |-> NotPosted]

-----------------------------------------------------------------------------
(* Requests *)

UnknownBot(p) == EventOf[p].bot \notin DOMAIN Managed

\* Only messages of type "group" that name one are looked up among the bot's groups.
Accepts(p) ==
    /\ TypeOf[p] # "other"
    /\ ~UnknownBot(p)
    /\ TypeOf[p] = "group" /\ EventOf[p].group # Private
         => EventOf[p].group \in Managed[EventOf[p].bot]

\* No message, an unknown bot, or a group that the bot does not manage.
TurnAway(p) ==
    /\ phase = "serving" /\ reply[p] = "none"
    /\ ~Accepts(p)
    /\ reply' = [reply EXCEPT ![p] =
                   IF TypeOf[p] # "other" /\ UnknownBot(p) THEN "not found" ELSE "ignored"]
    /\ UNCHANGED <<vars, forwardVars, phase, handedAt>>

\* plan.call_hermes
CallHermes(m) == GateTriggers(m) /\ "hermes" \in Downstreams

\* Mutant: HTTP posts go past the gate's record of replies.
Receive_OwnGate(p) ==
    LET m == Read(EventOf[p]) IN
    /\ phase = "serving" /\ reply[p] = "none"
    /\ Accepts(p)
    /\ message' = m /\ plan' = PlanFor(m, GateTriggers(m))
    /\ NoteAnswer(m)
    /\ UNCHANGED <<now, activityVars>>
    /\ task' = [task EXCEPT ![p] = IF CallHermes(m) THEN "scheduled" ELSE "none"]
    /\ handedAt' = [handedAt EXCEPT ![p] = IF CallHermes(m) THEN now ELSE @]
    /\ reply' = [reply EXCEPT ![p] = "error"]
    /\ UNCHANGED <<uses, client, open, made, phase>>

\* The event goes through the shared pipeline and its forward is scheduled; then
\* the response asks the plan for an attribute it has not (`reason'), and the
\* request fails.
Receive(p) ==
    LET m == Read(EventOf[p]) IN
    /\ phase = "serving" /\ reply[p] = "none"
    /\ Accepts(p)
    /\ ProcessMessage(m)
    /\ task' = [task EXCEPT ![p] = IF CallHermes(m) THEN "scheduled" ELSE "none"]
    /\ handedAt' = [handedAt EXCEPT ![p] = IF CallHermes(m) THEN now ELSE @]
    /\ reply' = [reply EXCEPT ![p] = "error"]
    /\ UNCHANGED <<uses, client, open, made, phase>>

\* A message that arrives over the WebSocket meanwhile.
ReceiveOverWebSocket ==
    /\ phase = "serving"
    /\ \E m \in Messages : ProcessMessage(m)
    /\ UNCHANGED endpointVars

-----------------------------------------------------------------------------
(* Forwards *)

\* _get_client: nothing is awaited between the look and the assignment.
GetClient ==
    IF client \in open THEN UNCHANGED <<client, open, made>>
    ELSE /\ client' = Len(made) + 1
         /\ open' = open \cup {client'} /\ made' = Append(made, phase)

\* Mutant: the client is taken as it is, also when there is none.
BeginForward_Unlooked(p) ==
    /\ task[p] = "scheduled" /\ Webhook
    /\ task' = [task EXCEPT ![p] = "posting"]
    /\ uses' = [uses EXCEPT ![p] = client]
    /\ UNCHANGED <<vars, reply, client, open, made, phase, handedAt>>

\* forward_event up to the POST; without a webhook there is nothing to do.
BeginForward(p) ==
    /\ task[p] = "scheduled"
    /\ IF Webhook
       THEN GetClient /\ task' = [task EXCEPT ![p] = "posting"]
                      /\ uses' = [uses EXCEPT ![p] = client']
       ELSE /\ task' = [task EXCEPT ![p] = "over"]
            /\ UNCHANGED <<uses, client, open, made>>
    /\ UNCHANGED <<vars, reply, phase, handedAt>>

\* Hermes answers, or not in time, or the client was closed: whatever it is, it
\* is logged and the task ends.
EndForward(p) ==
    /\ task[p] = "posting"
    /\ task' = [task EXCEPT ![p] = "over"]
    /\ UNCHANGED <<vars, reply, uses, client, open, made, phase, handedAt>>

\* The event loop ends after the lifespan and cancels the tasks that are left.
CancelForward(p) ==
    /\ phase = "closed" /\ task[p] \in {"scheduled", "posting"}
    /\ task' = [task EXCEPT ![p] = "over"]
    /\ UNCHANGED <<vars, reply, uses, client, open, made, phase, handedAt>>

\* Mutant: the client is forgotten, not closed.
CloseClient_Forgets ==
    /\ phase = "serving"
    /\ phase' = IF client \in open THEN "closing" ELSE "closed"
    /\ UNCHANGED <<vars, reply, task, uses, client, open, made, handedAt>>

\* close_client: the client is closed and its connections are awaited ...
CloseClient ==
    /\ phase = "serving"
    /\ IF client \in open THEN open' = open \ {client} /\ phase' = "closing"
                          ELSE UNCHANGED open /\ phase' = "closed"
    /\ UNCHANGED <<vars, reply, task, uses, client, made, handedAt>>

\* ... and then forgotten, or another one that a forward has made meanwhile.
ForgetClient ==
    /\ phase = "closing"
    /\ phase' = "closed" /\ client' = 0
    /\ UNCHANGED <<vars, reply, task, uses, open, made, handedAt>>

EndpointTick == phase = "serving" /\ Tick /\ UNCHANGED endpointVars

EndpointNext ==
    \/ \E p \in Posts : \/ TurnAway(p) \/ Receive(p)
                        \/ BeginForward(p) \/ EndForward(p) \/ CancelForward(p)
    \/ ReceiveOverWebSocket
    \/ CloseClient \/ ForgetClient
    \/ EndpointTick

EndpointSpec == EndpointInit /\ [][EndpointNext]_allVars

-----------------------------------------------------------------------------
(* Properties *)

\* What the endpoint may answer; "none" before it has.
Responses == {"none", "not found", "ignored", "ok", "error"}

\* The type invariant of the endpoint's part: a forward that posts has a client.
EndpointTypeOK ==
    /\ reply \in [Posts -> Responses]
    /\ task \in [Posts -> {"none", "scheduled", "posting", "over"}]
    /\ uses \in [Posts -> 0..Len(made)]
    /\ \A p \in Posts : task[p] = "posting" => uses[p] # 0
    /\ made \in Seq(Phases)
    /\ client \in 0..Len(made) /\ open \subseteq 1..Len(made)
    /\ phase \in Phases
    /\ handedAt \in [Posts -> 1..MaxTime \cup {NotPosted}]

\* A sender that sees the request fail may post the event again, although the
\* forward was scheduled.  The reply gate, which the WebSocket path shares,
\* keeps Hermes from hearing of it twice: posts that mention the bot and say
\* nothing else are a cooldown apart in each chat.
RetryIsDamped ==
    \A p, q \in Posts :
       LET e == EventOf[p]
           f == EventOf[q]
       IN  /\ p # q /\ e.group = f.group /\ f.topics = {}
           /\ handedAt[p] # NotPosted /\ handedAt[q] # NotPosted
           /\ handedAt[p] < handedAt[q] \/ (handedAt[p] = handedAt[q] /\ e.topics = {})
           => handedAt[q] >= handedAt[p] + GateCooldown

\* Forwards share one HTTP client while the bridge serves, and the shutdown
\* closes it; only a forward that begins during it can leave another one behind.
ClientIsClosed ==
    /\ phase = "serving" => Cardinality(open) <= 1
    /\ phase = "closed" => \A c \in open : made[c] # "serving"

\* What the README and the tests say of the endpoint (src/README.md:128,
\* tests/test_onebot.py:156): an event that is not turned away is answered `ok'.
AcceptedIsOk == \A p \in Posts : Accepts(p) => reply[p] \in {"none", "ok"}

=============================================================================
