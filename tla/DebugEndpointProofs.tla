------------------------- MODULE DebugEndpointProofs -------------------------
(***************************************************************************)
(* Proofs about DebugEndpoint: the HTTP entry is the pipeline's, its retry *)
(* is damped by the reply gate, and forwards share one HTTP client, which  *)
(* the shutdown closes.                                                    *)
(***************************************************************************)
EXTENDS DebugEndpoint, MessagePipelineProofs

-----------------------------------------------------------------------------
(* The endpoint behaves as the pipeline.                                    *)

LEMMA PostIsMessage ==
  ASSUME NEW p \in Posts
  PROVE  /\ Read(EventOf[p]) \in Messages
         /\ EventOf[p].group \in Chats
         /\ Read(EventOf[p]).group = EventOf[p].group
         /\ Read(EventOf[p]).topics = EventOf[p].topics
BY EndpointAssumption, PipelineAssumption DEF Messages, Read

LEMMA EndpointStep ==
  ASSUME [EndpointNext]_allVars
  PROVE  [Next]_vars
<1>1. ASSUME NEW p \in Posts, TurnAway(p) \/ BeginForward(p) \/ EndForward(p) \/ CancelForward(p)
      PROVE  UNCHANGED vars
  BY <1>1 DEF TurnAway, BeginForward, EndForward, CancelForward
<1>2. ASSUME NEW p \in Posts, Receive(p) PROVE Next
  BY <1>2, PostIsMessage DEF Receive, Next
<1>3. CASE ReceiveOverWebSocket
  BY <1>3 DEF ReceiveOverWebSocket, Next
<1>4. CASE CloseClient \/ ForgetClient
  BY <1>4 DEF CloseClient, ForgetClient
<1>5. CASE EndpointTick
  BY <1>5 DEF EndpointTick, Next
<1>6. CASE UNCHANGED allVars
  BY <1>6 DEF allVars
<1> QED
  BY <1>1, <1>2, <1>3, <1>4, <1>5, <1>6 DEF EndpointNext

\* What is proved of the pipeline holds of the pipeline behind the endpoint.
THEOREM EndpointIsPipeline == EndpointSpec => Spec
<1>1. EndpointInit => Init
  BY DEF EndpointInit
<1>2. [EndpointNext]_allVars => [Next]_vars
  BY EndpointStep
<1> QED
  BY <1>1, <1>2, PTL DEF EndpointSpec, Spec

\* Among them: a post is planned as a message over the WebSocket is, and plain
\* mentions are answered a cooldown apart whichever way they come (process).
THEOREM EndpointPlans ==
  EndpointSpec => /\ []PolicyIsJoin
                  /\ []CommandIsExclusive
                  /\ []GateSpacing
  BY EndpointIsPipeline, PolicyIsJoinHolds, CommandIsExclusiveHolds, GateSpacingHolds

-----------------------------------------------------------------------------
(* The invariant.                                                           *)

\* While the bridge serves, the client in use is the only one that is open;
\* afterwards none of the time before is.
ClientsInv ==
    /\ phase = "serving" => open \subseteq {client}
    /\ phase # "serving" => \A c \in open : made[c] # "serving"

\* Hermes was handed nothing after the last reply that the gate recorded.
GateInv ==
    /\ \A c \in Chats : lastReply[c] <= now
    /\ \A p \in Posts :
         handedAt[p] # NotPosted => handedAt[p] <= lastReply[EventOf[p].group]

EInv == TypeOK /\ EndpointTypeOK /\ ClientsInv /\ GateInv /\ RetryIsDamped

LEMMA EndpointInitOK == EndpointInit => EInv
<1> SUFFICES ASSUME EndpointInit PROVE EInv
  OBVIOUS
<1>1. EndpointTypeOK
  <2>1. made = <<>> /\ Len(made) = 0 /\ made \in Seq(Phases)
    BY DEF EndpointInit
  <2> QED
    BY <2>1 DEF EndpointInit, EndpointTypeOK, Phases, Responses
<1>2. ClientsInv
  BY DEF EndpointInit, ClientsInv
<1>3. GateInv /\ RetryIsDamped
  BY DEF EndpointInit, Init, ActivityInit, GateInv, RetryIsDamped
<1>4. TypeOK
  <2>1. ActivityTypeOK
    BY ActivityAssumption DEF EndpointInit, Init, ActivityInit, ActivityTypeOK
  <2> QED
    BY <2>1 DEF EndpointInit, Init, TypeOK, EmptyPlan, NoPolicy
<1> QED
  BY <1>1, <1>2, <1>3, <1>4 DEF EInv

LEMMA ClientTypes ==
  ASSUME EndpointTypeOK
  PROVE  /\ made \in Seq(Phases) /\ Len(made) \in Nat
         /\ client \in 0..Len(made) /\ open \subseteq 1..Len(made)
         /\ phase \in Phases
         /\ uses \in [Posts -> 0..Len(made)]
         /\ \A p \in Posts : task[p] = "posting" => uses[p] # 0
         /\ task \in [Posts -> {"none", "scheduled", "posting", "over"}]
<1>1. made \in Seq(Phases)
  BY Zenon DEF EndpointTypeOK
<1>2. Len(made) \in Nat
  BY <1>1
<1> QED
  BY <1>1, <1>2, Zenon DEF EndpointTypeOK

\* A client that a forward uses is there and open when the POST begins.
LEMMA GetClientOK ==
  ASSUME EndpointTypeOK, ClientsInv, GetClient, UNCHANGED phase
  PROVE  /\ client' \in 1..Len(made')
         /\ open' \subseteq 1..Len(made')
         /\ made' \in Seq(Phases)
         /\ Len(made) <= Len(made')
         /\ ClientsInv'
<1>1. /\ made \in Seq(Phases) /\ Len(made) \in Nat
      /\ open \subseteq 1..Len(made) /\ phase \in Phases
  BY ClientTypes
<1>2. CASE client \in open
  <2>1. client' = client /\ open' = open /\ made' = made
    BY <1>2 DEF GetClient
  <2>2. client \in 1..Len(made)
    BY <1>1, <1>2
  <2>3. ClientsInv'
    BY <2>1 DEF ClientsInv
  <2> QED
    BY <1>1, <2>1, <2>2, <2>3
<1>3. CASE client \notin open
  <2>1. /\ client' = Len(made) + 1 /\ open' = open \cup {client'}
        /\ made' = Append(made, phase)
    BY <1>3 DEF GetClient
  <2>2. /\ made' \in Seq(Phases) /\ Len(made') = Len(made) + 1
        /\ made'[Len(made) + 1] = phase /\ \A i \in 1..Len(made) : made'[i] = made[i]
    BY <1>1, <2>1
  <2>3. ClientsInv'
    BY <1>1, <1>3, <2>1, <2>2 DEF ClientsInv
  <2>4. client' \in 1..Len(made')
    BY <1>1, <2>1, <2>2
  <2>5. open' \subseteq 1..Len(made')
    <3>1. \A i \in 1..Len(made) : i \in 1..Len(made')
      BY <1>1, <2>2
    <3> QED
      BY <1>1, <2>1, <2>4, <3>1
  <2> QED
    BY <1>1, <2>2, <2>3, <2>4, <2>5
<1> QED
  BY <1>2, <1>3

\* A step of the forwards alone.
LEMMA ForwardOK ==
  ASSUME EInv, UNCHANGED <<vars, reply, phase, handedAt>>, NEW p \in Posts,
         NEW t \in {"posting", "over"}, task' = [task EXCEPT ![p] = t],
         \/ GetClient /\ uses' = [uses EXCEPT ![p] = client']
         \/ t = "over" /\ UNCHANGED <<uses, client, open, made>>
  PROVE  EInv'
<1>1. TypeOK'
  BY DEF EInv, TypeOK, ActivityTypeOK, vars
<1>2. GateInv' /\ RetryIsDamped'
  BY DEF EInv, GateInv, RetryIsDamped, vars
<1>3. task' \in [Posts -> {"none", "scheduled", "posting", "over"}]
  BY DEF EInv, EndpointTypeOK
<1>4. /\ reply' \in [Posts -> Responses]
      /\ phase' \in Phases /\ handedAt' \in [Posts -> 1..MaxTime \cup {NotPosted}]
  BY DEF EInv, EndpointTypeOK
<1>5. CASE GetClient /\ uses' = [uses EXCEPT ![p] = client']
  <2>1. /\ client' \in 1..Len(made') /\ open' \subseteq 1..Len(made')
        /\ made' \in Seq(Phases) /\ Len(made) <= Len(made')
        /\ ClientsInv'
    BY <1>5, GetClientOK DEF EInv
  <2>2. Len(made) \in Nat /\ Len(made') \in Nat
    BY <2>1, ClientTypes DEF EInv
  <2>3. uses \in [Posts -> 0..Len(made)] /\ \A q \in Posts : task[q] = "posting" => uses[q] # 0
    BY ClientTypes DEF EInv
  <2>4. uses \in [Posts -> 0..Len(made')] /\ client' \in 0..Len(made') /\ client' # 0
    BY <2>1, <2>2, <2>3
  <2>5. uses' \in [Posts -> 0..Len(made')]
    BY <1>5, <2>4
  <2>6. \A q \in Posts : task'[q] = "posting" => uses'[q] # 0
    BY <1>3, <1>5, <2>3, <2>4, ClientTypes DEF EInv
  <2>7. EndpointTypeOK'
    BY <1>3, <1>4, <2>1, <2>4, <2>5, <2>6, Zenon DEF EndpointTypeOK
  <2> QED
    BY <1>1, <1>2, <2>1, <2>7 DEF EInv
<1>6. CASE t = "over" /\ UNCHANGED <<uses, client, open, made>>
  <2>1. EndpointTypeOK'
    BY <1>3, <1>6 DEF EInv, EndpointTypeOK
  <2>2. ClientsInv'
    BY <1>6 DEF EInv, ClientsInv
  <2> QED
    BY <1>1, <1>2, <2>1, <2>2 DEF EInv
<1> QED
  BY <1>5, <1>6

LEMMA HandedType ==
  ASSUME EndpointTypeOK, NEW p \in Posts, handedAt[p] # NotPosted
  PROVE  handedAt[p] \in Nat /\ handedAt[p] >= 1
<1>1. handedAt \in [Posts -> 1..MaxTime \cup {NotPosted}]
  BY Zenon DEF EndpointTypeOK
<1>2. handedAt[p] \in 1..MaxTime
  BY <1>1
<1> QED
  BY <1>2, ActivityAssumption

\* A step of the pipeline, in which a post may hand its event to Hermes.
LEMMA GateKept ==
  ASSUME EInv, NEW m \in Messages, ProcessMessage(m)
  PROVE  /\ \A c \in Chats : lastReply'[c] <= now' /\ lastReply[c] <= lastReply'[c]
         /\ GateTriggers(m) => lastReply'[m.group] = now
         /\ GateTriggers(m) /\ m.topics = {}
              => lastReply[m.group] = 0 \/ now >= lastReply[m.group] + GateCooldown
<1>1. /\ now \in Nat /\ now' = now /\ lastReply \in [Chats -> 0..MaxTime] /\ m.group \in Chats
      /\ GateCooldown \in Nat /\ MaxTime \in Nat
  BY ActivityAssumption, PipelineAssumption
     DEF EInv, TypeOK, ActivityTypeOK, ProcessMessage, Messages, Read
<1>2. CASE GateTriggers(m)
  <2>1. lastReply' = [lastReply EXCEPT ![m.group] = now]
    BY <1>2 DEF ProcessMessage, RecordReply
  <2>2. m.topics = {} => ~IsInCooldown(m.group, GateCooldown)
    BY <1>2, CooldownSilences DEF GateTriggers
  <2> QED
    BY <1>1, <2>1, <2>2 DEF EInv, GateInv, IsInCooldown
<1>3. CASE ~GateTriggers(m)
  BY <1>1, <1>3 DEF ProcessMessage, EInv, GateInv
<1> QED
  BY <1>2, <1>3

\* Steps that hand nothing to Hermes.
LEMMA NothingHanded ==
  ASSUME EInv, TypeOK', UNCHANGED handedAt,
         \A c \in Chats : lastReply[c] <= lastReply'[c] /\ lastReply'[c] <= now'
  PROVE  GateInv' /\ RetryIsDamped'
<1>1. RetryIsDamped'
  BY DEF EInv, RetryIsDamped
<1>2. ASSUME NEW p \in Posts, handedAt[p] # NotPosted
      PROVE  handedAt[p] <= lastReply'[EventOf[p].group]
  <2>1. /\ EventOf[p].group \in Chats
        /\ handedAt[p] \in Nat
    BY <1>2, PostIsMessage, HandedType DEF EInv
  <2>2. /\ lastReply[EventOf[p].group] \in Nat /\ lastReply'[EventOf[p].group] \in Nat
    BY <2>1, ActivityAssumption DEF EInv, TypeOK, ActivityTypeOK
  <2> QED
    BY <1>2, <2>1, <2>2 DEF EInv, GateInv
<1> QED
  BY <1>1, <1>2 DEF GateInv

LEMMA ReceiveOK ==
  ASSUME EInv, TypeOK', NEW p \in Posts, Receive(p)
  PROVE  EInv'
<1> DEFINE m == Read(EventOf[p])
<1> DEFINE handed == CallHermes(m)
<1>1. /\ m \in Messages /\ m.group = EventOf[p].group /\ m.topics = EventOf[p].topics
      /\ EventOf[p].group \in Chats /\ ProcessMessage(m)
  BY PostIsMessage DEF Receive
<1>2. /\ task' = [task EXCEPT ![p] = IF handed THEN "scheduled" ELSE "none"]
      /\ handedAt' = [handedAt EXCEPT ![p] = IF handed THEN now ELSE handedAt[p]]
      /\ reply' = [reply EXCEPT ![p] = "error"]
      /\ uses' = uses /\ client' = client /\ open' = open /\ made' = made /\ phase' = phase
  BY DEF Receive
<1>3. handed => GateTriggers(m)
  BY DEF CallHermes
<1> HIDE DEF m, handed
<1>4. /\ \A c \in Chats : lastReply'[c] <= now' /\ lastReply[c] <= lastReply'[c]
      /\ handed => lastReply'[m.group] = now
      /\ handed /\ m.topics = {}
           => lastReply[m.group] = 0 \/ now >= lastReply[m.group] + GateCooldown
  BY <1>1, <1>3, GateKept
<1>5. /\ now \in 1..MaxTime /\ now' = now /\ GateCooldown \in Nat /\ MaxTime \in Nat
      /\ \A c \in Chats : lastReply[c] \in Nat /\ lastReply'[c] \in Nat /\ lastReply[c] <= now
  BY <1>1, ActivityAssumption, PipelineAssumption
     DEF EInv, GateInv, TypeOK, ActivityTypeOK, ProcessMessage
<1>6. \A q \in Posts : /\ EventOf[q].group \in Chats
                       /\ handedAt[q] # NotPosted
                            => /\ handedAt[q] \in Nat /\ handedAt[q] >= 1
                               /\ handedAt[q] <= lastReply[EventOf[q].group]
  BY PostIsMessage, HandedType DEF EInv, GateInv
<1>7. handedAt \in [Posts -> 1..MaxTime \cup {NotPosted}]
  BY Zenon DEF EInv, EndpointTypeOK
<1>8. \A q \in Posts : handedAt'[q] = IF q = p /\ handed THEN now ELSE handedAt[q]
  BY <1>2, <1>7
<1>9. GateInv'
  <2>1. ASSUME NEW q \in Posts, handedAt'[q] # NotPosted
        PROVE  handedAt'[q] <= lastReply'[EventOf[q].group]
    <3>1. CASE q = p /\ handed
      BY <1>1, <1>4, <1>5, <1>8, <3>1
    <3>2. CASE ~(q = p /\ handed)
      BY <1>4, <1>5, <1>6, <1>8, <2>1, <3>2
    <3> QED
      BY <3>1, <3>2
  <2> QED
    BY <1>4, <2>1 DEF GateInv
<1>10. RetryIsDamped'
  <2> SUFFICES ASSUME NEW q \in Posts, NEW r \in Posts, q # r,
                      EventOf[q].group = EventOf[r].group, EventOf[r].topics = {},
                      handedAt'[q] # NotPosted, handedAt'[r] # NotPosted,
                      \/ handedAt'[q] < handedAt'[r]
                      \/ handedAt'[q] = handedAt'[r] /\ EventOf[q].topics = {}
               PROVE  handedAt'[r] >= handedAt'[q] + GateCooldown
    BY DEF RetryIsDamped
  <2>1. CASE handed /\ r = p
    <3>1. handedAt'[r] = now /\ handedAt'[q] = handedAt[q]
      BY <1>8, <2>1
    <3>2. handedAt[q] <= lastReply[m.group] /\ handedAt[q] \in Nat /\ handedAt[q] >= 1
      BY <1>1, <1>6, <2>1, <3>1
    <3>3. now >= lastReply[m.group] + GateCooldown
      BY <1>1, <1>4, <1>5, <2>1, <3>2
    <3> QED
      BY <1>1, <1>5, <3>1, <3>2, <3>3
  <2>2. CASE handed /\ q = p
    <3>1. handedAt'[q] = now /\ handedAt'[r] = handedAt[r]
      BY <1>8, <2>2
    <3>2. handedAt[r] <= lastReply[m.group] /\ handedAt[r] \in Nat /\ handedAt[r] >= 1
      BY <1>1, <1>6, <2>2, <3>1
    <3>3. now = handedAt[r] /\ m.topics = {}
      BY <1>1, <1>5, <2>2, <3>1, <3>2
    <3>4. now >= lastReply[m.group] + GateCooldown
      BY <1>1, <1>4, <1>5, <2>2, <3>2, <3>3
    <3> QED
      BY <1>1, <1>5, <3>1, <3>2, <3>3, <3>4
  <2>3. CASE ~(handed /\ (r = p \/ q = p))
    <3>1. handedAt'[q] = handedAt[q] /\ handedAt'[r] = handedAt[r]
      BY <1>8, <2>3
    <3> QED
      BY <3>1 DEF EInv, RetryIsDamped
  <2> QED
    BY <2>1, <2>2, <2>3
<1>11. EndpointTypeOK'
  <2>1. handedAt' \in [Posts -> 1..MaxTime \cup {NotPosted}]
    BY <1>2, <1>5, <1>7
  <2>2. /\ reply' \in [Posts -> Responses]
        /\ task' \in [Posts -> {"none", "scheduled", "posting", "over"}]
        /\ \A q \in Posts : task'[q] = "posting" => uses'[q] # 0
    BY <1>2 DEF EInv, EndpointTypeOK, Responses
  <2> QED
    BY <1>2, <2>1, <2>2, ClientTypes DEF EInv, EndpointTypeOK
<1>12. ClientsInv'
  BY <1>2 DEF EInv, ClientsInv
<1> QED
  BY <1>9, <1>10, <1>11, <1>12 DEF EInv

\* Steps of the WebSocket path and of the clock.
LEMMA ElsewhereOK ==
  ASSUME EInv, TypeOK', UNCHANGED endpointVars,
         (\E m \in Messages : ProcessMessage(m)) \/ Tick \/ UNCHANGED vars
  PROVE  EInv'
<1>1. \A c \in Chats : lastReply[c] <= lastReply'[c] /\ lastReply'[c] <= now'
  <2>1. CASE \E m \in Messages : ProcessMessage(m)
    BY <2>1, GateKept
  <2>2. CASE Tick \/ UNCHANGED vars
    <3>1. /\ now \in Nat /\ now' \in {now, now + 1} /\ lastReply' = lastReply
          /\ \A c \in Chats : lastReply[c] \in Nat /\ lastReply[c] <= now
      BY <2>2, ActivityAssumption
         DEF Tick, ActivityTick, activityVars, vars, EInv, GateInv, TypeOK, ActivityTypeOK
    <3> QED
      BY <3>1
  <2> QED
    BY <2>1, <2>2
<1>2. GateInv' /\ RetryIsDamped'
  BY <1>1, NothingHanded DEF endpointVars
<1>3. EndpointTypeOK' /\ ClientsInv'
  BY DEF EInv, EndpointTypeOK, ClientsInv, endpointVars, forwardVars
<1> QED
  BY <1>2, <1>3 DEF EInv

\* The lifespan's steps, and a post that is turned away.
LEMMA LifespanOK ==
  ASSUME EInv, CloseClient \/ ForgetClient \/ \E p \in Posts : TurnAway(p)
  PROVE  EInv'
<1>1. TypeOK' /\ GateInv' /\ RetryIsDamped'
  BY DEF EInv, TypeOK, ActivityTypeOK, GateInv, RetryIsDamped, vars,
         CloseClient, ForgetClient, TurnAway
<1>2. CASE CloseClient
  <2>1. /\ phase' \in Phases /\ phase = "serving" /\ phase' # "serving"
        /\ open' = {} /\ client' = client /\ made' = made /\ task' = task
        /\ uses' = uses /\ reply' = reply /\ handedAt' = handedAt
    BY <1>2 DEF CloseClient, EInv, ClientsInv, Phases
  <2>2. EndpointTypeOK'
    BY <2>1 DEF EInv, EndpointTypeOK
  <2> QED
    BY <1>1, <2>1, <2>2 DEF EInv, ClientsInv
<1>3. CASE ForgetClient
  <2>1. /\ phase' = "closed" /\ phase = "closing" /\ client' = 0 /\ made' = made
        /\ open' = open /\ task' = task /\ uses' = uses /\ reply' = reply
        /\ handedAt' = handedAt /\ phase' \in Phases
    BY <1>3 DEF ForgetClient, Phases
  <2>2. 0 \in 0..Len(made)
    BY ClientTypes DEF EInv
  <2>3. EndpointTypeOK'
    BY <2>1, <2>2 DEF EInv, EndpointTypeOK
  <2> QED
    BY <1>1, <2>1, <2>3 DEF EInv, ClientsInv
<1>4. CASE \E p \in Posts : TurnAway(p)
  <2>1. PICK p \in Posts : TurnAway(p)
    BY <1>4
  <2>2. /\ phase' = phase /\ client' = client /\ made' = made /\ open' = open
        /\ task' = task /\ uses' = uses /\ handedAt' = handedAt
        /\ \E r \in {"not found", "ignored"} : reply' = [reply EXCEPT ![p] = r]
    BY <2>1 DEF TurnAway, forwardVars
  <2>3. EndpointTypeOK'
    BY <2>2 DEF EInv, EndpointTypeOK, Responses
  <2> QED
    BY <1>1, <2>2, <2>3 DEF EInv, ClientsInv
<1> QED
  BY <1>2, <1>3, <1>4

-----------------------------------------------------------------------------
(* Theorems                                                                 *)

THEOREM EndpointInvariant == EndpointSpec => []EInv
<1>1. EInv /\ TypeOK' /\ [EndpointNext]_allVars => EInv'
  <2> SUFFICES ASSUME EInv, TypeOK', [EndpointNext]_allVars PROVE EInv'
    OBVIOUS
  <2>1. ASSUME NEW p \in Posts, Receive(p) PROVE EInv'
    BY <2>1, ReceiveOK
  <2>2. ASSUME NEW p \in Posts, BeginForward(p) PROVE EInv'
    <3>1. CASE Webhook
      BY <2>2, <3>1, ForwardOK DEF BeginForward
    <3>2. CASE ~Webhook
      BY <2>2, <3>2, ForwardOK DEF BeginForward
    <3> QED
      BY <3>1, <3>2
  <2>3. ASSUME NEW p \in Posts, EndForward(p) \/ CancelForward(p) PROVE EInv'
    BY <2>3, ForwardOK DEF EndForward, CancelForward
  <2>4. CASE ReceiveOverWebSocket
    BY <2>4, ElsewhereOK DEF ReceiveOverWebSocket
  <2>5. CASE EndpointTick
    BY <2>5, ElsewhereOK DEF EndpointTick
  <2>6. CASE CloseClient \/ ForgetClient \/ \E p \in Posts : TurnAway(p)
    BY <2>6, LifespanOK
  <2>7. CASE UNCHANGED allVars
    BY <2>7, ElsewhereOK DEF allVars
  <2> QED
    BY <2>1, <2>2, <2>3, <2>4, <2>5, <2>6, <2>7 DEF EndpointNext
<1> QED
  BY <1>1, EndpointInitOK, EndpointIsPipeline, TypeCorrect, PTL DEF EndpointSpec

\* The types of the endpoint and of its forwards.
THEOREM EndpointTypes == EndpointSpec => []EndpointTypeOK
<1>1. EInv => EndpointTypeOK
  BY DEF EInv
<1> QED
  BY <1>1, EndpointInvariant, PTL

\* A retry of a post is damped: posts that only mention the bot are handed to
\* Hermes a cooldown apart in each chat, whatever arrives over the WebSocket.
THEOREM RetriesAreDamped == EndpointSpec => []RetryIsDamped
<1>1. EInv => RetryIsDamped
  BY DEF EInv
<1> QED
  BY <1>1, EndpointInvariant, PTL

\* Forwards share one HTTP client while the bridge serves, and the shutdown
\* leaves none of that time open.
THEOREM ClientsAreClosed == EndpointSpec => []ClientIsClosed
<1>1. EInv => (phase = "serving" => Cardinality(open) <= 1)
  <2> SUFFICES ASSUME EInv, phase = "serving" PROVE Cardinality(open) <= 1
    OBVIOUS
  <2>1. open = {} \/ open = {client}
    BY DEF EInv, ClientsInv
  <2>2. Cardinality({}) = 0
    BY FS_EmptySet, Zenon
  <2>3. Cardinality({client}) = 1
    BY FS_Singleton, Zenon
  <2> QED
    BY <2>1, <2>2, <2>3
<1>2. EInv => ClientIsClosed
  BY <1>1 DEF EInv, ClientsInv, ClientIsClosed
<1> QED
  BY <1>2, EndpointInvariant, PTL

=============================================================================
