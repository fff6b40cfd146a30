-------------------------- MODULE EventHandlerProofs --------------------------
(***************************************************************************)
(* Proofs about EventHandler: the handlers of the connections keep the     *)
(* order of the feeds, whatever they wait for, and nothing but the         *)
(* shutdown makes an iteration over the clients raise.                     *)
(***************************************************************************)
EXTENDS EventHandler, ReplyArbiterProofs

Modes3 == {"listed", "matching", "fallback"}

-----------------------------------------------------------------------------
(* The two ways a handler comes to its next await behind the recording.     *)

\* A client's push is waiting: the id was new to the client and is marked.
Marks(c, i, d) ==
    /\ d \in clients /\ IdOf(c, i) \notin seen[d]
    /\ Mark(c, i, d)
    /\ target' = [target EXCEPT ![c] = d]
    /\ push' = [push EXCEPT ![c] = "marked"]
    /\ table' = [table EXCEPT ![c] = clients]
    /\ \E more \in SUBSET Downstreams : todo' = [todo EXCEPT ![c] = more]
    /\ \E mode \in Modes3 : step' = [step EXCEPT ![c] = mode]

LEMMA NextMarks ==
  ASSUME clients \subseteq Downstreams, NEW c \in Conns, NEW i, NEW mode \in Modes3,
         NEW rest \in SUBSET clients, PushNext(c, i, mode, rest)
  PROVE  \E d \in clients : Marks(c, i, d)
<1>1. PICK d \in rest : \E refused \in SUBSET (rest \ {d}) :
         /\ IdOf(c, i) \notin seen[d]
         /\ Mark(c, i, d)
         /\ target' = [target EXCEPT ![c] = d]
         /\ push' = [push EXCEPT ![c] = "marked"]
         /\ todo' = [todo EXCEPT ![c] = rest \ (refused \cup {d})]
         /\ step' = [step EXCEPT ![c] = mode]
         /\ table' = [table EXCEPT ![c] = clients]
  BY DEF PushNext
<1>2. PICK refused \in SUBSET (rest \ {d}) :
         todo' = [todo EXCEPT ![c] = rest \ (refused \cup {d})]
  BY <1>1
<1>3. rest \ (refused \cup {d}) \in SUBSET Downstreams
  OBVIOUS
<1>4. \E more \in SUBSET Downstreams : todo' = [todo EXCEPT ![c] = more]
  BY <1>2, <1>3
<1>5. \E m \in Modes3 : step' = [step EXCEPT ![c] = m]
  BY <1>1
<1> QED
  BY <1>1, <1>4, <1>5 DEF Marks

LEMMA RouteShape ==
  ASSUME clients \subseteq Downstreams, NEW c \in Conns, NEW i, NEW mode \in Modes3,
         NEW rest \in SUBSET clients, Route(c, i, mode, rest)
  PROVE  (\E d \in clients : Marks(c, i, d)) \/ PushesDone(c, "storing")
<1>1. Fallback(c, mode) \in SUBSET clients
  BY DEF Fallback
<1>2. "fallback" \in Modes3
  BY DEF Modes3
<1> QED
  BY <1>1, <1>2, NextMarks DEF Route

LEMMA RouteEventShape ==
  ASSUME clients \subseteq Downstreams, NEW c \in Conns, NEW i, RouteEvent(c, i)
  PROVE  (\E d \in clients : Marks(c, i, d)) \/ PushesDone(c, "storing")
<1>1. /\ Matching(c) \in SUBSET clients
      /\ Script[c][i].plan.primary \cap clients \in SUBSET clients
      /\ Routed(Script[c][i].plan) \cap clients \in SUBSET clients
  BY DEF Matching, Own
<1>2. "listed" \in Modes3 /\ "matching" \in Modes3
  BY DEF Modes3
<1> QED
  BY <1>1, <1>2, RouteShape DEF RouteEvent

-----------------------------------------------------------------------------
(* The arbiter's variables. *)

LEMMA FrameType ==
  ASSUME NEW c \in Conns, NEW i \in 1..Len(Script[c])
  PROVE  /\ Script[c][i] \in Frame
         /\ Script[c][i].id \in EventIds
         /\ Script[c][i].group \in Groups \cup {NoId}
         /\ Script[c][i].user \in Users \cup {NoId}
         /\ Script[c][i].plan \in Plans
<1>1. Script[c] \in Seq(Frame)
  BY HandlerAssumption
<1>2. Script[c][i] \in Frame
  BY <1>1
<1> QED
  BY <1>2 DEF Frame

\* A frame that is being handled is one of its connection's.
LEMMA CurrentFrame ==
  ASSUME HandlerTypeOK, NEW c \in Conns, step[c] # "idle"
  PROVE  taken[c] \in 1..Len(Script[c])
<1>1. taken[c] \in Nat /\ taken[c] # 0 /\ taken[c] <= arrived[c]
      /\ arrived[c] <= Len(Script[c]) /\ arrived[c] \in Nat
  BY DEF HandlerTypeOK
<1>2. Script[c] \in Seq(Frame)
  BY HandlerAssumption
<1>3. Len(Script[c]) \in Nat
  BY <1>2
<1> QED
  BY <1>1, <1>3

LEMMA NextFrame ==
  ASSUME HandlerTypeOK, NEW c \in Conns, taken[c] < arrived[c]
  PROVE  taken[c] + 1 \in 1..Len(Script[c])
<1>1. taken[c] \in Nat /\ arrived[c] <= Len(Script[c]) /\ arrived[c] \in Nat
  BY DEF HandlerTypeOK
<1>2. Script[c] \in Seq(Frame)
  BY HandlerAssumption
<1>3. Len(Script[c]) \in Nat
  BY <1>2
<1> QED
  BY <1>1, <1>3

\* Recording the event of a frame and beginning to route it is record_event to
\* the arbiter.
LEMMA RecordStep ==
  ASSUME NEW c \in Conns, NEW i \in 1..Len(Script[c]), RecordAndRoute(c, i)
  PROVE  Next
<1>1. Bot[c] \in Bots
  BY HandlerAssumption
<1>2. RecordEvent(Bot[c], Script[c][i].group, Script[c][i].user, Script[c][i].plan)
  BY DEF RecordAndRoute
<1> QED
  BY <1>1, <1>2, FrameType DEF Next

\* To the arbiter, every step of the handlers is an event that is recorded, an
\* arbitration, or nothing.
LEMMA ArbiterStep ==
  HandlerTypeOK /\ [HandlerNext]_allVars => [Next]_vars
<1> SUFFICES ASSUME HandlerTypeOK, [HandlerNext]_allVars PROVE [Next]_vars
  OBVIOUS
<1>0. ArbiterIdle => Next
  BY DEF Next
<1>1. ASSUME NEW c \in Conns, Arrive(c) \/ Disconnect(c) \/ Write(c)
      PROVE  ArbiterIdle
  BY <1>1 DEF Arrive, Disconnect, Write
<1>2. ASSUME NEW c \in Conns, Handle(c)
      PROVE  Next
  <2>1. CASE TakeEvent(c)
    BY <2>1, NextFrame, RecordStep DEF TakeEvent, Takes
  <2>2. CASE FinishRepeat(c)
    <3>1. step[c] # "idle"
      BY <2>2 DEF FinishRepeat
    <3> QED
      BY <2>2, <3>1, CurrentFrame, RecordStep DEF FinishRepeat
  <2>3. CASE TakeGarbage(c) \/ TakeOwn(c) \/ BeginRepeat(c) \/ PushReturns(c)
             \/ StoreEnds(c) \/ LoopEnds(c) \/ TakeRaising(c)
    BY <2>3, <1>0 DEF TakeGarbage, TakeOwn, TakeRaising, BeginRepeat, PushReturns, StoreEnds, LoopEnds
  <2> QED
    BY <1>2, <2>1, <2>2, <2>3 DEF Handle, TakeFrame
<1>3. ASSUME BeginShutdown \/ Stop
      PROVE  ArbiterIdle
  BY <1>3 DEF BeginShutdown, Stop, ClientStopped, ShutdownDone
<1>4. ASSUME NEW r \in Requests, Answer(r)
      PROVE  Next
  BY <1>4 DEF Answer, Next
<1>5. ASSUME UNCHANGED allVars
      PROVE  UNCHANGED vars
  BY <1>5 DEF allVars
<1>6. CASE TimePasses
  BY <1>6 DEF TimePasses, Next
<1> QED
  BY <1>0, <1>1, <1>2, <1>3, <1>4, <1>5, <1>6 DEF HandlerNext

-----------------------------------------------------------------------------
(* The types of the handler's part. *)

PushTypes ==
    /\ step \in [Conns -> {"idle", "repeating", "listed", "matching", "fallback",
                           "storing"}]
    /\ target \in [Conns -> Downstreams \cup {NoClient}]
    /\ push \in [Conns -> {"no", "marked", "over"}]
    /\ \A c \in Conns : push[c] # "no" <=> step[c] \in {"listed", "matching", "fallback"}
    /\ \A c \in Conns : target[c] = NoClient <=> push[c] = "no"
    /\ todo \in [Conns -> SUBSET Downstreams] /\ table \in [Conns -> SUBSET Downstreams]
    /\ seen \in [Downstreams -> SUBSET EventIds]
    /\ forgotten \in [Downstreams -> SUBSET EventIds] /\ copy \in [Conns -> Copies]

\* The ids a client ever marked.
Known(d) == seen[d] \cup forgotten[d]

\* Marking an id adds it to what is known of the client, whether its memory is
\* trimmed or not, and the copy is the first one if the id was not known.
LEMMA MarkEffect ==
  ASSUME HandlerTypeOK, NEW c \in Conns, NEW i \in 1..Len(Script[c]),
         NEW d \in Downstreams, Mark(c, i, d)
  PROVE  /\ seen' \in [Downstreams -> SUBSET EventIds]
         /\ forgotten' \in [Downstreams -> SUBSET EventIds]
         /\ copy' \in [Conns -> Copies]
         /\ Known(d)' = Known(d) \cup {IdOf(c, i)}
         /\ \A e \in Downstreams \ {d} : Known(e)' = Known(e)
         /\ \A k \in Conns \ {c} : copy'[k] = copy[k]
         /\ copy'[c] = "anew" \/ IdOf(c, i) \notin forgotten[d]
<1> DEFINE ids == seen[d] \cup {IdOf(c, i)}
<1>1. PICK kept \in Trimmed(ids) :
         /\ seen' = [seen EXCEPT ![d] = kept]
         /\ forgotten' = [forgotten EXCEPT ![d] = (@ \cup ids) \ kept]
         /\ copy' = [copy EXCEPT ![c] = IF IdOf(c, i) \in forgotten[d] THEN "anew"
                                                                     ELSE "first"]
  BY DEF Mark
<1>2. kept \subseteq ids
  BY DEF Trimmed
<1>3. IdOf(c, i) \in EventIds
  BY FrameType DEF IdOf
<1>4. /\ seen \in [Downstreams -> SUBSET EventIds]
      /\ forgotten \in [Downstreams -> SUBSET EventIds] /\ copy \in [Conns -> Copies]
  BY DEF HandlerTypeOK
<1>5. /\ seen'[d] = kept /\ forgotten'[d] = (forgotten[d] \cup ids) \ kept
      /\ \A e \in Downstreams \ {d} : seen'[e] = seen[e] /\ forgotten'[e] = forgotten[e]
  BY <1>1, <1>4
<1>6. Known(d)' = Known(d) \cup {IdOf(c, i)}
  BY <1>2, <1>5 DEF Known
<1>7. /\ seen' \in [Downstreams -> SUBSET EventIds]
      /\ forgotten' \in [Downstreams -> SUBSET EventIds]
  BY <1>1, <1>2, <1>3, <1>4
<1>8. /\ copy' \in [Conns -> Copies]
      /\ \A k \in Conns \ {c} : copy'[k] = copy[k]
      /\ (copy'[c] = "anew" \/ IdOf(c, i) \notin forgotten[d])
  BY <1>1, <1>4 DEF Copies
<1>9. \A e \in Downstreams \ {d} : Known(e)' = Known(e)
  BY <1>5 DEF Known
<1> HIDE DEF ids
<1> QED
  BY <1>6, <1>7, <1>8, <1>9

LEMMA MarksType ==
  ASSUME HandlerTypeOK, NEW c \in Conns, NEW i \in 1..Len(Script[c]),
         NEW d \in clients, Marks(c, i, d)
  PROVE  PushTypes' /\ \A k \in Conns \ {c} : step'[k] = step[k]
<1>1. d \in Downstreams /\ d # NoClient
  BY HandlerAssumption DEF HandlerTypeOK
<1>2. /\ seen' \in [Downstreams -> SUBSET EventIds]
      /\ forgotten' \in [Downstreams -> SUBSET EventIds] /\ copy' \in [Conns -> Copies]
  BY <1>1, MarkEffect DEF Marks
<1>3. PICK mode \in Modes3 : step' = [step EXCEPT ![c] = mode]
  BY DEF Marks
<1>4. PICK more \in SUBSET Downstreams : todo' = [todo EXCEPT ![c] = more]
  BY DEF Marks
<1> QED
  BY <1>1, <1>2, <1>3, <1>4 DEF Marks, HandlerTypeOK, PushTypes, Modes3

LEMMA DoneType ==
  ASSUME HandlerTypeOK, NEW c \in Conns, NEW next \in {"idle", "storing"},
         PushesDone(c, next)
  PROVE  PushTypes' /\ \A k \in Conns \ {c} : step'[k] = step[k]
  BY DEF PushesDone, HandlerTypeOK, PushTypes, Copies

\* What is left to show of a step of a handler that has the push types.
LEMMA RestKept ==
  ASSUME HandlerTypeOK, PushTypes', NEW c \in Conns, taken'[c] # 0,
         \A k \in Conns \ {c} : step'[k] = step[k] /\ taken'[k] = taken[k],
         taken' \in [Conns -> Nat], taken'[c] <= arrived[c],
         UNCHANGED <<link, arrived, inbox, clients, stopping, phase, settled>>,
         cut' \subseteq Conns \X Nat
  PROVE  HandlerTypeOK'
<1>1. \A k \in Conns : taken'[k] = 0 => step'[k] = "idle"
  BY DEF HandlerTypeOK
<1>2. \A k \in Conns : taken'[k] <= arrived'[k] /\ arrived'[k] <= Len(Script[k])
  BY DEF HandlerTypeOK
<1> QED
  BY <1>1, <1>2 DEF HandlerTypeOK, PushTypes

\* A step that moves frames and links only.
LEMMA FramesMoved ==
  ASSUME HandlerTypeOK,
         link' \in [Conns -> {"open", "gone", "ended"}],
         arrived' \in [Conns -> Nat], taken' \in [Conns -> Nat],
         \A c \in Conns : taken'[c] <= arrived'[c] /\ arrived'[c] <= Len(Script[c]),
         \A c \in Conns : taken'[c] = 0 => taken[c] = 0,
         UNCHANGED <<step, table, inbox, pushVars, busVars, settled, cut>>
  PROVE  HandlerTypeOK'
<1>1. \A c \in Conns : taken'[c] = 0 => step'[c] = "idle"
  BY DEF HandlerTypeOK
<1>2. UNCHANGED <<step, table, inbox, target, push, todo, seen, forgotten, copy,
              clients, stopping, phase,
                  settled, cut>>
  BY DEF pushVars, busVars
<1> QED
  BY <1>1, <1>2 DEF HandlerTypeOK

\* A step of the shutdown.
LEMMA BusMoved ==
  ASSUME HandlerTypeOK,
         link' \in [Conns -> {"open", "gone", "ended"}],
         clients' \subseteq Downstreams, stopping' \subseteq Downstreams,
         phase' \in {"serving", "unplugging", "closing", "closed"},
         UNCHANGED <<arrived, taken, step, table, inbox, pushVars, histories>>
  PROVE  HandlerTypeOK'
<1>1. UNCHANGED <<arrived, taken, step, table, inbox, target, push, todo, seen, forgotten,
              copy, settled,
                  cut>>
  BY DEF pushVars, histories
<1> QED
  BY <1>1 DEF HandlerTypeOK

LEMMA HandlerTypeInit == HandlerInit => HandlerTypeOK
<1> SUFFICES ASSUME HandlerInit PROVE HandlerTypeOK
  OBVIOUS
<1>1. \A c \in Conns : Len(Script[c]) \in Nat
  BY HandlerAssumption
<1>2. inbox \in [Downstreams -> Seq(Received)]
  BY DEF HandlerInit
<1> QED
  BY <1>1, <1>2 DEF HandlerInit, HandlerTypeOK, Copies

LEMMA HandlerTypeNext == HandlerTypeOK /\ [HandlerNext]_allVars => HandlerTypeOK'
<1> SUFFICES ASSUME HandlerTypeOK, [HandlerNext]_allVars PROVE HandlerTypeOK'
  OBVIOUS
<1>0. \A c \in Conns : Len(Script[c]) \in Nat
  BY HandlerAssumption
<1>1. ASSUME NEW c \in Conns, Arrive(c)
      PROVE  HandlerTypeOK'
  <2>1. arrived[c] < Len(Script[c]) /\ arrived' = [arrived EXCEPT ![c] = @ + 1]
        /\ UNCHANGED <<link, taken, step, table, inbox, pushVars, busVars, histories>>
    BY <1>1 DEF Arrive
  <2>2. /\ arrived' \in [Conns -> Nat]
        /\ \A k \in Conns : taken'[k] <= arrived'[k] /\ arrived'[k] <= Len(Script[k])
    BY <2>1, <1>0 DEF HandlerTypeOK
  <2> QED
    BY <2>1, <2>2, FramesMoved DEF HandlerTypeOK, histories
<1>2. ASSUME NEW c \in Conns, Disconnect(c) \/ LoopEnds(c)
      PROVE  HandlerTypeOK'
  <2>1. link' \in [Conns -> {"open", "gone", "ended"}]
    BY <1>2 DEF Disconnect, LoopEnds, HandlerTypeOK
  <2>2. UNCHANGED <<arrived, taken, step, table, inbox, pushVars, busVars, histories>>
    BY <1>2 DEF Disconnect, LoopEnds
  <2> QED
    BY <2>1, <2>2, FramesMoved DEF HandlerTypeOK, histories
<1>3. ASSUME NEW c \in Conns, TakeGarbage(c) \/ TakeOwn(c)
      PROVE  HandlerTypeOK'
  <2>1. /\ taken[c] < arrived[c] /\ taken' = [taken EXCEPT ![c] = @ + 1]
        /\ UNCHANGED <<arrived, step, table, inbox, pushVars, busVars, histories>>
    BY <1>3 DEF TakeGarbage, TakeOwn, Takes
  <2>2. link' \in [Conns -> {"open", "gone", "ended"}]
    BY <1>3 DEF TakeGarbage, TakeOwn, HandlerTypeOK
  <2>3. /\ taken' \in [Conns -> Nat]
        /\ \A k \in Conns : taken'[k] <= arrived'[k] /\ arrived'[k] <= Len(Script[k])
        /\ \A k \in Conns : taken'[k] = 0 => taken[k] = 0
    BY <2>1 DEF HandlerTypeOK
  <2> QED
    BY <2>1, <2>2, <2>3, FramesMoved DEF HandlerTypeOK, histories
<1>4. ASSUME NEW c \in Conns, TakeRaising(c)
      PROVE  HandlerTypeOK'
  <2>1. /\ taken[c] < arrived[c] /\ taken' = [taken EXCEPT ![c] = @ + 1]
        /\ cut' = cut \cup {<<c, taken[c] + 1>>} /\ push[c] = "no" /\ step[c] = "idle"
        /\ UNCHANGED <<link, arrived, step, table, inbox, pushVars, busVars, settled>>
    BY <1>4 DEF TakeRaising, Takes, HandlerTypeOK
  <2>2. PushTypes' /\ \A k \in Conns \ {c} : step'[k] = step[k]
    BY <2>1 DEF HandlerTypeOK, PushTypes, pushVars
  <2>3. /\ taken' \in [Conns -> Nat] /\ taken'[c] # 0 /\ taken'[c] <= arrived[c]
        /\ \A k \in Conns \ {c} : taken'[k] = taken[k]
        /\ cut' \subseteq Conns \X Nat
    BY <2>1 DEF HandlerTypeOK
  <2> QED
    BY <2>1, <2>2, <2>3, RestKept DEF busVars
<1>5. ASSUME NEW c \in Conns, BeginRepeat(c)
      PROVE  HandlerTypeOK'
  <2>1. push[c] = "no" /\ taken[c] \in Nat
    BY <1>5 DEF BeginRepeat, Takes, HandlerTypeOK
  <2>2. PushTypes' /\ \A k \in Conns \ {c} : step'[k] = step[k]
    BY <1>5, <2>1 DEF BeginRepeat, HandlerTypeOK, PushTypes, pushVars
  <2>3. /\ taken' \in [Conns -> Nat] /\ taken'[c] # 0 /\ taken'[c] <= arrived[c]
        /\ \A k \in Conns \ {c} : taken'[k] = taken[k]
        /\ UNCHANGED <<link, arrived, inbox, busVars, settled, cut>>
    BY <1>5, <2>1 DEF BeginRepeat, Takes, HandlerTypeOK, histories
  <2> QED
    BY <2>2, <2>3, RestKept DEF HandlerTypeOK, busVars
<1>6. ASSUME NEW c \in Conns, TakeEvent(c)
      PROVE  HandlerTypeOK'
  <2>1. taken[c] + 1 \in 1..Len(Script[c]) /\ taken[c] < arrived[c]
        /\ taken' = [taken EXCEPT ![c] = @ + 1]
    BY <1>6, NextFrame DEF TakeEvent, Takes
  <2>2. UNCHANGED <<link, arrived, inbox, busVars, settled, cut>>
    BY <1>6 DEF TakeEvent
  <2>6. /\ taken' \in [Conns -> Nat] /\ taken'[c] # 0 /\ taken'[c] <= arrived[c]
        /\ \A k \in Conns \ {c} : taken'[k] = taken[k]
        /\ cut' \subseteq Conns \X Nat
    BY <2>1, <2>2 DEF HandlerTypeOK
  <2>3. \/ \E d \in clients : Marks(c, taken[c] + 1, d)
        \/ PushesDone(c, "storing")
    <3>1. RouteEvent(c, taken[c] + 1)
      BY <1>6 DEF TakeEvent, RecordAndRoute
    <3>2. clients \subseteq Downstreams
      BY DEF HandlerTypeOK
    <3> QED
      BY <3>1, <3>2, RouteEventShape
  <2>4. CASE PushesDone(c, "storing")
    <3>1. PushTypes' /\ \A k \in Conns \ {c} : step'[k] = step[k]
      BY <2>4, DoneType
    <3> QED
      BY <2>1, <2>2, <2>6, <3>1, RestKept DEF busVars
  <2>5. ASSUME NEW d \in clients, Marks(c, taken[c] + 1, d)
        PROVE  HandlerTypeOK'
    <3>1. PushTypes' /\ \A k \in Conns \ {c} : step'[k] = step[k]
      BY <2>1, <2>5, MarksType
    <3> QED
      BY <2>1, <2>2, <2>6, <3>1, RestKept DEF busVars
  <2> QED
    BY <2>3, <2>4, <2>5
<1>7. ASSUME NEW c \in Conns, FinishRepeat(c)
      PROVE  HandlerTypeOK'
  <2>1. taken[c] \in 1..Len(Script[c])
    BY <1>7, CurrentFrame DEF FinishRepeat
  <2>2. UNCHANGED <<link, arrived, taken, inbox, busVars, settled, cut>>
    BY <1>7 DEF FinishRepeat
  <2>3. \/ \E d \in clients : Marks(c, taken[c], d)
        \/ PushesDone(c, "storing")
    <3>1. RouteEvent(c, taken[c])
      BY <1>7 DEF FinishRepeat, RecordAndRoute
    <3>2. clients \subseteq Downstreams
      BY DEF HandlerTypeOK
    <3> QED
      BY <3>1, <3>2, RouteEventShape
  <2>6. taken[c] # 0 /\ taken[c] <= arrived[c]
    BY <2>1 DEF HandlerTypeOK
  <2>4. CASE PushesDone(c, "storing")
    <3>1. PushTypes' /\ \A k \in Conns \ {c} : step'[k] = step[k]
      BY <2>4, DoneType
    <3> QED
      BY <2>1, <2>2, <2>6, <3>1, RestKept DEF HandlerTypeOK, busVars
  <2>5. ASSUME NEW d \in clients, Marks(c, taken[c], d)
        PROVE  HandlerTypeOK'
    <3>1. PushTypes' /\ \A k \in Conns \ {c} : step'[k] = step[k]
      BY <2>1, <2>5, MarksType
    <3> QED
      BY <2>1, <2>2, <2>6, <3>1, RestKept DEF HandlerTypeOK, busVars
  <2> QED
    BY <2>3, <2>4, <2>5
<1>8. ASSUME NEW c \in Conns, PushReturns(c)
      PROVE  HandlerTypeOK'
  <2>1. step[c] \in Modes3 /\ taken[c] \in 1..Len(Script[c])
    BY <1>8, CurrentFrame DEF PushReturns, HandlerTypeOK, Modes3
  <2>2. UNCHANGED <<link, arrived, taken, inbox, busVars, settled>>
    BY <1>8 DEF PushReturns
  <2>3. cut' \subseteq Conns \X Nat
    BY <1>8, <2>1 DEF PushReturns, HandlerTypeOK
  <2>4. \/ \E d \in clients : Marks(c, taken[c], d)
        \/ PushesDone(c, "storing") \/ PushesDone(c, "idle")
    <3>1. \/ Route(c, taken[c], step[c], todo[c] \cap clients)
          \/ PushesDone(c, "idle")
      BY <1>8 DEF PushReturns
    <3>2. clients \subseteq Downstreams /\ todo[c] \cap clients \in SUBSET clients
      BY DEF HandlerTypeOK
    <3> QED
      BY <2>1, <3>1, <3>2, RouteShape
  <2>7. taken[c] # 0 /\ taken[c] <= arrived[c]
    BY <2>1 DEF HandlerTypeOK
  <2>5. ASSUME NEW next \in {"idle", "storing"}, PushesDone(c, next)
        PROVE  HandlerTypeOK'
    <3>1. PushTypes' /\ \A k \in Conns \ {c} : step'[k] = step[k]
      BY <2>5, DoneType
    <3> QED
      BY <2>1, <2>2, <2>3, <2>7, <3>1, RestKept DEF HandlerTypeOK, busVars
  <2>6. ASSUME NEW d \in clients, Marks(c, taken[c], d)
        PROVE  HandlerTypeOK'
    <3>1. PushTypes' /\ \A k \in Conns \ {c} : step'[k] = step[k]
      BY <2>1, <2>6, MarksType
    <3> QED
      BY <2>1, <2>2, <2>3, <2>7, <3>1, RestKept DEF HandlerTypeOK, busVars
  <2> QED
    BY <2>4, <2>5, <2>6
<1>9. ASSUME NEW c \in Conns, StoreEnds(c)
      PROVE  HandlerTypeOK'
  <2>1. /\ step[c] = "storing" /\ step' = [step EXCEPT ![c] = "idle"]
        /\ settled' = settled \cup {<<c, taken[c]>>}
        /\ UNCHANGED <<link, arrived, taken, table, inbox, target, push, todo, seen,
                       forgotten, copy, clients, stopping, phase, cut>>
    BY <1>9 DEF StoreEnds, pushVars, busVars
  <2>2. settled' \subseteq Conns \X Nat
    BY <2>1 DEF HandlerTypeOK
  <2>3. /\ step' \in [Conns -> {"idle", "repeating", "listed", "matching", "fallback",
                                "storing"}]
        /\ \A k \in Conns : push'[k] # "no" <=> step'[k] \in {"listed", "matching", "fallback"}
        /\ \A k \in Conns : taken'[k] = 0 => step'[k] = "idle"
    BY <2>1 DEF HandlerTypeOK
  <2> QED
    BY <2>1, <2>2, <2>3 DEF HandlerTypeOK
<1>10. ASSUME NEW c \in Conns, Write(c)
       PROVE  HandlerTypeOK'
  <2>1. target[c] \in Downstreams
        /\ [event |-> <<c, taken[c]>>, copy |-> copy[c]] \in Received
    BY <1>10 DEF Write, HandlerTypeOK, Received
  <2>2. inbox' \in [Downstreams -> Seq(Received)]
    BY <1>10, <2>1 DEF Write, HandlerTypeOK
  <2> QED
    BY <1>10, <2>2 DEF Write, HandlerTypeOK, busVars, histories
<1>11. ASSUME NEW r \in Requests, Answer(r)
       PROVE  HandlerTypeOK'
  BY <1>11 DEF Answer, handlerVars, HandlerTypeOK, pushVars, busVars, histories
<1>12. ASSUME BeginShutdown \/ ClientStopped
       PROVE  HandlerTypeOK'
  <2>1. UNCHANGED <<arrived, taken, step, table, inbox, pushVars, histories>>
    BY <1>12 DEF BeginShutdown, ClientStopped
  <2>2. CASE StopClient
    BY <2>1, <2>2, BusMoved DEF StopClient, HandlerTypeOK
  <2>3. CASE CloseServer
    BY <2>1, <2>3, BusMoved DEF CloseServer, HandlerTypeOK
  <2> QED
    BY <1>12, <2>2, <2>3 DEF BeginShutdown, ClientStopped
<1>13. CASE ShutdownDone
  BY <1>13, BusMoved DEF ShutdownDone, HandlerTypeOK
<1>14. CASE UNCHANGED allVars \/ TimePasses
  BY <1>14 DEF allVars, TimePasses, handlerVars, HandlerTypeOK, pushVars, busVars, histories
<1> QED
  BY <1>1, <1>2, <1>3, <1>4, <1>5, <1>6, <1>7, <1>8, <1>9, <1>10, <1>11, <1>12, <1>13, <1>14
  DEF HandlerNext, Handle, TakeFrame, Stop

\* Of every run of the handlers, HandlerTypeOK.
THEOREM HandlerTypeCorrect == HandlerSpec => []HandlerTypeOK
  BY HandlerTypeInit, HandlerTypeNext, PTL DEF HandlerSpec

-----------------------------------------------------------------------------
(* The arbiter in the middle of the handlers. *)

\* The handlers implement the arbiter: while they interleave at their awaits,
\* what they do to its dictionaries is what record_event and _arbitrate do, one
\* call at a time.  What holds of the arbiter alone holds here.
THEOREM HandlersImplementArbiter == HandlerSpec => Spec
<1>1. HandlerInit => Init
  BY DEF HandlerInit
<1> QED
  BY <1>1, HandlerTypeInit, HandlerTypeNext, ArbiterStep, PTL DEF HandlerSpec, Spec

\* In particular a burst of events on several connections, whose handlers wait as
\* long as they like, brings no downstream a throttled reply before its cooldown is
\* over, and no group more scheduled sends than its quota.
THEOREM HandlersThrottle == HandlerSpec => []ThrottleSpacing /\ []ScheduledCap
  BY HandlersImplementArbiter, ThrottleCorrect, CapCorrect

-----------------------------------------------------------------------------
(* Every step of the handlers in terms of the pushes. *)

\* Nothing is written and no push begins; pushes that wait go on waiting.
Quiet ==
    /\ UNCHANGED <<seen, forgotten, inbox>>
    /\ \A k \in Conns : push'[k] = "marked"
                        => /\ push[k] = "marked" /\ copy'[k] = copy[k]
                           /\ target'[k] = target[k] /\ taken'[k] = taken[k]
    /\ \/ UNCHANGED taken
       \/ \E c \in Conns : taken' = [taken EXCEPT ![c] = @ + 1]

\* The handler of c begins a push of the frame it handles.
Begins(c, d) ==
    /\ Marks(c, taken'[c], d)
    /\ UNCHANGED inbox
    /\ taken'[c] \in 1..Len(Script[c])
    /\ UNCHANGED taken \/ taken' = [taken EXCEPT ![c] = @ + 1]

LEMMA DoneQuiet ==
  ASSUME HandlerTypeOK, NEW c \in Conns, NEW next, PushesDone(c, next), UNCHANGED inbox,
         UNCHANGED taken \/ taken' = [taken EXCEPT ![c] = @ + 1]
  PROVE  Quiet
  BY DEF PushesDone, Quiet, HandlerTypeOK

LEMMA StepShape ==
  ASSUME HandlerTypeOK, [HandlerNext]_allVars
  PROVE  Quiet \/ (\E c \in Conns : \E d \in clients : Begins(c, d))
               \/ \E c \in Conns : Write(c)
<1>1. ASSUME NEW c \in Conns, \/ Arrive(c) \/ Disconnect(c) \/ LoopEnds(c) \/ StoreEnds(c)
      PROVE  Quiet
  BY <1>1 DEF Arrive, Disconnect, LoopEnds, StoreEnds, Quiet, pushVars
<1>2. ASSUME NEW c \in Conns, \/ TakeGarbage(c) \/ TakeOwn(c) \/ TakeRaising(c)
                              \/ BeginRepeat(c)
      PROVE  Quiet
  <2>1. push[c] = "no" /\ UNCHANGED <<pushVars, inbox>>
        /\ taken' = [taken EXCEPT ![c] = @ + 1]
    BY <1>2 DEF TakeGarbage, TakeOwn, TakeRaising, BeginRepeat, Takes, HandlerTypeOK
  <2> QED
    BY <2>1 DEF Quiet, pushVars, HandlerTypeOK
<1>3. ASSUME NEW c \in Conns, TakeEvent(c)
      PROVE  Quiet \/ \E d \in clients : Begins(c, d)
  <2>1. /\ UNCHANGED inbox /\ taken' = [taken EXCEPT ![c] = @ + 1]
        /\ RouteEvent(c, taken[c] + 1)
        /\ taken[c] + 1 \in 1..Len(Script[c])
    BY <1>3, NextFrame DEF TakeEvent, Takes, RecordAndRoute
  <2>2. taken'[c] = taken[c] + 1 /\ clients \subseteq Downstreams
    BY <2>1 DEF HandlerTypeOK
  <2> QED
    BY <2>1, <2>2, RouteEventShape, DoneQuiet DEF Begins
<1>4. ASSUME NEW c \in Conns, FinishRepeat(c)
      PROVE  Quiet \/ \E d \in clients : Begins(c, d)
  <2>1. /\ UNCHANGED <<inbox, taken>> /\ RouteEvent(c, taken[c])
        /\ taken[c] \in 1..Len(Script[c])
    BY <1>4, CurrentFrame DEF FinishRepeat, RecordAndRoute
  <2>2. taken'[c] = taken[c] /\ clients \subseteq Downstreams
    BY <2>1 DEF HandlerTypeOK
  <2> QED
    BY <2>1, <2>2, RouteEventShape, DoneQuiet DEF Begins
<1>5. ASSUME NEW c \in Conns, PushReturns(c)
      PROVE  Quiet \/ \E d \in clients : Begins(c, d)
  <2>1. /\ UNCHANGED <<inbox, taken>> /\ step[c] \in Modes3
        /\ taken[c] \in 1..Len(Script[c])
        /\ \/ Route(c, taken[c], step[c], todo[c] \cap clients)
           \/ PushesDone(c, "idle")
    BY <1>5, CurrentFrame DEF PushReturns, HandlerTypeOK, Modes3
  <2>2. taken'[c] = taken[c] /\ clients \subseteq Downstreams
        /\ todo[c] \cap clients \in SUBSET clients
    BY <2>1 DEF HandlerTypeOK
  <2> QED
    BY <2>1, <2>2, RouteShape, DoneQuiet DEF Begins
<1>6. ASSUME (\E r \in Requests : Answer(r)) \/ TimePasses
      PROVE  Quiet
  BY <1>6 DEF Answer, TimePasses, handlerVars, Quiet, pushVars
<1>7. ASSUME BeginShutdown \/ Stop
      PROVE  Quiet
  BY <1>7 DEF BeginShutdown, Stop, ClientStopped, ShutdownDone, Quiet, pushVars
<1>8. CASE UNCHANGED allVars
  BY <1>8 DEF allVars, handlerVars, Quiet, pushVars
<1> QED
  BY <1>1, <1>2, <1>3, <1>4, <1>5, <1>6, <1>7, <1>8 DEF HandlerNext, Handle, TakeFrame

-----------------------------------------------------------------------------
(* The order of the feeds. *)

IdAt(c) == IdOf(c, taken[c])

\* A push of an id to a client waits to be written.
Waiting(c, d, id) == push[c] = "marked" /\ target[c] = d /\ IdAt(c) = id

\* A first copy of an id has been received.
Held(d, id) ==
    \E n \in DOMAIN inbox[d] : inbox[d][n].copy = "first" /\ Feed!IdOf(inbox[d][n].event) = id

\* Why at most one copy of an id is a "first" one: what a client holds is known of
\* it, a first copy is waiting only if none is held, and of two handlers that wait
\* to write an id to one client, one has marked it anew.
MarkedOnce ==
    /\ \A d \in Downstreams : \A n \in DOMAIN inbox[d] :
          Feed!IdOf(inbox[d][n].event) \in Known(d)
    /\ \A c \in Conns, d \in Downstreams : \A id :
          Waiting(c, d, id) => /\ id \in Known(d)
                               /\ copy[c] = "anew" \/ ~Held(d, id)
    /\ \A c, k \in Conns : \A d \in Downstreams : \A id :
          c # k /\ Waiting(c, d, id) /\ Waiting(k, d, id)
          => copy[c] = "anew" \/ copy[k] = "anew"

LEMMA MarkedInit == HandlerInit => MarkedOnce
  BY DEF HandlerInit, MarkedOnce, Waiting

LEMMA MarkedQuiet ==
  ASSUME HandlerTypeOK, MarkedOnce, Quiet
  PROVE  MarkedOnce'
<1>1. ASSUME NEW c \in Conns, NEW d, NEW id, Waiting(c, d, id)'
      PROVE  Waiting(c, d, id) /\ copy'[c] = copy[c]
  BY <1>1 DEF Quiet, Waiting, IdAt, IdOf
<1>2. \A d \in Downstreams : Known(d)' = Known(d)
  BY DEF Quiet, Known
<1>3. \A d \in Downstreams : \A n \in DOMAIN inbox'[d] :
         Feed!IdOf(inbox'[d][n].event) \in Known(d)'
  BY <1>2 DEF MarkedOnce, Quiet
<1>4. \A d, id : Held(d, id)' <=> Held(d, id)
  BY DEF Quiet, Held, Feed!IdOf
<1>5. ASSUME NEW c \in Conns, NEW d \in Downstreams, NEW id, Waiting(c, d, id)'
      PROVE  id \in Known(d)' /\ (copy'[c] = "anew" \/ ~Held(d, id)')
  BY <1>1, <1>2, <1>4, <1>5 DEF MarkedOnce
<1>6. ASSUME NEW c \in Conns, NEW k \in Conns, NEW d \in Downstreams, NEW id, c # k,
             Waiting(c, d, id)', Waiting(k, d, id)'
      PROVE  copy'[c] = "anew" \/ copy'[k] = "anew"
  BY <1>1, <1>6 DEF MarkedOnce
<1>7. \A d \in Downstreams : \A n \in DOMAIN inbox'[d] :
         (Feed!IdOf(inbox[d][n].event) \in Known(d))'
  BY <1>3 DEF Feed!IdOf
<1> QED
  BY <1>5, <1>6, <1>7 DEF MarkedOnce

LEMMA MarkedBegins ==
  ASSUME HandlerTypeOK, MarkedOnce, NEW c \in Conns, NEW d \in clients, Begins(c, d)
  PROVE  MarkedOnce'
<1> DEFINE i == taken'[c]
           new == IdOf(c, i)
<1>1. /\ d \in Downstreams /\ new \notin seen[d]
      /\ inbox' = inbox /\ Mark(c, i, d) /\ i \in 1..Len(Script[c])
      /\ target' = [target EXCEPT ![c] = d]
      /\ push' = [push EXCEPT ![c] = "marked"]
      /\ \A k \in Conns \ {c} : taken'[k] = taken[k]
  BY DEF Begins, Marks, HandlerTypeOK
<1>2. /\ Known(d)' = Known(d) \cup {new}
      /\ \A e \in Downstreams \ {d} : Known(e)' = Known(e)
      /\ \A k \in Conns \ {c} : copy'[k] = copy[k]
      /\ copy'[c] = "anew" \/ new \notin forgotten[d]
  BY <1>1, MarkEffect
<1>3. \A e, id : Waiting(c, e, id)' => e = d /\ id = new
  BY <1>1 DEF Waiting, IdAt, IdOf, HandlerTypeOK
<1>4. ASSUME NEW k \in Conns \ {c}, NEW e, NEW id, Waiting(k, e, id)'
      PROVE  Waiting(k, e, id) /\ copy'[k] = copy[k]
  BY <1>1, <1>2, <1>4 DEF Waiting, IdAt, IdOf, HandlerTypeOK
<1>5. copy'[c] = "anew" \/ new \notin Known(d)
  BY <1>1, <1>2 DEF Known
<1> HIDE DEF new, i
<1>6. \A e \in Downstreams : Known(e) \subseteq Known(e)'
  BY <1>2
<1>7. \A e, id : Held(e, id)' <=> Held(e, id)
  BY <1>1 DEF Held, Feed!IdOf
<1>8. copy'[c] = "anew" \/ ~Held(d, new)
  BY <1>1, <1>5 DEF MarkedOnce, Held
<1>9. \A e \in Downstreams : \A n \in DOMAIN inbox'[e] :
         (Feed!IdOf(inbox[e][n].event) \in Known(e))'
  BY <1>1, <1>6 DEF MarkedOnce, Feed!IdOf
<1>10. ASSUME NEW k \in Conns, NEW e \in Downstreams, NEW id, Waiting(k, e, id)'
       PROVE  id \in Known(e)' /\ (copy'[k] = "anew" \/ ~Held(e, id)')
  <2>1. CASE k = c
    BY <2>1, <1>2, <1>3, <1>7, <1>8, <1>10
  <2>2. CASE k # c
    BY <2>2, <1>4, <1>6, <1>7, <1>10 DEF MarkedOnce
  <2> QED
    BY <2>1, <2>2
<1>11. ASSUME NEW k \in Conns \ {c}, Waiting(k, d, new)
       PROVE  copy'[c] = "anew"
  BY <1>1, <1>5, <1>11 DEF MarkedOnce
<1>12. ASSUME NEW k \in Conns, NEW m \in Conns, NEW e \in Downstreams, NEW id, k # m,
              Waiting(k, e, id)', Waiting(m, e, id)'
       PROVE  copy'[k] = "anew" \/ copy'[m] = "anew"
  <2>1. CASE k = c
    BY <1>3, <1>4, <1>11, <1>12, <2>1
  <2>2. CASE m = c
    BY <1>3, <1>4, <1>11, <1>12, <2>2
  <2>3. CASE k # c /\ m # c
    BY <1>4, <1>12, <2>3 DEF MarkedOnce
  <2> QED
    BY <2>1, <2>2, <2>3
<1> QED
  BY <1>9, <1>10, <1>12 DEF MarkedOnce

LEMMA MarkedWrite ==
  ASSUME HandlerTypeOK, MarkedOnce, NEW c \in Conns, Write(c)
  PROVE  MarkedOnce' /\ copy[c] \in Copies /\ Feed!Deliver(c, target[c], copy[c])
<1> DEFINE d == target[c]
           new == IdAt(c)
           entry == [event |-> <<c, taken[c]>>, copy |-> copy[c]]
<1>1. /\ d \in Downstreams /\ push[c] = "marked" /\ copy[c] \in Copies
      /\ inbox' = [inbox EXCEPT ![d] = Append(@, entry)]
      /\ push' = [push EXCEPT ![c] = "over"]
      /\ UNCHANGED <<taken, seen, forgotten, copy, target>>
  BY DEF Write, HandlerTypeOK
<1>2. /\ inbox[d] \in Seq(Received) /\ entry \in Received
      /\ inbox'[d] = Append(inbox[d], entry)
      /\ \A e \in Downstreams \ {d} : inbox'[e] = inbox[e]
  BY <1>1 DEF HandlerTypeOK, Received
<1>3. /\ entry.event = <<c, taken[c]>> /\ entry.copy = copy[c]
      /\ Feed!IdOf(entry.event) = new /\ Waiting(c, d, new)
  BY <1>1 DEF Waiting, Feed!IdOf, IdAt, IdOf
<1>4. new \in Known(d) /\ (copy[c] = "anew" \/ ~Held(d, new))
  BY <1>1, <1>3 DEF MarkedOnce
<1>5. taken[c] \in Nat /\ taken[c] > 0
  <2>1. step[c] # "idle"
    BY <1>1 DEF HandlerTypeOK
  <2> QED
    BY <2>1 DEF HandlerTypeOK
<1>6. Feed!Deliver(c, d, copy[c])
  BY <1>1, <1>3, <1>4, <1>5 DEF Feed!Deliver, Feed!FirstReceived, Held
<1> HIDE DEF entry, new, d
<1>7. \A n \in DOMAIN inbox'[d] :
         \/ inbox'[d][n] = entry
         \/ n \in DOMAIN inbox[d] /\ inbox'[d][n] = inbox[d][n]
  BY <1>2
<1>8. \A e \in Downstreams : Known(e)' = Known(e)
  BY <1>1 DEF Known
<1>9. ASSUME NEW e \in Downstreams, NEW n \in DOMAIN inbox'[e]
      PROVE  Feed!IdOf(inbox'[e][n].event) \in Known(e)
  <2>1. CASE e = d
    BY <1>3, <1>4, <1>7, <2>1 DEF MarkedOnce
  <2>2. CASE e # d
    BY <1>2, <2>2 DEF MarkedOnce
  <2> QED
    BY <2>1, <2>2
<1>10. ASSUME NEW e \in Downstreams, NEW id, Held(e, id)'
       PROVE  Held(e, id) \/ (e = d /\ id = new /\ copy[c] = "first")
  <2>1. PICK n \in DOMAIN inbox'[e] :
           inbox'[e][n].copy = "first" /\ Feed!IdOf(inbox'[e][n].event) = id
    BY <1>10 DEF Held, Feed!IdOf
  <2>2. CASE e = d
    BY <1>3, <1>7, <2>1, <2>2 DEF Held
  <2>3. CASE e # d
    BY <1>2, <2>1, <2>3 DEF Held
  <2> QED
    BY <2>2, <2>3
<1>11. ASSUME NEW k \in Conns, NEW e, NEW id, Waiting(k, e, id)'
       PROVE  k # c /\ Waiting(k, e, id) /\ copy'[k] = copy[k]
  BY <1>1, <1>11 DEF Waiting, IdAt, IdOf, HandlerTypeOK
<1>12. ASSUME NEW k \in Conns, NEW e \in Downstreams, NEW id, Waiting(k, e, id)'
       PROVE  id \in Known(e)' /\ (copy'[k] = "anew" \/ ~Held(e, id)')
  <2>1. k # c /\ Waiting(k, e, id) /\ copy'[k] = copy[k]
    BY <1>11, <1>12
  <2>2. id \in Known(e)' /\ (copy[k] = "anew" \/ ~Held(e, id))
    BY <1>8, <2>1 DEF MarkedOnce
  <2>3. e = d /\ id = new /\ copy[c] = "first" => copy[k] = "anew"
    BY <1>3, <2>1 DEF MarkedOnce
  <2> QED
    BY <1>10, <2>1, <2>2, <2>3
<1>13. ASSUME NEW k \in Conns, NEW m \in Conns, NEW e \in Downstreams, NEW id, k # m,
              Waiting(k, e, id)', Waiting(m, e, id)'
       PROVE  copy'[k] = "anew" \/ copy'[m] = "anew"
  BY <1>11, <1>13 DEF MarkedOnce
<1>14. \A e \in Downstreams : \A n \in DOMAIN inbox'[e] :
         (Feed!IdOf(inbox[e][n].event) \in Known(e))'
  BY <1>8, <1>9 DEF Feed!IdOf
<1>15. MarkedOnce'
  BY <1>12, <1>13, <1>14 DEF MarkedOnce
<1> QED
  BY <1>1, <1>6, <1>15 DEF d

LEMMA FeedNext ==
  HandlerTypeOK /\ MarkedOnce /\ [HandlerNext]_allVars
  => MarkedOnce' /\ [Feed!Next]_<<taken, inbox>>
<1> SUFFICES ASSUME HandlerTypeOK, MarkedOnce, [HandlerNext]_allVars
             PROVE  MarkedOnce' /\ [Feed!Next]_<<taken, inbox>>
  OBVIOUS
<1>1. CASE Quiet
  BY <1>1, MarkedQuiet DEF Quiet, Feed!Next, Feed!Advance
<1>2. ASSUME NEW c \in Conns, NEW d \in clients, Begins(c, d)
      PROVE  MarkedOnce' /\ [Feed!Next]_<<taken, inbox>>
  BY <1>2, MarkedBegins DEF Begins, Feed!Next, Feed!Advance
<1>3. ASSUME NEW c \in Conns, Write(c)
      PROVE  MarkedOnce' /\ [Feed!Next]_<<taken, inbox>>
  <2>1. target[c] \in Downstreams
    BY <1>3 DEF Write, HandlerTypeOK
  <2> QED
    BY <1>3, <2>1, MarkedWrite DEF Feed!Next, Copies
<1> QED
  BY <1>1, <1>2, <1>3, StepShape

\* The handlers implement the ordered feed: whatever they wait for, a downstream
\* receives the events of a connection in order, and no event id twice but for
\* copies marked anew after the id had been trimmed away.
THEOREM InOrderCorrect == HandlerSpec => InOrder
<1>1. HandlerInit => Feed!Init
  BY DEF HandlerInit, Feed!Init
<1> QED
  BY <1>1, HandlerTypeInit, HandlerTypeNext, MarkedInit, FeedNext, PTL
  DEF HandlerSpec, InOrder, Feed!Spec

\* What the abstract feed says of the inboxes, in so many words.
OnceInOrder ==
    \A d \in Downstreams : \A m, n \in DOMAIN inbox[d] : m < n =>
       LET one == inbox[d][m]
           other == inbox[d][n]
       IN  /\ Feed!IdOf(one.event) = Feed!IdOf(other.event)
              => one.copy = "anew" \/ other.copy = "anew"
           /\ one.event[1] = other.event[1] => one.event[2] <= other.event[2]

\* Nothing is in an inbox before its connection's handler has come to it.
NotAhead ==
    \A d \in Downstreams : \A n \in DOMAIN inbox[d] :
       inbox[d][n].event[2] <= taken[inbox[d][n].event[1]]

LEMMA InboxEntry ==
  ASSUME HandlerTypeOK, NEW d \in Downstreams, NEW n \in DOMAIN inbox[d]
  PROVE  /\ inbox[d][n].event[1] \in Conns /\ inbox[d][n].event[2] \in Nat
         /\ inbox[d][n].copy \in Copies
<1>1. inbox[d] \in Seq(Received)
  BY DEF HandlerTypeOK
<1>2. inbox[d][n] \in Received
  BY <1>1
<1> QED
  BY <1>2 DEF Received

LEMMA OnceAdvance ==
  ASSUME HandlerTypeOK, OnceInOrder, NotAhead, NEW c \in Conns, Feed!Advance(c)
  PROVE  OnceInOrder' /\ NotAhead'
<1>1. inbox' = inbox /\ \A b \in Conns : taken[b] \in Nat /\ taken[b] <= taken'[b]
                                                        /\ taken'[b] \in Nat
  BY DEF Feed!Advance, HandlerTypeOK
<1>2. OnceInOrder'
  BY <1>1 DEF OnceInOrder, Feed!IdOf
<1>3. ASSUME NEW d \in Downstreams, NEW n \in DOMAIN inbox[d]
      PROVE  inbox[d][n].event[2] <= taken'[inbox[d][n].event[1]]
  <2>1. inbox[d][n].event[2] <= taken[inbox[d][n].event[1]]
    BY DEF NotAhead
  <2> QED
    BY <1>1, <2>1, InboxEntry
<1> QED
  BY <1>1, <1>2, <1>3 DEF NotAhead

LEMMA OnceDeliver ==
  ASSUME HandlerTypeOK, OnceInOrder, NotAhead, NEW c \in Conns, NEW d \in Downstreams,
         NEW kind \in Copies, Feed!Deliver(c, d, kind)
  PROVE  OnceInOrder' /\ NotAhead'
<1> DEFINE entry == [event |-> <<c, taken[c]>>, copy |-> kind]
           last == Len(inbox[d]) + 1
<1>1. /\ inbox[d] \in Seq(Received) /\ inbox \in [Downstreams -> Seq(Received)]
      /\ taken[c] \in Nat /\ entry \in Received
  BY DEF HandlerTypeOK, Received
<1>2. /\ taken' = taken /\ inbox'[d] = Append(inbox[d], entry)
      /\ \A e \in Downstreams \ {d} : inbox'[e] = inbox[e]
      /\ kind = "anew" \/ ~Feed!FirstReceived(d, Feed!IdOf(entry.event))
  BY <1>1 DEF Feed!Deliver
<1>3. entry.event[1] = c /\ entry.event[2] = taken[c] /\ entry.copy = kind
  OBVIOUS
<1> HIDE DEF entry
<1>4. /\ Len(inbox[d]) \in Nat /\ DOMAIN inbox[d] = 1..Len(inbox[d])
      /\ DOMAIN inbox'[d] = 1..last /\ inbox'[d][last] = entry
      /\ \A n \in DOMAIN inbox[d] : inbox'[d][n] = inbox[d][n]
  BY <1>1, <1>2
<1>5. \A n \in DOMAIN inbox'[d] : n \in DOMAIN inbox[d] \/ n = last
  BY <1>4
<1>6. ASSUME NEW n \in DOMAIN inbox[d]
      PROVE  /\ Feed!IdOf(inbox[d][n].event) = Feed!IdOf(entry.event)
                => inbox[d][n].copy = "anew" \/ kind = "anew"
             /\ inbox[d][n].event[1] = c => inbox[d][n].event[2] <= taken[c]
  <2>1. inbox[d][n].copy \in {"first", "anew"}
    BY InboxEntry DEF Copies
  <2>2. Feed!IdOf(inbox[d][n].event) = Feed!IdOf(entry.event)
        => inbox[d][n].copy = "anew" \/ kind = "anew"
    BY <1>2, <2>1 DEF Feed!FirstReceived
  <2> QED
    BY <2>2 DEF NotAhead
<1>7. ASSUME NEW e \in Downstreams, NEW m \in DOMAIN inbox'[e], NEW n \in DOMAIN inbox'[e],
             m < n
      PROVE  /\ Feed!IdOf(inbox'[e][m].event) = Feed!IdOf(inbox'[e][n].event)
                => inbox'[e][m].copy = "anew" \/ inbox'[e][n].copy = "anew"
             /\ inbox'[e][m].event[1] = inbox'[e][n].event[1]
                => inbox'[e][m].event[2] <= inbox'[e][n].event[2]
  <2>1. CASE e # d
    BY <1>2, <1>7, <2>1 DEF OnceInOrder
  <2>2. CASE e = d /\ n = last
    <3>1. m \in DOMAIN inbox[d]
      BY <1>4, <1>7, <2>2
    <3>2. inbox'[e][m] = inbox[d][m] /\ inbox'[e][n] = entry
      BY <1>4, <2>2, <3>1
    <3> QED
      BY <1>3, <1>6, <3>1, <3>2
  <2>3. CASE e = d /\ n # last
    <3>1. m \in DOMAIN inbox[d] /\ n \in DOMAIN inbox[d]
      BY <1>4, <1>7, <2>3
    <3> QED
      BY <1>4, <1>7, <2>3, <3>1 DEF OnceInOrder
  <2> QED
    BY <2>1, <2>2, <2>3
<1>8. ASSUME NEW e \in Downstreams, NEW n \in DOMAIN inbox'[e]
      PROVE  inbox'[e][n].event[2] <= taken[inbox'[e][n].event[1]]
  <2>1. CASE e # d
    BY <1>2, <2>1 DEF NotAhead
  <2>2. CASE e = d /\ n = last
    BY <1>1, <1>3, <1>4, <2>2
  <2>3. CASE e = d /\ n # last
    BY <1>4, <1>5, <2>3 DEF NotAhead
  <2> QED
    BY <2>1, <2>2, <2>3
<1> QED
  BY <1>2, <1>7, <1>8 DEF OnceInOrder, NotAhead, Feed!IdOf

\* Of two entries of a downstream's inbox with one event id, one was marked anew
\* after the id had been trimmed away, and no event of a connection comes behind a
\* later one (route_event and push_event under one task per connection).
THEOREM OnceInOrderHolds == HandlerSpec => []OnceInOrder
<1>1. HandlerInit => OnceInOrder /\ NotAhead
  BY DEF HandlerInit, OnceInOrder, NotAhead
<1>2. HandlerTypeOK /\ OnceInOrder /\ NotAhead /\ [Feed!Next]_<<taken, inbox>>
      => OnceInOrder' /\ NotAhead'
  <2> SUFFICES ASSUME HandlerTypeOK, OnceInOrder, NotAhead, [Feed!Next]_<<taken, inbox>>
               PROVE  OnceInOrder' /\ NotAhead'
    OBVIOUS
  <2>1. CASE Feed!Next
    BY <2>1, OnceAdvance, OnceDeliver DEF Feed!Next, Copies
  <2>2. CASE UNCHANGED <<taken, inbox>>
    BY <2>2 DEF OnceInOrder, NotAhead, Feed!IdOf
  <2> QED
    BY <2>1, <2>2
<1> QED
  BY <1>1, <1>2, HandlerTypeInit, HandlerTypeNext, MarkedInit, FeedNext, PTL
  DEF HandlerSpec

-----------------------------------------------------------------------------
(* The iterations over the clients. *)

\* Why no iteration raises: until the shutdown the bus has all its clients, and
\* every iteration began with them; what is cut raised before it was recorded.
TablesAreCurrent ==
    phase = "serving"
    => /\ clients = Downstreams
       /\ \A event \in cut : FrameOf(event).type = "raising"
       /\ \A c \in Conns : push[c] # "no" => table[c] = Downstreams

LEMMA TablesInit == HandlerInit => TablesAreCurrent
  BY DEF HandlerInit, TablesAreCurrent

LEMMA TablesRoute ==
  ASSUME HandlerTypeOK, TablesAreCurrent, NEW c \in Conns, NEW i, NEW next,
         (\E d \in clients : Marks(c, i, d)) \/ PushesDone(c, next),
         UNCHANGED <<phase, clients, cut>>
  PROVE  TablesAreCurrent'
<1>1. ASSUME NEW d \in clients, Marks(c, i, d)
      PROVE  TablesAreCurrent'
  BY <1>1 DEF Marks, TablesAreCurrent, HandlerTypeOK
<1>2. CASE PushesDone(c, next)
  BY <1>2 DEF PushesDone, TablesAreCurrent, HandlerTypeOK
<1> QED
  BY <1>1, <1>2

LEMMA TablesNext ==
  HandlerTypeOK /\ TablesAreCurrent /\ [HandlerNext]_allVars => TablesAreCurrent'
<1> SUFFICES ASSUME HandlerTypeOK, TablesAreCurrent, [HandlerNext]_allVars
             PROVE  TablesAreCurrent'
  OBVIOUS
<1>0. clients \subseteq Downstreams
  BY DEF HandlerTypeOK
<1>1. ASSUME UNCHANGED <<table, clients, phase, cut, push>>
      PROVE  TablesAreCurrent'
  BY <1>1 DEF TablesAreCurrent
<1>2. ASSUME NEW c \in Conns, \/ Arrive(c) \/ Disconnect(c) \/ LoopEnds(c) \/ StoreEnds(c)
                              \/ TakeGarbage(c) \/ TakeOwn(c) \/ BeginRepeat(c)
      PROVE  TablesAreCurrent'
  BY <1>1, <1>2 DEF Arrive, Disconnect, LoopEnds, StoreEnds, TakeGarbage, TakeOwn,
                    BeginRepeat, pushVars, busVars, histories
<1>10. ASSUME NEW c \in Conns, TakeRaising(c)
       PROVE  TablesAreCurrent'
  <2>1. /\ Script[c][taken[c] + 1].type = "raising"
        /\ cut' = cut \cup {<<c, taken[c] + 1>>}
        /\ UNCHANGED <<table, clients, phase, push>>
    BY <1>10 DEF TakeRaising, Takes, pushVars, busVars
  <2>2. FrameOf(<<c, taken[c] + 1>>).type = "raising"
    BY <2>1 DEF FrameOf
  <2> QED
    BY <2>1, <2>2 DEF TablesAreCurrent
<1>3. ASSUME NEW c \in Conns, TakeEvent(c)
      PROVE  TablesAreCurrent'
  <2>1. RouteEvent(c, taken[c] + 1) /\ UNCHANGED <<phase, clients, cut>>
    BY <1>3 DEF TakeEvent, RecordAndRoute, busVars
  <2> QED
    BY <2>1, <1>0, RouteEventShape, TablesRoute
<1>4. ASSUME NEW c \in Conns, FinishRepeat(c)
      PROVE  TablesAreCurrent'
  <2>1. RouteEvent(c, taken[c]) /\ UNCHANGED <<phase, clients, cut>>
    BY <1>4 DEF FinishRepeat, RecordAndRoute, busVars
  <2> QED
    BY <2>1, <1>0, RouteEventShape, TablesRoute
<1>5. ASSUME NEW c \in Conns, PushReturns(c)
      PROVE  TablesAreCurrent'
  <2> SUFFICES ASSUME phase' = "serving" PROVE TablesAreCurrent'
    BY DEF TablesAreCurrent
  <2>1. phase = "serving" /\ UNCHANGED <<phase, clients>>
    BY <1>5 DEF PushReturns, busVars
  <2>2. table[c] = clients
    BY <1>5, <2>1 DEF PushReturns, TablesAreCurrent
  <2>3. Route(c, taken[c], step[c], todo[c] \cap clients) /\ UNCHANGED cut
    BY <1>5, <2>2 DEF PushReturns
  <2>4. step[c] \in Modes3 /\ todo[c] \cap clients \in SUBSET clients
    BY <1>5 DEF PushReturns, HandlerTypeOK, Modes3
  <2> QED
    BY <2>1, <2>3, <2>4, <1>0, RouteShape, TablesRoute
<1>6. ASSUME NEW c \in Conns, Write(c)
      PROVE  TablesAreCurrent'
  BY <1>6 DEF Write, TablesAreCurrent, HandlerTypeOK, busVars, histories
<1>7. ASSUME (\E r \in Requests : Answer(r)) \/ TimePasses
      PROVE  TablesAreCurrent'
  BY <1>1, <1>7 DEF Answer, TimePasses, handlerVars, pushVars, busVars, histories
<1>8. ASSUME BeginShutdown \/ Stop
      PROVE  TablesAreCurrent'
  BY <1>8 DEF BeginShutdown, Stop, ClientStopped, StopClient, CloseServer, ShutdownDone,
              TablesAreCurrent
<1>9. CASE UNCHANGED allVars
  BY <1>1, <1>9 DEF allVars, handlerVars, pushVars, busVars, histories
<1> QED
  BY <1>2, <1>3, <1>4, <1>5, <1>6, <1>7, <1>8, <1>9, <1>10
  DEF HandlerNext, Handle, TakeFrame

\* While the bridge serves, no event is given up but those that raise before they
\* are recorded: the iterations over _clients raise only once one is removed.
THEOREM CutCorrect == HandlerSpec => []PushesCutNothing
<1>1. TablesAreCurrent => PushesCutNothing
  BY DEF TablesAreCurrent, PushesCutNothing
<1> QED
  BY <1>1, HandlerTypeInit, HandlerTypeNext, TablesInit, TablesNext, PTL DEF HandlerSpec

-----------------------------------------------------------------------------
(* The contexts of routed events. *)

\* The context under a number is that of the event that was routed under it last.
LatestIsFiled ==
    /\ latest = [t \in Targets |-> latest[t]]
    /\ \A t \in Targets : latest[t] # NoEvent =>
          \E c \in Conns : \E i \in 1..Len(Script[c]) : \E at \in 0..MaxTime :
             /\ latest[t] = [event |-> <<c, i>>, at |-> at]
             /\ contexts[t] = [group |-> Script[c][i].group, plan |-> Script[c][i].plan,
                               created |-> at]

LEMMA LatestInit == HandlerInit => LatestIsFiled
  BY DEF HandlerInit, Init, LatestIsFiled

LEMMA LatestRecord ==
  ASSUME TypeOK, LatestIsFiled, NEW c \in Conns, NEW i \in 1..Len(Script[c]),
         RecordAndRoute(c, i)
  PROVE  LatestIsFiled'
<1> DEFINE e == Script[c][i]
           key == ContextKey(e.group, e.user)
<1>1. /\ e.group \in Groups \cup {NoId} /\ e.user \in Users \cup {NoId}
      /\ e.plan \in Plans /\ e.plan # NoPlan
  BY FrameType, AbsentAssumption
<1>2. RecordEvent(Bot[c], e.group, e.user, e.plan) /\ Routing(c, i)
  BY DEF RecordAndRoute
<1>3. CASE key = NoId
  BY <1>2, <1>3 DEF RecordEvent, Routing, LatestIsFiled
<1>4. CASE key # NoId
  <2>1. key \in Targets
    BY <1>1, <1>4 DEF ContextKey, Targets
  <2>2. latest' = [latest EXCEPT ![key] = [event |-> <<c, i>>, at |-> now]]
    BY <1>2, <1>4 DEF Routing
  <2>3. contexts' = [contexts EXCEPT ![key] = NewContext(e.group, e.plan)]
    BY <1>1, <1>2, <1>4 DEF RecordEvent
  <2>4. contexts'[key] = [group |-> e.group, plan |-> e.plan, created |-> now]
        /\ now \in 0..MaxTime
    BY <2>1, <2>3 DEF NewContext, TypeOK
  <2>5. \A t \in Targets \ {key} : contexts'[t] = contexts[t] /\ latest'[t] = latest[t]
    BY <2>2, <2>3 DEF TypeOK, LatestIsFiled
  <2>6. latest'[key] = [event |-> <<c, i>>, at |-> now]
    BY <2>1, <2>2 DEF LatestIsFiled
  <2>7. latest' = [t \in Targets |-> latest'[t]]
    BY <2>2 DEF LatestIsFiled
  <2>8. ASSUME NEW t \in Targets, latest'[t] # NoEvent
        PROVE  \E k \in Conns : \E j \in 1..Len(Script[k]) : \E at \in 0..MaxTime :
                  /\ latest'[t] = [event |-> <<k, j>>, at |-> at]
                  /\ contexts'[t] = [group |-> Script[k][j].group,
                                     plan |-> Script[k][j].plan, created |-> at]
    <3>1. CASE t = key
      BY <2>4, <2>6, <3>1
    <3>2. CASE t # key
      <4>1. latest'[t] = latest[t] /\ contexts'[t] = contexts[t]
        BY <2>5, <3>2
      <4>2. latest[t] # NoEvent
        BY <2>8, <4>1
      <4>3. \E k \in Conns : \E j \in 1..Len(Script[k]) : \E at \in 0..MaxTime :
               /\ latest[t] = [event |-> <<k, j>>, at |-> at]
               /\ contexts[t] = [group |-> Script[k][j].group,
                                 plan |-> Script[k][j].plan, created |-> at]
        BY <4>2 DEF LatestIsFiled
      <4> QED
        BY <4>1, <4>3
    <3> QED
      BY <3>1, <3>2
  <2> QED
    BY <2>7, <2>8 DEF LatestIsFiled
<1> QED
  BY <1>3, <1>4

LEMMA LatestNext ==
  TypeOK /\ HandlerTypeOK /\ LatestIsFiled /\ [HandlerNext]_allVars => LatestIsFiled'
<1> SUFFICES ASSUME TypeOK, HandlerTypeOK, LatestIsFiled, [HandlerNext]_allVars
             PROVE  LatestIsFiled'
  OBVIOUS
<1>1. CASE UNCHANGED <<contexts, latest>>
  BY <1>1 DEF LatestIsFiled
<1>2. ASSUME NEW c \in Conns, Arrive(c) \/ Disconnect(c) \/ Write(c)
      PROVE  LatestIsFiled'
  BY <1>1, <1>2 DEF Arrive, Disconnect, Write, ArbiterIdle, histories
<1>3. ASSUME NEW c \in Conns, TakeGarbage(c) \/ TakeOwn(c) \/ TakeRaising(c) \/ BeginRepeat(c)
                              \/ PushReturns(c) \/ StoreEnds(c) \/ LoopEnds(c)
      PROVE  LatestIsFiled'
  BY <1>1, <1>3 DEF TakeGarbage, TakeOwn, TakeRaising, BeginRepeat, PushReturns, StoreEnds,
                    LoopEnds, ArbiterIdle, histories
<1>4. ASSUME NEW c \in Conns, TakeEvent(c)
      PROVE  LatestIsFiled'
  BY <1>4, NextFrame, LatestRecord DEF TakeEvent, Takes
<1>5. ASSUME NEW c \in Conns, FinishRepeat(c)
      PROVE  LatestIsFiled'
  BY <1>5, CurrentFrame, LatestRecord DEF FinishRepeat
<1>6. ASSUME NEW r \in Requests, Answer(r)
      PROVE  LatestIsFiled'
  BY <1>1, <1>6 DEF Answer, handlerVars, histories, Arbitrate, ArbitrateByMode,
                    ArbitrateThrottled, ArbitrateUnsolicited
<1>7. ASSUME BeginShutdown \/ Stop
      PROVE  LatestIsFiled'
  BY <1>1, <1>7 DEF BeginShutdown, Stop, ClientStopped, ShutdownDone, ArbiterIdle,
                    histories
<1>8. CASE UNCHANGED allVars \/ TimePasses
  BY <1>1, <1>8 DEF allVars, TimePasses, Tick, vars, handlerVars, histories
<1> QED
  BY <1>2, <1>3, <1>4, <1>5, <1>6, <1>7, <1>8 DEF HandlerNext, Handle, TakeFrame

\* What a recipient is refused for: the age of the event that was filed last, or
\* a reply within the cooldown.
Excused(r) ==
    LET last == latest[Target(r)]
        policy == FrameOf(last.event).plan.policy
    IN  \/ now - last.at > ContextTtl
        \/ \E n \in DOMAIN replied[CooldownKey(r)] :
              now - replied[CooldownKey(r)][n].at < EffectiveCooldown(policy)

LEMMA AnswerExcused ==
  ASSUME TypeOK, LatestIsFiled, StampedReplies, NEW r \in Requests, Answer(r),
         Target(r) # NoId, latest[Target(r)] # NoEvent, ~verdict'.allowed,
         r.source \in FrameOf(latest[Target(r)].event).plan.policy.allow
  PROVE  Excused(r)
<1> DEFINE t == Target(r)
<1>1. r \in Request /\ t \in Targets
  BY RequestsAssumption DEF Request, Target, Targets
<1>8. PICK c \in Conns : \E i \in 1..Len(Script[c]) : \E at \in 0..MaxTime :
         /\ latest[t] = [event |-> <<c, i>>, at |-> at]
         /\ contexts[t] = [group |-> Script[c][i].group, plan |-> Script[c][i].plan,
                           created |-> at]
  BY <1>1 DEF LatestIsFiled
<1>2. PICK i \in 1..Len(Script[c]), at \in 0..MaxTime :
         /\ latest[t] = [event |-> <<c, i>>, at |-> at]
         /\ contexts[t] = [group |-> Script[c][i].group, plan |-> Script[c][i].plan,
                           created |-> at]
  BY <1>8
<1> DEFINE policy == Script[c][i].plan.policy
<1>3. /\ FrameOf(latest[t].event).plan.policy = policy /\ latest[t].at = at
      /\ Script[c][i].plan \in Plans
  BY <1>2, FrameType DEF FrameOf
<1>4. contexts[t] # NoContext
  BY <1>2, FrameType, AbsentAssumption DEF Context
<1>5. /\ ContextFor(r) = contexts[t] /\ ContextFor(r).plan.policy = policy
      /\ ContextFor(r).created = at
  BY <1>2 DEF ContextFor
<1>6. CASE OlderThan(contexts[t], ContextTtl)
  BY <1>3, <1>5, <1>6 DEF OlderThan, Excused
<1>7. CASE ~OlderThan(contexts[t], ContextTtl)
  <2>1. LiveContext(r)
    BY <1>4, <1>5, <1>7 DEF LiveContext
  <2>2. r.source \in policy.allow /\ policy.mode # "silent"
    BY <1>3, HandlerAssumption
  <2>3. ~ArbitrateByMode(r)
    BY <1>5, <2>2 DEF ArbitrateByMode, Return
  <2>4. ~ArbitrateUnsolicited(r)
    BY <2>1 DEF ArbitrateUnsolicited
  <2>5. ArbitrateThrottled(r)
    BY <2>3, <2>4 DEF Answer, Arbitrate
  <2>6. ~CooledDown(r, policy)
    BY <1>5, <2>2, <2>5 DEF ArbitrateThrottled, Return
  <2>7. CooldownKey(r) \in Targets \X Downstreams
    BY <2>1, LiveTarget
  <2>8. replyCooldowns[CooldownKey(r)] # Never
        /\ ~(now - replyCooldowns[CooldownKey(r)] >= EffectiveCooldown(policy))
    BY <2>6 DEF CooledDown
  <2>9. PICK n \in DOMAIN replied[CooldownKey(r)] :
           replied[CooldownKey(r)][n].at = replyCooldowns[CooldownKey(r)]
    BY <2>7, <2>8 DEF StampedReplies
  <2>10. /\ EffectiveCooldown(policy) \in Nat /\ now \in Nat
         /\ replyCooldowns[CooldownKey(r)] \in Nat
    <3>1. EffectiveCooldown(policy) \in Nat
      BY <1>5, <2>1, CooldownType
    <3>2. now \in Nat /\ replyCooldowns \in [Targets \X Downstreams -> Nat \cup {Never}]
      BY TimeAssumption DEF TypeOK
    <3> QED
      BY <2>7, <2>8, <3>1, <3>2
  <2>11. now - replied[CooldownKey(r)][n].at < EffectiveCooldown(policy)
    BY <2>8, <2>9, <2>10
  <2> QED
    BY <1>3, <2>11 DEF Excused
<1> QED
  BY <1>6, <1>7

\* An arbitration that refuses changes nothing that Excused speaks of.
LEMMA RefusalKeeps ==
  ASSUME NEW r \in Requests, Answer(r), ~verdict'.allowed
  PROVE  UNCHANGED <<now, replied, latest, inbox>> /\ verdict'.request = r
<1>1. UNCHANGED <<latest, inbox>>
  BY DEF Answer, handlerVars, histories
<1>2. CASE ArbitrateByMode(r) \/ ArbitrateUnsolicited(r)
  BY <1>1, <1>2 DEF ArbitrateByMode, ArbitrateUnsolicited, Return
<1>3. CASE ArbitrateThrottled(r)
  BY <1>1, <1>3 DEF ArbitrateThrottled, Return, NoteReply
<1> QED
  BY <1>2, <1>3 DEF Answer, Arbitrate

LEMMA AnswerNext ==
  TypeOK /\ StampedReplies /\ LatestIsFiled /\ ReceivedCanAnswer /\ [HandlerNext]_allVars
  => ReceivedCanAnswer'
<1> SUFFICES ASSUME TypeOK, StampedReplies, LatestIsFiled, ReceivedCanAnswer,
                    [HandlerNext]_allVars
             PROVE  ReceivedCanAnswer'
  OBVIOUS
<1>1. CASE verdict' = NoVerdict
  BY <1>1 DEF ReceivedCanAnswer
<1>2. ASSUME NEW r \in Requests, Answer(r)
      PROVE  ReceivedCanAnswer'
  <2>1. CASE verdict'.allowed
    BY <2>1 DEF ReceivedCanAnswer
  <2>2. CASE ~verdict'.allowed
    <3>1. UNCHANGED <<now, replied, latest, inbox>> /\ verdict'.request = r
      BY <1>2, <2>2, RefusalKeeps
    <3>2. /\ Target(r) # NoId /\ latest[Target(r)] # NoEvent
          /\ r.source \in FrameOf(latest[Target(r)].event).plan.policy.allow
          => Excused(r)
      BY <1>2, <2>2, AnswerExcused
    <3> QED
      BY <3>1, <3>2 DEF ReceivedCanAnswer, Excused
  <2> QED
    BY <2>1, <2>2
<1>3. CASE UNCHANGED vars /\ UNCHANGED allVars
  BY <1>3 DEF ReceivedCanAnswer, vars, allVars, handlerVars, histories, Has
<1>4. \/ verdict' = NoVerdict \/ (\E r \in Requests : Answer(r))
      \/ (UNCHANGED vars /\ UNCHANGED allVars)
  <2>1. ASSUME NEW c \in Conns, Arrive(c) \/ Disconnect(c) \/ Write(c)
        PROVE  verdict' = NoVerdict
    BY <2>1 DEF Arrive, Disconnect, Write, ArbiterIdle
  <2>2. ASSUME NEW c \in Conns, Handle(c)
        PROVE  verdict' = NoVerdict
    BY <2>2 DEF Handle, TakeFrame, TakeGarbage, TakeOwn, TakeRaising, BeginRepeat, TakeEvent,
                FinishRepeat, PushReturns, StoreEnds, LoopEnds, ArbiterIdle,
                RecordAndRoute, RecordEvent
  <2>3. ASSUME BeginShutdown \/ Stop \/ TimePasses
        PROVE  verdict' = NoVerdict
    BY <2>3 DEF BeginShutdown, Stop, ClientStopped, ShutdownDone, ArbiterIdle, TimePasses,
                Tick
  <2>4. UNCHANGED allVars => UNCHANGED vars
    BY DEF allVars
  <2> QED
    BY <2>1, <2>2, <2>3, <2>4 DEF HandlerNext
<1> QED
  BY <1>1, <1>2, <1>3, <1>4

\* A recipient of the event that was routed under a chat's number last, and that
\* may reply to it, is refused only when that event is older than ContextTtl or a
\* cooldown is running, whatever other connections do meanwhile and however long
\* the handlers wait.
THEOREM AnswerCorrect == HandlerSpec => []ReceivedCanAnswer
<1>1. HandlerInit => TypeOK /\ StampedReplies /\ ReceivedCanAnswer
  BY TypeInit, StampedInit DEF HandlerInit, Init, ReceivedCanAnswer
<1> QED
  BY <1>1, HandlerTypeInit, HandlerTypeNext, ArbiterStep, TypeNext, StampedNext, LatestInit,
     LatestNext, AnswerNext, PTL DEF HandlerSpec

=============================================================================
