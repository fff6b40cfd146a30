------------------------- MODULE DownstreamClientProofs -------------------------
(***************************************************************************)
(* Theorems about DownstreamClient, for every set of events and requests,  *)
(* every capacity of the id memory and all delays.                         *)
(*                                                                         *)
(* Three strengthenings carry the proofs.  LossInv: while the flag is up,   *)
(* each event that was marked and not written is a push under way, so     *)
(* there are never more of them than pushers.  StopInv: what stop() has    *)
(* already done, at each of its awaits.  ChannelInv: the ids that were     *)
(* read, are on the wire or wait for the lock are remembered or were       *)
(* trimmed away, and of two copies of an id one was marked anew.           *)
(***************************************************************************)
EXTENDS DownstreamClient, FiniteSetTheorems, TLAPS

LEMMA EventIdType == \A e \in Events : EventId(e) \in Ids
BY DEF Ids

LEMMA Capacity == MaxForwarded \in Nat /\ (MaxForwarded + 1) \div 2 <= MaxForwarded
<1>1. MaxForwarded \in Nat /\ MaxForwarded >= 1
  BY CapacityAssumption
<1> QED BY <1>1

-----------------------------------------------------------------------------
(* Type correctness *)

ForwardedOK ==
    /\ forwarded \subseteq Ids /\ IsFiniteSet(forwarded)
    /\ Cardinality(forwarded) <= MaxForwarded

TypeInv == TypeOK /\ ForwardedOK

\* Whatever half is kept, the memory is finite and within its capacity.
LEMMA TrimmedBounds ==
    ASSUME NEW ids, ids \subseteq Ids, IsFiniteSet(ids), NEW kept \in Trimmed(ids)
    PROVE  kept \subseteq Ids /\ IsFiniteSet(kept) /\ Cardinality(kept) <= MaxForwarded
<1>1. CASE Cardinality(ids) <= MaxForwarded
  BY <1>1 DEF Trimmed
<1>2. CASE ~(Cardinality(ids) <= MaxForwarded)
  <2>1. kept \in SUBSET ids /\ Cardinality(kept) = (MaxForwarded + 1) \div 2
    BY <1>2 DEF Trimmed
  <2>2. IsFiniteSet(kept)
    BY <2>1, FS_Subset
  <2> QED BY <2>1, <2>2, Capacity
<1> QED BY <1>1, <1>2

LEMMA MarkBounds ==
    ASSUME ForwardedOK, NEW e \in Events, Mark(e)
    PROVE  ForwardedOK' /\ forgotten' \subseteq forgotten \cup Ids /\ anew' \subseteq Events \cup anew
<1>1. forwarded \cup {EventId(e)} \subseteq Ids /\ IsFiniteSet(forwarded \cup {EventId(e)})
  BY FS_AddElement, EventIdType DEF ForwardedOK
<1>2. forwarded' \in Trimmed(forwarded \cup {EventId(e)})
  BY DEF Mark
<1>3. forgotten' \subseteq forgotten \cup Ids /\ anew' \subseteq Events \cup anew
  BY <1>1 DEF Mark
<1> HIDE DEF Mark
<1> QED BY <1>1, <1>2, <1>3, TrimmedBounds DEF ForwardedOK

LEMMA InitType == Init => TypeInv
<1> SUFFICES ASSUME Init PROVE TypeInv
  OBVIOUS
<1>1. InitialDelay \in InitialDelay..MaxDelay
  BY DownstreamAssumption
<1>2. IsFiniteSet({}) /\ Cardinality({}) = 0
  BY FS_EmptySet
<1>3. ForwardedOK
  BY <1>2, Capacity DEF Init, ForwardedOK
<1>4. /\ push \in [Events -> Statuses] /\ <<>> \in Seq(Events)
      /\ handler \in [Requests -> Active \cup {"new", "done"}]
  BY DEF Init, Statuses
<1> QED BY <1>1, <1>3, <1>4 DEF Init, TypeInv, ForwardedOK, TypeOK, LoopStates

\* The end of a session keeps the types of what it changes.
LEMMA EndSessionType ==
    ASSUME TypeInv, EndSession
    PROVE  /\ wire' = <<>> /\ wire' \in Seq(Events)
           /\ push' \in [Events -> Statuses]
           /\ handler' \in [Requests -> Active \cup {"new", "done"}]
           /\ burnt' \subseteq Events
BY DEF EndSession, TypeInv, TypeOK, Statuses, Waiting, Active

LEMMA LoopType ==
    ASSUME TypeInv, LoopStep \/ StopStep \/ Start \/ SessionLost PROVE TypeInv'
<1> USE DEF TypeInv, TypeOK, ForwardedOK, LoopStates, sessionVars, loopVars, sendVars, memoryVars
<1>1. InitialDelay \in InitialDelay..MaxDelay /\ delay \in Nat
  BY DownstreamAssumption
<1>3. CASE Start
  BY <1>3 DEF Start
<1>4. CASE Dial
  BY <1>4, EndSessionType DEF Dial
<1>5. CASE DialSucceeds
  BY <1>5, <1>1 DEF DialSucceeds
<1>6. CASE DialFails
  BY <1>6 DEF DialFails
<1>7. CASE MessageLoopEnds
  BY <1>7 DEF MessageLoopEnds
<1>8. CASE FrameUndecodable
  BY <1>8 DEF FrameUndecodable
<1>9. CASE Wake
  <2>1. delay' \in InitialDelay..MaxDelay
    BY <1>9, <1>1, DownstreamAssumption DEF Wake
  <2> QED BY <1>9, <2>1 DEF Wake
<1>10. CASE StopBegins
  BY <1>10 DEF StopBegins
<1>11. CASE HandlersCancelled
  BY <1>11 DEF HandlersCancelled
<1>12. CASE StopEnds
  BY <1>12, EndSessionType DEF StopEnds
<1>13. CASE SessionLost
  BY <1>13, EndSessionType DEF SessionLost
<1> QED BY <1>3, <1>4, <1>5, <1>6, <1>7, <1>8, <1>9, <1>10, <1>11, <1>12, <1>13
        DEF LoopStep, StopStep

\* What a step of push_event does to the events' statuses.
LEMMA PushStatus ==
    ASSUME NEW e \in Events, PushStep(e)
    PROVE  \E status \in Statuses : push' = [push EXCEPT ![e] = status]
BY DEF PushStep, PushEvent, PushRefused, PushSkipped, PushQueued, PushDoomed,
       PushWritten, PushReturns, PushFails, Becomes, Statuses, Waiting

LEMMA PushType ==
    ASSUME TypeInv, NEW e \in Events, PushStep(e) PROVE TypeInv'
<1>1. push' \in [Events -> Statuses]
  BY PushStatus DEF TypeInv, TypeOK
<1>2. ForwardedOK' /\ forgotten' \subseteq Ids /\ anew' \subseteq Events
  <2>1. Mark(e) \/ UNCHANGED memoryVars
    BY DEF PushStep, PushEvent, PushRefused, PushSkipped, PushQueued, PushDoomed,
           PushWritten, PushReturns, PushFails, memoryVars
  <2> QED BY <2>1, MarkBounds DEF TypeInv, TypeOK, ForwardedOK, memoryVars
<1>3. connected' \in BOOLEAN /\ burnt' \subseteq Events
  BY DEF PushStep, PushEvent, PushRefused, PushSkipped, PushQueued, PushDoomed,
         PushWritten, PushReturns, PushFails, sessionVars, TypeInv, TypeOK
<1>4. wire' \in Seq(Events)
  <2>1. wire' = wire \/ wire' = Append(wire, e)
    BY DEF PushStep, PushEvent, PushWritten, PushReturns, PushFails
  <2>2. wire \in Seq(Events)
    BY DEF TypeInv, TypeOK
  <2> QED BY <2>1, <2>2
<1>5. UNCHANGED <<running, loop, ws, delay, handler, received>>
  BY DEF PushStep, PushEvent, PushWritten, PushReturns, PushFails, loopVars, sessionVars
<1> QED BY <1>1, <1>2, <1>3, <1>4, <1>5 DEF TypeInv, TypeOK, ForwardedOK

LEMMA PeerType ==
    ASSUME TypeInv, PeerReads PROVE TypeInv'
<1> USE DEF TypeInv, TypeOK, ForwardedOK, LoopStates, sessionVars, loopVars, memoryVars,
            PeerReads
<1>1. Head(wire) \in Events /\ Tail(wire) \in Seq(Events)
  OBVIOUS
<1> QED BY <1>1

\* What a step of a handler does: its own status, and perhaps the flag.
LEMMA AnswerEffect ==
    ASSUME NEW q \in Requests, AnswerStep(q)
    PROVE  /\ \E status \in Active \cup {"done"} : handler' = [handler EXCEPT ![q] = status]
           /\ connected' = connected \/ connected' = FALSE
           /\ UNCHANGED <<running, loop, ws, delay, memoryVars, push, wire, received, burnt>>
<1> USE DEF HandlerBecomes, Active, loopVars, sessionVars
<1>1. CASE RequestArrives(q)
  BY <1>1 DEF RequestArrives
<1>2. CASE AnswerStarts(q)
  BY <1>2 DEF AnswerStarts
<1>3. CASE AnswerReturns(q)
  BY <1>3 DEF AnswerReturns
<1>4. CASE AnswerFails(q)
  BY <1>4 DEF AnswerFails
<1> QED BY <1>1, <1>2, <1>3, <1>4 DEF AnswerStep

LEMMA AnswerType ==
    ASSUME TypeInv, NEW q \in Requests, AnswerStep(q) PROVE TypeInv'
<1>1. handler' \in [Requests -> Active \cup {"new", "done"}]
  BY AnswerEffect DEF TypeInv, TypeOK
<1>2. connected' \in BOOLEAN
  BY AnswerEffect DEF TypeInv, TypeOK
<1> QED BY <1>1, <1>2, AnswerEffect DEF TypeInv, TypeOK, ForwardedOK, memoryVars

LEMMA TypeStep == TypeInv /\ [Next]_vars => TypeInv'
<1>1. ASSUME TypeInv, UNCHANGED vars PROVE TypeInv'
  BY <1>1 DEF vars, memoryVars, TypeInv, TypeOK, ForwardedOK
<1> QED BY <1>1, LoopType, PushType, PeerType, AnswerType DEF Next

\* The client's variables keep their types, and the memory of forwarded ids
\* never exceeds _max_forwarded.
THEOREM TypeCorrect == Spec => []TypeOK
<1>1. TypeInv => TypeOK
  BY DEF TypeInv
<1> QED BY InitType, TypeStep, <1>1, PTL DEF Spec

-----------------------------------------------------------------------------
(* A session leaves no more marked events unwritten than there are pushers *)

\* Events that were marked in this session and are not on the wire yet.
Unwritten == burnt \cup {e \in Events : push[e] = "queued"}

LossInv ==
    /\ IsFiniteSet(Pending) /\ Cardinality(Pending) <= Pushers
    /\ IsFiniteSet(Unwritten) /\ Cardinality(Unwritten) <= Pushers
    /\ connected => Unwritten \subseteq Pending

\* A burnt event's push is doomed, or has failed.
BurntInv == \A e \in burnt : push[e] \in {"doomed", "failed"}

LEMMA BurntStep == TypeInv /\ BurntInv /\ [Next]_vars => BurntInv'
<1> SUFFICES ASSUME TypeInv, BurntInv, [Next]_vars PROVE BurntInv'
  OBVIOUS
<1> USE DEF BurntInv, sendVars, TypeInv, TypeOK
<1>1. CASE Dial \/ SessionLost \/ StopEnds
  <2>1. EndSession
    BY <1>1 DEF Dial, SessionLost, StopEnds
  <2> QED BY <2>1 DEF EndSession
<1>2. CASE Start \/ DialSucceeds \/ DialFails \/ MessageLoopEnds \/ FrameUndecodable \/ Wake
  BY <1>2 DEF Start, DialSucceeds, DialFails, MessageLoopEnds, FrameUndecodable, Wake
<1>3. CASE StopBegins \/ HandlersCancelled \/ PeerReads
  BY <1>3 DEF StopBegins, HandlersCancelled, PeerReads
<1>4. ASSUME NEW e \in Events, PushStep(e) PROVE BurntInv'
  BY <1>4 DEF PushStep, PushEvent, PushRefused, PushSkipped, PushQueued, PushDoomed,
              PushWritten, PushReturns, PushFails, Becomes
<1>5. ASSUME NEW q \in Requests, AnswerStep(q) PROVE BurntInv'
  BY <1>5, AnswerEffect
<1>6. CASE UNCHANGED vars
  BY <1>6 DEF vars
<1> QED BY <1>1, <1>2, <1>3, <1>4, <1>5, <1>6 DEF Next, LoopStep, StopStep

LEMMA PushersType == Pushers \in Nat
BY DownstreamAssumption

\* One more element adds at most one to a set's size.
LEMMA OneMore ==
    ASSUME NEW S, NEW x, IsFiniteSet(S), Cardinality(S) < Pushers
    PROVE  IsFiniteSet(S \cup {x}) /\ Cardinality(S \cup {x}) <= Pushers
<1>1. /\ IsFiniteSet(S \cup {x})
      /\ Cardinality(S \cup {x}) = IF x \in S THEN Cardinality(S) ELSE Cardinality(S) + 1
  BY FS_AddElement
<1>2. Cardinality(S) \in Nat
  BY FS_CardinalityType
<1> QED BY <1>1, <1>2, PushersType

LEMMA SmallerSet ==
    ASSUME NEW S, NEW T, IsFiniteSet(T), Cardinality(T) <= Pushers, S \subseteq T
    PROVE  IsFiniteSet(S) /\ Cardinality(S) <= Pushers
<1>1. IsFiniteSet(S) /\ Cardinality(S) <= Cardinality(T)
  BY FS_Subset
<1>2. Cardinality(S) \in Nat /\ Cardinality(T) \in Nat
  BY <1>1, FS_CardinalityType
<1> QED BY <1>1, <1>2, PushersType

\* A step that starts no push, and after which nothing new is unwritten.
LEMMA QuietLoss ==
    ASSUME LossInv, Pending' \subseteq Pending, Unwritten' \subseteq Unwritten,
           connected' => Unwritten' \subseteq Pending'
    PROVE  LossInv'
BY SmallerSet DEF LossInv

\* The push that starts takes up the place of a pusher that was free.
LEMMA PushEventLoss ==
    ASSUME TypeInv, LossInv, NEW e \in Events, PushEvent(e)
    PROVE  LossInv'
<1> USE DEF TypeInv, TypeOK, Pending, Unwritten, Waiting, Becomes, sessionVars
<1>1. CASE PushRefused(e) \/ PushSkipped(e)
  <2>1. /\ \A f \in Events : push'[f] \in Waiting <=> push[f] \in Waiting
        /\ \A f \in Events : push'[f] = "queued" <=> push[f] = "queued"
        /\ burnt' = burnt /\ connected' = connected
    BY <1>1 DEF PushEvent, PushRefused, PushSkipped
  <2>2. Pending' = Pending /\ Unwritten' = Unwritten
    BY <2>1
  <2> HIDE DEF Pending, Unwritten
  <2>3. connected' => Unwritten' \subseteq Pending'
    BY <2>1, <2>2 DEF LossInv
  <2> QED BY <2>2, <2>3, QuietLoss
<1>2. CASE PushQueued(e) \/ PushDoomed(e)
  <2>1. Pending' = Pending \cup {e} /\ Unwritten' = Unwritten \cup {e} /\ connected
    BY <1>2 DEF PushEvent, PushQueued, PushDoomed
  <2>2. IsFiniteSet(Pending) /\ Cardinality(Pending) < Pushers
    BY DEF PushEvent, LossInv
  <2> HIDE DEF Pending, Unwritten
  <2>5. IsFiniteSet(Pending') /\ Cardinality(Pending') <= Pushers
    BY <2>1, <2>2, OneMore
  <2>6. Unwritten' \subseteq Pending'
    BY <2>1 DEF LossInv
  <2>7. IsFiniteSet(Unwritten') /\ Cardinality(Unwritten') <= Pushers
    BY <2>5, <2>6, SmallerSet
  <2> QED BY <2>5, <2>6, <2>7 DEF LossInv
<1> QED BY <1>1, <1>2 DEF PushEvent

\* The event that leaves the queue is written; the one that ends a doomed push
\* lowers the flag.
LEMMA PushOnLoss ==
    ASSUME TypeInv, LossInv, BurntInv, NEW e \in Events, PushWritten(e) \/ PushReturns(e) \/ PushFails(e)
    PROVE  LossInv'
<1> USE DEF TypeInv, TypeOK, Pending, Unwritten, Waiting, Becomes, sessionVars
<1>1. Pending' \subseteq Pending /\ Unwritten' \subseteq Unwritten
  BY DEF PushWritten, PushReturns, PushFails
<1>2. connected' => Unwritten' \subseteq Pending'
  <2>1. CASE PushWritten(e)
    BY <2>1 DEF PushWritten, LossInv
  <2>2. CASE PushReturns(e)
    <3>1. e \notin Unwritten
      BY <2>2 DEF PushReturns, BurntInv
    <3> QED BY <2>2, <3>1 DEF PushReturns, LossInv
  <2>3. CASE PushFails(e)
    BY <2>3 DEF PushFails
  <2> QED BY <2>1, <2>2, <2>3
<1> HIDE DEF Pending, Unwritten
<1> QED BY <1>1, <1>2, QuietLoss

LEMMA LossStep == TypeInv /\ LossInv /\ BurntInv /\ [Next]_vars => LossInv'
<1> SUFFICES ASSUME TypeInv, LossInv, BurntInv, [Next]_vars PROVE LossInv'
  OBVIOUS
<1> DEFINE Quiet == /\ Pending' = Pending /\ Unwritten' \subseteq Unwritten
                    /\ connected' => connected
<1>0. ASSUME Quiet PROVE LossInv'
  <2>1. connected' => Unwritten' \subseteq Pending'
    BY <1>0 DEF LossInv
  <2> QED BY <1>0, <2>1, QuietLoss
<1>a. ASSUME UNCHANGED <<push, burnt, connected>> PROVE Quiet
  BY <1>a DEF Pending, Unwritten
<1>b. ASSUME EndSession, connected' => connected PROVE Quiet
  <2>1. \A e \in Events : push'[e] \in Waiting <=> push[e] \in Waiting
    BY <1>b DEF EndSession, Waiting
  <2>2. \A e \in Events : push'[e] # "queued"
    BY <1>b DEF EndSession
  <2> QED BY <1>b, <2>1, <2>2 DEF EndSession, Pending, Unwritten
<1> HIDE DEF Quiet
<1> USE DEF sessionVars, loopVars, sendVars, memoryVars
<1>1. CASE DialSucceeds
  <2>1. burnt' = {} /\ push' = push
    BY <1>1 DEF DialSucceeds
  <2>2. Pending' = Pending /\ Unwritten' \subseteq Pending /\ Unwritten' \subseteq Unwritten
    BY <2>1 DEF Pending, Unwritten, Waiting
  <2> QED BY <2>2, QuietLoss
<1>2. CASE Dial \/ SessionLost \/ StopEnds
  BY <1>2, <1>b, <1>0 DEF Dial, SessionLost, StopEnds
<1>3. CASE DialFails \/ MessageLoopEnds \/ FrameUndecodable \/ Wake
  BY <1>3, <1>a, <1>0 DEF DialFails, MessageLoopEnds, FrameUndecodable, Wake
<1>4. CASE Start \/ StopBegins \/ HandlersCancelled \/ PeerReads
  BY <1>4, <1>a, <1>0 DEF Start, StopBegins, HandlersCancelled, PeerReads
<1>5. ASSUME NEW e \in Events, PushStep(e) PROVE LossInv'
  BY <1>5, PushEventLoss, PushOnLoss DEF PushStep
<1>6. ASSUME NEW q \in Requests, AnswerStep(q) PROVE LossInv'
  <2>1. push' = push /\ burnt' = burnt /\ (connected' => connected)
    BY <1>6, AnswerEffect
  <2>2. Pending' = Pending /\ Unwritten' = Unwritten
    BY <2>1 DEF Pending, Unwritten
  <2> QED BY <2>1, <2>2, <1>0 DEF Quiet
<1>7. CASE UNCHANGED vars
  BY <1>7, <1>a, <1>0 DEF vars
<1> QED BY <1>1, <1>2, <1>3, <1>4, <1>5, <1>6, <1>7 DEF Next, LoopStep, StopStep

LEMMA InitLoss == Init => LossInv
<1> SUFFICES ASSUME Init PROVE LossInv
  OBVIOUS
<1>1. Pending = {} /\ Unwritten = {}
  BY DEF Init, Pending, Unwritten, Waiting
<1>2. IsFiniteSet({}) /\ Cardinality({}) = 0
  BY FS_EmptySet
<1> QED BY <1>1, <1>2, PushersType DEF LossInv

\* However sessions come and go and however long sends wait, of the events that
\* are marked as forwarded a session leaves at most as many unwritten as the bus
\* can be pushing at once (push_event).
THEOREM UnwrittenCorrect == Spec => []UnwrittenIsBounded
<1>1. LossInv => UnwrittenIsBounded
  <2> SUFFICES ASSUME LossInv PROVE Cardinality(burnt) <= Pushers
    BY DEF UnwrittenIsBounded
  <2> QED BY SmallerSet DEF LossInv, Unwritten
<1>2. Init => BurntInv
  BY DEF Init, BurntInv
<1> QED BY <1>1, <1>2, InitLoss, InitType, TypeStep, BurntStep, LossStep, PTL DEF Spec

-----------------------------------------------------------------------------
(* Stopping, dialling, and the flag *)

StopInv ==
    /\ loop \in {"cancelled", "ended", "stopped"} => ~running
    /\ loop \in {"ended", "stopped"} => Handlers = {}
    /\ loop = "stopped" => ws = "none" /\ ~connected
    /\ loop = "dial" => ~connected /\ ws = "none"

\* The end of a session starts no handler.
LEMMA EndSessionHandlers ==
    ASSUME EndSession PROVE Handlers' = Handlers
BY DEF EndSession, Handlers, Active

LEMMA StopInvStep == TypeInv /\ StopInv /\ [Next]_vars => StopInv'
<1> SUFFICES ASSUME TypeInv, StopInv, [Next]_vars PROVE StopInv'
  OBVIOUS
<1> USE DEF StopInv, sessionVars, loopVars, sendVars, memoryVars
<1>1. CASE Start
  BY <1>1 DEF Start
<1>2. CASE LoopStep
  BY <1>2, EndSessionHandlers DEF LoopStep, Dial, DialSucceeds, DialFails,
     MessageLoopEnds, FrameUndecodable, Wake
<1>3. CASE StopBegins
  BY <1>3 DEF StopBegins
<1>4. CASE HandlersCancelled
  <2>1. Handlers' = {}
    BY <1>4 DEF HandlersCancelled, Handlers, Active
  <2> QED BY <1>4, <2>1 DEF HandlersCancelled
<1>5. CASE StopEnds \/ SessionLost
  BY <1>5, EndSessionHandlers DEF StopEnds, SessionLost
<1>6. CASE PeerReads
  BY <1>6 DEF PeerReads, Handlers
<1>7. ASSUME NEW e \in Events, PushStep(e) PROVE StopInv'
  <2>1. UNCHANGED <<running, loop, ws, handler>>
    BY <1>7 DEF PushStep, PushEvent, PushWritten, PushReturns, PushFails
  <2>2. connected' = connected \/ connected' = FALSE
    BY <1>7 DEF PushStep, PushEvent, PushWritten, PushReturns, PushFails
  <2> QED BY <2>1, <2>2 DEF Handlers
<1>8. ASSUME NEW q \in Requests, AnswerStep(q) PROVE StopInv'
  <2>1. UNCHANGED <<running, loop, ws>> /\ (connected' = connected \/ connected' = FALSE)
    BY <1>8, AnswerEffect
  <2>2. CASE RequestArrives(q)
    <3>1. loop = "receive"
      BY <2>2 DEF RequestArrives
    <3> QED BY <2>1, <3>1
  <2>3. CASE ~RequestArrives(q)
    <3>1. Handlers' \subseteq Handlers
      BY <1>8, <2>3 DEF AnswerStep, AnswerStarts, AnswerReturns, AnswerFails,
                        HandlerBecomes, Handlers, Active, TypeInv, TypeOK
    <3> QED BY <2>1, <3>1
  <2> QED BY <2>2, <2>3
<1>9. CASE UNCHANGED vars
  BY <1>9 DEF vars, Handlers
<1> QED BY <1>1, <1>2, <1>3, <1>4, <1>5, <1>6, <1>7, <1>8, <1>9 DEF Next, StopStep

LEMMA StopInvHolds == Spec => []StopInv
<1>1. Init => StopInv
  BY DEF Init, StopInv
<1> QED BY <1>1, InitType, TypeStep, StopInvStep, PTL DEF Spec

\* Wherever stop() finds the loop and the handlers, at its end no handler is
\* left and the connection is closed.
THEOREM StopCorrect == Spec => []StopIsFinal
<1>1. StopInv => StopIsFinal
  BY DEF StopInv, StopIsFinal
<1> QED BY <1>1, StopInvHolds, PTL

\* A send can be doomed only when the session it was made on is over.
UseInv == ws = "open" => connected /\ NothingDoomed

LEMMA UseStep == TypeInv /\ UseInv /\ [Next]_vars => UseInv'
<1> SUFFICES ASSUME TypeInv, UseInv, [Next]_vars, ws' = "open"
             PROVE  connected' /\ NothingDoomed'
  BY DEF UseInv
<1> USE DEF sessionVars, loopVars, sendVars, memoryVars
<1>1. CASE Dial \/ StopEnds \/ SessionLost
  BY <1>1 DEF Dial, StopEnds, SessionLost
<1>2. CASE DialSucceeds
  BY <1>2 DEF DialSucceeds, NothingDoomed
<1>3. CASE Start \/ DialFails \/ MessageLoopEnds \/ FrameUndecodable \/ Wake \/ StopBegins \/ PeerReads
  BY <1>3 DEF Start, DialFails, MessageLoopEnds, FrameUndecodable, Wake, StopBegins,
              PeerReads, UseInv, NothingDoomed
<1>4. CASE HandlersCancelled
  BY <1>4 DEF HandlersCancelled, UseInv, NothingDoomed
<1>5. ASSUME NEW e \in Events, PushStep(e) PROVE connected' /\ NothingDoomed'
  <2>1. ws' = ws
    BY <1>5 DEF PushStep, PushEvent, PushWritten, PushReturns, PushFails
  <2>2. connected /\ NothingDoomed
    BY <2>1 DEF UseInv
  <2>3. push[e] # "doomed"
    BY <2>2 DEF NothingDoomed
  <2>4. CASE PushEvent(e)
    <3>1. ~PushDoomed(e)
      BY <2>1 DEF PushDoomed
    <3> QED BY <2>2, <2>4, <3>1 DEF PushEvent, PushRefused, PushSkipped, PushQueued,
               Becomes, NothingDoomed, TypeInv, TypeOK
  <2>5. CASE PushWritten(e) \/ PushReturns(e)
    BY <2>2, <2>5 DEF PushWritten, PushReturns, Becomes, NothingDoomed, TypeInv, TypeOK
  <2> QED BY <1>5, <2>3, <2>4, <2>5 DEF PushStep, PushFails
<1>6. ASSUME NEW q \in Requests, AnswerStep(q) PROVE connected' /\ NothingDoomed'
  <2>1. ws' = ws
    BY <1>6, AnswerEffect
  <2>2. connected /\ NothingDoomed
    BY <2>1 DEF UseInv
  <2>3. handler[q] # "doomed"
    BY <2>2 DEF NothingDoomed
  <2> QED BY <1>6, <2>1, <2>2, <2>3
          DEF AnswerStep, RequestArrives, AnswerStarts, AnswerReturns, AnswerFails,
              HandlerBecomes, NothingDoomed, TypeInv, TypeOK
<1>7. CASE UNCHANGED vars
  BY <1>7 DEF vars, UseInv, NothingDoomed
<1> QED BY <1>1, <1>2, <1>3, <1>4, <1>5, <1>6, <1>7 DEF Next, LoopStep, StopStep

\* An open session is used: the flag is down only between sessions.
THEOREM UseCorrect == Spec => []OpenSessionIsUsed
<1>1. Init => UseInv
  BY DEF Init, UseInv
<1>2. UseInv => OpenSessionIsUsed
  BY DEF UseInv, OpenSessionIsUsed
<1> QED BY <1>1, <1>2, InitType, TypeStep, UseStep, PTL DEF Spec

\* Every session starts the backoff afresh.
DelayInv == loop = "receive" => delay = InitialDelay

THEOREM BackoffCorrect == Spec => BackoffRestarts
<1>1. Init => DelayInv
  BY DEF Init, DelayInv
<1>2. ASSUME NEW e \in Events, PushStep(e) PROVE UNCHANGED <<loop, delay>>
  BY <1>2 DEF PushStep, PushEvent, PushWritten, PushReturns, PushFails, loopVars, sessionVars
<1>3. ASSUME NEW q \in Requests, AnswerStep(q) PROVE UNCHANGED <<loop, delay>>
  BY <1>3, AnswerEffect
<1>4. DelayInv /\ [Next]_vars => DelayInv'
  <2> SUFFICES ASSUME DelayInv, [Next]_vars PROVE DelayInv'
    OBVIOUS
  <2> USE DEF DelayInv, sessionVars, loopVars
  <2>1. CASE LoopStep \/ Start
    BY <2>1 DEF LoopStep, Start, Dial, DialSucceeds, DialFails, MessageLoopEnds,
                FrameUndecodable, Wake
  <2>2. CASE StopStep \/ SessionLost \/ PeerReads
    BY <2>2 DEF StopStep, StopBegins, HandlersCancelled, StopEnds, SessionLost, PeerReads
  <2>3. CASE UNCHANGED vars
    BY <2>3 DEF vars
  <2> QED BY <2>1, <2>2, <2>3, <1>2, <1>3 DEF Next
<1>5. DelayInv /\ [Next]_vars => [loop = "receive" /\ loop' = "sleep" => delay' = InitialDelay]_vars
  <2> SUFFICES ASSUME DelayInv, Next, loop = "receive", loop' = "sleep"
               PROVE  delay' = InitialDelay
    OBVIOUS
  <2>1. delay = InitialDelay
    BY DEF DelayInv
  <2>2. CASE LoopStep
    BY <2>1, <2>2 DEF LoopStep, Dial, DialSucceeds, DialFails, MessageLoopEnds,
                      FrameUndecodable, Wake, sessionVars
  <2>3. CASE Start \/ StopStep \/ SessionLost \/ PeerReads
    BY <2>3 DEF Start, StopStep, StopBegins, HandlersCancelled, StopEnds, SessionLost,
                PeerReads, loopVars
  <2> QED BY <2>2, <2>3, <1>2, <1>3 DEF Next
<1> QED BY <1>1, <1>4, <1>5, PTL DEF Spec, BackoffRestarts

-----------------------------------------------------------------------------
(* At most once: DownstreamClient implements AtMostOnceDelivery *)

\* The ids that were ever marked.
Marked == forwarded \cup forgotten

\* Of two copies of an id, one was marked anew.
Apart(e, f) == EventId(e) = EventId(f) => e \in anew \/ f \in anew

\* An event that is on its way, or there, was pushed, and its id was marked.
OnItsWay(e) == push[e] # "new" /\ EventId(e) \in Marked

WireInv ==
    /\ \A i \in DOMAIN received : OnItsWay(received[i])
    /\ \A i \in DOMAIN wire : OnItsWay(wire[i])
    /\ \A i, j \in DOMAIN wire : i # j => Apart(wire[i], wire[j])
    /\ \A i \in DOMAIN wire, j \in DOMAIN received : Apart(wire[i], received[j])

\* A queued event waits for the lock, apart from every other copy.
QueueInv ==
    \A e \in Events : push[e] = "queued" =>
        /\ OnItsWay(e)
        /\ \A i \in DOMAIN wire : Apart(e, wire[i])
        /\ \A i \in DOMAIN received : Apart(e, received[i])
        /\ \A f \in Events \ {e} : push[f] = "queued" => Apart(e, f)

ChannelInv == WireInv /\ QueueInv

\* What a step of the client that neither writes nor reads may do to the
\* channel: more ids are marked, more events are anew, and the wire may be lost.
LEMMA OtherWire ==
    ASSUME ChannelInv, received' = received, Marked \subseteq Marked', anew \subseteq anew',
           wire' = wire \/ wire' = <<>>,
           wire \in Seq(Events), received \in Seq(Events),
           \A e \in Events : push'[e] = "queued" => push[e] = "queued",
           \A e \in Events : push'[e] = "new" => push[e] = "new"
    PROVE  ChannelInv'
<1>1. \A e \in Events : OnItsWay(e) => OnItsWay(e)'
  BY DEF OnItsWay
<1>2. \A e, f \in Events : Apart(e, f) => Apart(e, f)'
  BY DEF Apart
<1>3. \A i \in DOMAIN wire : wire[i] \in Events
  OBVIOUS
<1>4. \A i \in DOMAIN received : received[i] \in Events
  OBVIOUS
<1>5. \A i \in DOMAIN wire' : i \in DOMAIN wire /\ wire'[i] = wire[i]
  OBVIOUS
<1> HIDE DEF OnItsWay, Apart
<1>6. WireInv'
  BY <1>1, <1>2, <1>3, <1>4, <1>5 DEF ChannelInv, WireInv, OnItsWay, Apart
<1>7. QueueInv'
  BY <1>1, <1>2, <1>3, <1>4, <1>5 DEF ChannelInv, QueueInv, OnItsWay, Apart
<1> QED BY <1>6, <1>7 DEF ChannelInv

\* Marking forgets no id without a trace, and an id that was marked before makes
\* the event anew.
LEMMA MarkEffect ==
    ASSUME NEW e \in Events, Mark(e)
    PROVE  /\ Marked \subseteq Marked' /\ EventId(e) \in Marked'
           /\ anew \subseteq anew' /\ anew' \subseteq anew \cup {e}
           /\ EventId(e) \in forgotten => e \in anew'
BY DEF Mark, Marked

\* The event that leaves the queue joins the wire, apart from all that is there.
LEMMA WrittenWire ==
    ASSUME TypeInv, ChannelInv, NEW e \in Events, PushWritten(e)
    PROVE  ChannelInv'
<1>1. /\ push[e] = "queued" /\ push' = [push EXCEPT ![e] = "draining"]
      /\ Marked' = Marked /\ received' = received /\ anew' = anew
  BY DEF PushWritten, Becomes, memoryVars, Marked
<1>2. wire \in Seq(Events) /\ wire' = Append(wire, e) /\ received \in Seq(Events)
  BY DEF PushWritten, TypeInv, TypeOK
<1>3. /\ DOMAIN wire' = DOMAIN wire \cup {Len(wire) + 1}
      /\ \A i \in DOMAIN wire : wire'[i] = wire[i] /\ wire[i] \in Events
      /\ wire'[Len(wire) + 1] = e /\ Len(wire) + 1 \notin DOMAIN wire
      /\ \A i \in DOMAIN received : received[i] \in Events
  BY <1>2
<1>4. \A f \in Events : /\ push'[f] = "queued" => push[f] = "queued" /\ f # e
                        /\ push'[f] = "new" => push[f] = "new"
  BY <1>1 DEF TypeInv, TypeOK
<1>5. /\ OnItsWay(e)
      /\ \A i \in DOMAIN wire : Apart(e, wire[i])
      /\ \A i \in DOMAIN received : Apart(e, received[i])
      /\ \A f \in Events \ {e} : push[f] = "queued" => Apart(e, f)
  BY <1>1 DEF ChannelInv, QueueInv
<1>6. WireInv'
  BY <1>1, <1>3, <1>4, <1>5 DEF ChannelInv, WireInv, OnItsWay, Apart
<1>7. QueueInv'
  BY <1>1, <1>3, <1>4, <1>5 DEF ChannelInv, QueueInv, OnItsWay, Apart
<1> QED BY <1>6, <1>7 DEF ChannelInv

\* A push that starts marks its id; a queued one is the first copy, or anew.
LEMMA StartedWire ==
    ASSUME TypeInv, ChannelInv, NEW e \in Events, PushEvent(e)
    PROVE  ChannelInv'
<1>1. wire' = wire /\ received' = received /\ wire \in Seq(Events) /\ received \in Seq(Events)
  BY DEF PushEvent, TypeInv, TypeOK
<1>2. \A f \in Events : push'[f] = "new" => push[f] = "new"
  BY DEF PushEvent, PushRefused, PushSkipped, PushQueued, PushDoomed, Becomes, TypeInv, TypeOK
<1>3. CASE PushQueued(e)
  <2>1. /\ Marked \subseteq Marked' /\ EventId(e) \in Marked'
        /\ anew \subseteq anew' /\ EventId(e) \notin forwarded
        /\ EventId(e) \in forgotten => e \in anew'
        /\ push' = [push EXCEPT ![e] = "queued"]
    BY <1>3, MarkEffect DEF PushQueued, IsDuplicate, Becomes
  <2>2. \A f \in Events : push'[f] = "queued" <=> push[f] = "queued" \/ f = e
    BY <2>1 DEF TypeInv, TypeOK
  <2>3. \A f \in Events : OnItsWay(f) => OnItsWay(f)' /\ Apart(e, f)' /\ Apart(f, e)'
    BY <2>1, <1>2 DEF OnItsWay, Apart, Marked
  <2>4. \A f, h \in Events : Apart(f, h) => Apart(f, h)'
    BY <2>1 DEF Apart
  <2>5. /\ \A i \in DOMAIN wire : wire[i] \in Events
        /\ \A i \in DOMAIN received : received[i] \in Events
    BY <1>1
  <2>6. OnItsWay(e)'
    BY <2>1, <2>2 DEF OnItsWay
  <2>7. WireInv'
    BY <1>1, <2>3, <2>4, <2>5 DEF ChannelInv, WireInv, OnItsWay, Apart
  <2>8. QueueInv'
    <3>1. \A f \in Events : push[f] = "queued" => OnItsWay(f)
      BY DEF ChannelInv, QueueInv
    <3>2. ASSUME NEW f \in Events, push'[f] = "queued"
          PROVE  /\ \A i \in DOMAIN wire : Apart(f, wire[i])'
                 /\ \A i \in DOMAIN received : Apart(f, received[i])'
      BY <3>2, <1>1, <2>2, <2>3, <2>4, <2>5 DEF ChannelInv, WireInv, QueueInv, OnItsWay, Apart
    <3>3. ASSUME NEW f \in Events, NEW h \in Events \ {f}, push'[f] = "queued", push'[h] = "queued"
          PROVE  Apart(f, h)'
      BY <3>1, <3>3, <2>2, <2>3, <2>4 DEF ChannelInv, QueueInv
    <3>4. \A f \in Events : push'[f] = "queued" => OnItsWay(f)'
      BY <3>1, <2>2, <2>3, <2>6
    <3> QED BY <1>1, <3>2, <3>3, <3>4 DEF QueueInv, Apart, OnItsWay
  <2> QED BY <2>7, <2>8 DEF ChannelInv
<1>4. CASE ~PushQueued(e)
  <2>1. Marked \subseteq Marked' /\ anew \subseteq anew'
    BY <1>4, MarkEffect DEF PushEvent, PushRefused, PushSkipped, PushDoomed, memoryVars, Marked
  <2>2. \A f \in Events : push'[f] = "queued" => push[f] = "queued"
    BY <1>4 DEF PushEvent, PushRefused, PushSkipped, PushDoomed, Becomes, TypeInv, TypeOK
  <2> QED BY <1>1, <1>2, <2>1, <2>2, OtherWire
<1> QED BY <1>3, <1>4

LEMMA ReadWire ==
    ASSUME TypeInv, ChannelInv, PeerReads
    PROVE  ChannelInv'
<1>1. /\ wire \in Seq(Events) /\ wire # <<>> /\ received \in Seq(Events)
      /\ wire' = Tail(wire) /\ received' = Append(received, wire[1])
      /\ Marked' = Marked /\ anew' = anew /\ push' = push
  BY DEF PeerReads, TypeInv, TypeOK, memoryVars, Marked
<1>2. 1 \in DOMAIN wire /\ \A i \in DOMAIN wire' : i + 1 \in DOMAIN wire /\ wire'[i] = wire[i + 1]
  BY <1>1
<1>3. DOMAIN wire' \subseteq Nat \ {0}
  BY <1>1
<1>4. \A i \in DOMAIN received' :
        received'[i] = wire[1] \/ (i \in DOMAIN received /\ received'[i] = received[i])
  BY <1>1
<1>5. \A i, j \in DOMAIN wire' : i # j => Apart(wire'[i], wire'[j])
  <2> SUFFICES ASSUME NEW i \in DOMAIN wire', NEW j \in DOMAIN wire', i # j
               PROVE  Apart(wire[i + 1], wire[j + 1])
    BY <1>2
  <2>1. i + 1 # j + 1
    BY <1>3
  <2> QED BY <2>1, <1>2 DEF ChannelInv, WireInv
<1>6. \A i \in DOMAIN wire', j \in DOMAIN received' : Apart(wire'[i], received'[j])
  <2> SUFFICES ASSUME NEW i \in DOMAIN wire', NEW j \in DOMAIN received'
               PROVE  Apart(wire[i + 1], received'[j])
    BY <1>2
  <2>1. i + 1 # 1
    BY <1>3
  <2> QED BY <2>1, <1>2, <1>4 DEF ChannelInv, WireInv
<1>7. WireInv'
  BY <1>1, <1>2, <1>4, <1>5, <1>6 DEF ChannelInv, WireInv, OnItsWay, Apart
<1>8. QueueInv'
  BY <1>1, <1>2, <1>4 DEF ChannelInv, QueueInv, OnItsWay, Apart
<1> QED BY <1>7, <1>8 DEF ChannelInv

LEMMA EndSessionQueue ==
    ASSUME EndSession, TypeInv
    PROVE  /\ wire' = <<>>
           /\ \A e \in Events : push'[e] = "queued" => push[e] = "queued"
           /\ \A e \in Events : push'[e] = "new" => push[e] = "new"
BY DEF EndSession

LEMMA WireStep ==
    ASSUME TypeInv, ChannelInv, [Next]_vars PROVE ChannelInv'
<1> USE DEF loopVars, sessionVars, sendVars, memoryVars, Marked
<1>0. wire \in Seq(Events) /\ received \in Seq(Events)
  BY DEF TypeInv, TypeOK
<1>1. CASE Dial \/ StopEnds \/ SessionLost
  BY <1>0, <1>1, EndSessionQueue, OtherWire DEF Dial, StopEnds, SessionLost
<1>2. CASE Start \/ DialSucceeds \/ DialFails \/ MessageLoopEnds \/ FrameUndecodable \/ Wake
  BY <1>0, <1>2, OtherWire
  DEF Start, DialSucceeds, DialFails, MessageLoopEnds, FrameUndecodable, Wake
<1>3. CASE StopBegins \/ HandlersCancelled
  BY <1>0, <1>3, OtherWire DEF StopBegins, HandlersCancelled
<1>4. ASSUME NEW e \in Events, PushStep(e) PROVE ChannelInv'
  <2>1. CASE PushReturns(e) \/ PushFails(e)
    <3>1. \A f \in Events : /\ push'[f] = "queued" => push[f] = "queued"
                            /\ push'[f] = "new" => push[f] = "new"
      BY <2>1 DEF PushReturns, PushFails, Becomes, TypeInv, TypeOK
    <3> QED BY <1>0, <2>1, <3>1, OtherWire DEF PushReturns, PushFails
  <2> QED BY <1>4, <2>1, StartedWire, WrittenWire DEF PushStep
<1>5. CASE PeerReads
  BY <1>5, ReadWire
<1>6. ASSUME NEW q \in Requests, AnswerStep(q) PROVE ChannelInv'
  BY <1>0, <1>6, AnswerEffect, OtherWire
<1>7. CASE UNCHANGED vars
  BY <1>0, <1>7, OtherWire DEF vars
<1> QED BY <1>1, <1>2, <1>3, <1>4, <1>5, <1>6, <1>7 DEF Next, LoopStep, StopStep

Log == [i \in DOMAIN received |-> Copy(received[i])]

\* The peer's read is a delivery: the first copy of its id, or one marked anew.
LEMMA ReadDelivers ==
    ASSUME TypeInv, WireInv, PeerReads
    PROVE  /\ EventId(wire[1]) \in Ids
           /\ wire[1] \in anew \/ \A i \in DOMAIN Log : Log[i] # [id |-> EventId(wire[1]), copy |-> "first"]
           /\ Log' = Append(Log, Copy(wire[1]))
<1>1. /\ wire \in Seq(Events) /\ wire # <<>> /\ received \in Seq(Events)
      /\ received' = Append(received, wire[1]) /\ anew' = anew
  BY DEF PeerReads, TypeInv, TypeOK, memoryVars
<1>2. 1 \in DOMAIN wire /\ wire[1] \in Events
  BY <1>1
<1>3. EventId(wire[1]) \in Ids
  BY <1>2, EventIdType
<1>4. ASSUME wire[1] \notin anew, NEW i \in DOMAIN Log,
             Log[i] = [id |-> EventId(wire[1]), copy |-> "first"]
      PROVE  FALSE
  <2>1. i \in DOMAIN received /\ Log[i] = Copy(received[i])
    BY DEF Log
  <2>2. EventId(received[i]) = EventId(wire[1]) /\ received[i] \notin anew
    BY <1>4, <2>1 DEF Copy
  <2> QED BY <1>2, <1>4, <2>1, <2>2 DEF WireInv, Apart
<1>5. Len(received) \in Nat /\ DOMAIN received = 1..Len(received)
  BY <1>1
<1> DEFINE Copies == [id : Ids, copy : {"first", "anew"}]
<1>6. Log \in Seq(Copies) /\ Len(Log) = Len(received) /\ Copy(wire[1]) \in Copies
  <2>1. \A i \in 1..Len(received) : received[i] \in Events
    BY <1>1
  <2>2. \A e \in Events : Copy(e) \in Copies
    BY EventIdType DEF Copy
  <2>3. Log \in [1..Len(received) -> Copies]
    BY <2>1, <2>2, <1>5 DEF Log
  <2> HIDE DEF Copies
  <2>4. Log \in Seq(Copies)
    BY <2>3, <1>5
  <2> QED BY <2>2, <2>3, <2>4, <1>2, <1>5
<1>7. /\ DOMAIN received' = 1..Len(received) + 1
      /\ \A i \in 1..Len(received) : received'[i] = received[i]
      /\ received'[Len(received) + 1] = wire[1]
  BY <1>1, <1>5
<1> HIDE DEF Copies
<1>8. Append(Log, Copy(wire[1]))
      = [i \in 1..Len(received) + 1 |->
           IF i = Len(received) + 1 THEN Copy(wire[1]) ELSE Log[i]]
  BY <1>5, <1>6
<1>9. \A i \in 1..Len(received) + 1 :
        Copy(received'[i]) = IF i = Len(received) + 1 THEN Copy(wire[1]) ELSE Log[i]
  BY <1>5, <1>7 DEF Log
<1>10. Log' = [i \in 1..Len(received) + 1 |-> Copy(received'[i])]
  BY <1>1, <1>7 DEF Log, Copy
<1> QED BY <1>3, <1>4, <1>8, <1>9, <1>10

\* Nothing else reaches the downstream.
LEMMA OnlyPeerReads == [Next]_vars /\ ~PeerReads => received' = received
<1>1. ASSUME NEW e \in Events, PushStep(e) PROVE received' = received
  BY <1>1 DEF PushStep, PushEvent, PushWritten, PushReturns, PushFails
<1> QED
  BY <1>1, AnswerEffect
  DEF Next, vars, LoopStep, StopStep, Start, SessionLost, Dial, DialSucceeds,
      DialFails, MessageLoopEnds, FrameUndecodable, Wake, StopBegins,
      HandlersCancelled, StopEnds

\* What has been pushed stays as it was marked.
LEMMA AnewStays ==
    ASSUME TypeInv, [Next]_vars, NEW e \in Events, push[e] # "new"
    PROVE  e \in anew' <=> e \in anew
<1> USE DEF memoryVars, sendVars
<1>1. ASSUME NEW f \in Events, PushStep(f) PROVE e \in anew' <=> e \in anew
  <2>1. CASE PushEvent(f)
    <3>1. f # e /\ (Mark(f) \/ anew' = anew)
      BY <2>1 DEF PushEvent, PushRefused, PushSkipped, PushQueued, PushDoomed
    <3> QED BY <3>1 DEF Mark
  <2>2. CASE PushWritten(f) \/ PushReturns(f) \/ PushFails(f)
    BY <2>2 DEF PushWritten, PushReturns, PushFails
  <2> QED BY <1>1, <2>1, <2>2 DEF PushStep
<1> QED
  BY <1>1, AnswerEffect
  DEF Next, vars, LoopStep, StopStep, Start, SessionLost, Dial, DialSucceeds,
      DialFails, MessageLoopEnds, FrameUndecodable, Wake, StopBegins,
      HandlersCancelled, StopEnds, PeerReads

LEMMA LogStays ==
    ASSUME TypeInv, WireInv, [Next]_vars, ~PeerReads PROVE Log' = Log
<1>1. received' = received
  BY OnlyPeerReads
<1>2. \A i \in DOMAIN received : received[i] \in Events /\ push[received[i]] # "new"
  BY DEF WireInv, OnItsWay, TypeInv, TypeOK
<1>3. \A i \in DOMAIN received : Copy(received[i])' = Copy(received[i])
  <2> TAKE i \in DOMAIN received
  <2>1. received[i] \in anew' <=> received[i] \in anew
    BY <1>2, AnewStays
  <2> QED BY <1>1, <2>1 DEF Copy
<1> QED BY <1>1, <1>3 DEF Log

\* Across all sessions a downstream reads an event id once (_forwarded_ids
\* outlives them); each further copy is of an event for which the id, dropped by
\* the trimming of push_event, was marked anew.
THEOREM DeliveryCorrect == Spec => AtMostOnce
<1>1. Init => ChannelInv
  BY DEF Init, ChannelInv, WireInv, QueueInv
<1>2. Init => Channel!Init
  BY DEF Init, Channel!Init
<1>3. TypeInv /\ ChannelInv /\ [Next]_vars => [Channel!Next]_Log
  <2> SUFFICES ASSUME TypeInv, ChannelInv, [Next]_vars PROVE [Channel!Next]_Log
    OBVIOUS
  <2>1. CASE PeerReads
    <3>1. EventId(wire[1]) \in Ids /\ Copy(wire[1]).copy \in {"first", "anew"}
      BY <2>1, ReadDelivers DEF ChannelInv, Copy
    <3>2. Channel!Deliver(EventId(wire[1]), Copy(wire[1]).copy)
      BY <2>1, ReadDelivers
         DEF ChannelInv, Channel!Deliver, Channel!AlreadyIn, Log, Copy
    <3> QED BY <3>1, <3>2 DEF Channel!Next
  <2>2. CASE ~PeerReads
    BY <2>2, LogStays DEF ChannelInv
  <2> QED BY <2>1, <2>2
<1>4. TypeInv /\ ChannelInv /\ [Next]_vars => ChannelInv'
  BY WireStep
<1> QED BY <1>1, <1>2, <1>3, <1>4, InitType, TypeStep, PTL
        DEF Spec, AtMostOnce, Channel!Spec, Log, Copy

\* What the abstract channel says of the downstream, in so many words.
ReadOnce ==
    \A i, j \in DOMAIN received : i # j => Apart(received[i], received[j])

LEMMA ReadOnceStep ==
  ASSUME TypeInv, WireInv, ReadOnce, [Next]_vars
  PROVE  ReadOnce'
<1>1. CASE ~PeerReads
  <2>1. \A i \in DOMAIN received : received[i] \in Events /\ push[received[i]] # "new"
    BY DEF WireInv, OnItsWay, TypeInv, TypeOK
  <2>2. received' = received
    BY <1>1, OnlyPeerReads
  <2>3. \A i \in DOMAIN received : received[i] \in anew' <=> received[i] \in anew
    BY <2>1, AnewStays
  <2> QED BY <2>2, <2>3 DEF ReadOnce, Apart
<1>2. CASE PeerReads
  <2>1. /\ wire \in Seq(Events) /\ wire # <<>> /\ received \in Seq(Events)
        /\ received' = Append(received, wire[1]) /\ anew' = anew
    BY <1>2 DEF PeerReads, TypeInv, TypeOK, memoryVars
  <2>2. /\ DOMAIN received' = 1..Len(received) + 1 /\ DOMAIN received = 1..Len(received)
        /\ Len(received) \in Nat /\ 1 \in DOMAIN wire
        /\ \A i \in 1..Len(received) : received'[i] = received[i]
        /\ received'[Len(received) + 1] = wire[1]
    BY <2>1
  <2>3. \A i \in DOMAIN received : Apart(received[i], wire[1]) /\ Apart(wire[1], received[i])
    BY <2>2 DEF WireInv, Apart
  <2> QED BY <2>1, <2>2, <2>3 DEF ReadOnce, Apart
<1> QED BY <1>1, <1>2

\* Of two events with one id that a downstream has read, however many sessions
\* came and went between them, one was marked anew after the id was forgotten.
THEOREM ReadOnceHolds == Spec => []ReadOnce
<1>1. Init => ChannelInv /\ ReadOnce
  BY DEF Init, ChannelInv, WireInv, QueueInv, ReadOnce
<1>2. TypeInv /\ ChannelInv /\ [Next]_vars => ChannelInv'
  BY WireStep
<1>3. TypeInv /\ ChannelInv /\ ReadOnce /\ [Next]_vars => ReadOnce'
  BY ReadOnceStep DEF ChannelInv
<1> QED BY <1>1, <1>2, <1>3, InitType, TypeStep, PTL DEF Spec

=============================================================================
