----------------------------- MODULE OrderedFeed -----------------------------
(***************************************************************************)
(* What the bridge promises of the events it passes on (README of the      *)
(* repository: NapCat -> Klee Core -> downstreams): a downstream receives  *)
(* the events of one NapCat connection in the order NapCat sent them, and  *)
(* no event id twice, although several connections, often with copies of   *)
(* one message, are served at once, but for copies that are sent anew      *)
(* because the id had been forgotten.  Nothing is promised to arrive, and  *)
(* nothing about the order of events of two connections.                   *)
(***************************************************************************)
EXTENDS Naturals, Sequences

CONSTANTS
    Feeds, Clients,
    Frames                \* feed -> its frames, each with an event id

VARIABLES
    current,              \* feed -> number of the frame that is being handled
    inbox                 \* client -> the events (<<feed, frame>>) it received,
                          \* each as the "first" copy of its id or one "anew"

IdOf(event) == Frames[event[1]][event[2]].id

FirstReceived(d, id) ==
    \E n \in DOMAIN inbox[d] : inbox[d][n].copy = "first" /\ IdOf(inbox[d][n].event) = id

Init ==
    /\ current = [f \in Feeds |-> 0]
    /\ inbox = [d \in Clients |-> <<>>]

\* The next frame of a feed is taken up.
Advance(f) ==
    /\ current' = [current EXCEPT ![f] = @ + 1]
    /\ UNCHANGED inbox

\* A client receives the frame that is being handled.
Deliver(f, d, copy) ==
    /\ current[f] > 0
    /\ copy = "anew" \/ ~FirstReceived(d, IdOf(<<f, current[f]>>))
    /\ inbox' = [inbox EXCEPT ![d] = Append(@, [event |-> <<f, current[f]>>, copy |-> copy])]
    /\ UNCHANGED current

Next ==
    \E f \in Feeds :
       \/ Advance(f)
       \/ \E d \in Clients, copy \in {"first", "anew"} : Deliver(f, d, copy)

Spec == Init /\ [][Next]_<<current, inbox>>

=============================================================================
