-------------------------- MODULE AtMostOnceDelivery --------------------------
(***************************************************************************)
(* What DownstreamOneBotWSClient promises of the events it forwards        *)
(* ("Track forwarded event IDs to avoid duplicates"): whatever happens to  *)
(* the connection, a downstream sees an event id at most once, but for     *)
(* copies that are forwarded anew because the client, whose memory is      *)
(* bounded, had forgotten the id.  Nothing is promised to arrive.          *)
(***************************************************************************)
EXTENDS Sequences

CONSTANT Ids

VARIABLE log          \* what arrived, in order: first copies of ids, and copies anew

AlreadyIn(id) == \E i \in DOMAIN log : log[i] = [id |-> id, copy |-> "first"]

Init == log = <<>>

Deliver(id, copy) ==
    /\ copy = "anew" \/ ~AlreadyIn(id)
    /\ log' = Append(log, [id |-> id, copy |-> copy])

Next == \E id \in Ids, copy \in {"first", "anew"} : Deliver(id, copy)

Spec == Init /\ [][Next]_log

=============================================================================
