-------------------------- MODULE MCDownstreamClient --------------------------
(* An instance of DownstreamClient for TLC: a message that two bots deliver,   *)
(* and a notice, which has no message id.                                    *)
EXTENDS DownstreamClient

CONSTANTS b1, b2, q1

Event(message, time, bot) == [message |-> message, time |-> time, bot |-> bot]

MCEvents == {Event("m1", 1, b1), Event("m1", 1, b2), Event(NoMessageId, 1, b1)}
=============================================================================
