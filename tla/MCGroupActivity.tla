--------------------------- MODULE MCGroupActivity ---------------------------
(* An instance of ActivityRecord for TLC: one chat (the chats share nothing), *)
(* more messages than its deque holds, times beyond both horizons.            *)
EXTENDS ActivityRecord
=============================================================================
