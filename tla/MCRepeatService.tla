--------------------------- MODULE MCRepeatService ---------------------------
(* Instances of RepeatService for TLC: a group of two bots and, optionally, *)
(* a second group with one of them.                                         *)
EXTENDS RepeatService, TLC

CONSTANTS g1, g2, b1, b2, hi, ho

Shared == [g \in Groups |-> Bots]
TwoGroups == [g \in Groups |-> IF g = g1 THEN {b1, b2} ELSE {b1}]

AnyOrder == Permutations(Texts)
=============================================================================
