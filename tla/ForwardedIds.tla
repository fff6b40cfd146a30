----------------------------- MODULE ForwardedIds -----------------------------
(***************************************************************************)
(* The bounded memory of forwarded event ids that every downstream client  *)
(* keeps (_forwarded_ids and _max_forwarded of downstream.py).             *)
(***************************************************************************)
EXTENDS Naturals, FiniteSets

CONSTANT MaxForwarded    \* _max_forwarded

ASSUME CapacityAssumption == MaxForwarded \in Nat \ {0}

\* The ids kept when there are too many: list(set)[-max // 2:] is any half.
Trimmed(ids) ==
    IF Cardinality(ids) <= MaxForwarded THEN {ids}
    ELSE {kept \in SUBSET ids : Cardinality(kept) = (MaxForwarded + 1) \div 2}

=============================================================================
