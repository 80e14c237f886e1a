-------------------------- MODULE MCLiveOrderGate ---------------------------
(* Small instances of LiveOrderGate.                                         *)
EXTENDS LiveOrderGate, TLC

\* The limit-up trader buys less often than the others and repeats no sell.
LimitUpLess == [g \in Gates |-> IF g \in Latching THEN MaxOrders ELSE MaxOrders - 1]
LimitUpNever == [g \in Gates |-> IF g \in Latching THEN MaxRetries ELSE 0]

\* Gates of the same policy are interchangeable.
Interchangeable == Permutations(Latching)
=============================================================================
